# Verification of the VPN subscription service

TLA+ models of this repository's API, worker and Telegram bot, the TLC runs that
check them and the theorems that TLAPS proves about them.  Line numbers below
refer to the Go sources; `PROJECT.json` maps every definition to its lines.

## 1. The system

The service sells VPN time.  An API process (site, administration, webhook, bot)
and a worker process share PostgreSQL and Redis and call two outside systems:
Platega, the payment gateway, and Remnawave, the VPN panel.

| Component | State | Operations | Hard because |
|---|---|---|---|
| Job queues (`worker.go`) | Redis lists, the job in a loop's hand, retries that sleep in goroutines, `dead:` lists | `Enqueue`, `loop`, `requeueOrDead` | `BRPOP` removes before work is done; a restart loses hands and sleepers |
| Payment processing | `payments.status`, LTV, `pay:processed:*` keys | confirm, revert, push follow-ups | the key is set before the work; status is read outside the transaction |
| Activation, expansion, reward jobs | subscription, slots, balance, `devexp:processed:*` | one handler each | two of the three have no key; the panel fails after the commit |
| Checkout (`service.go`, `redis.go`) | pending rows, the discount column, `rl:` counters | `InitiatePayment`, `InitiateDeviceExpansionPayment`, `UsePromoCode`, `TouchPayment` | look-ups, gateway, insert and removal of the discount are separate; the unique index has the last word |
| Webhook (`platega.go`) | `webhook_events` | `Handle` | delivery is lost, repeated, reordered |
| Status polls, minute sweep | dedup keys, the answer in hand | `CheckPaymentStatus`, `syncStalePayments`, `MarkExpiredPayments` | read, ask and write are separate, and the write looks at nothing |
| Subscriptions | rows with status and `expires_at` | buy (three ways), trial, contract, sweep, edit | each transaction is followed by unlocked panel calls |
| Panel account | exists, enabled, expiry, device limit | create, update, enable, disable | calls fail or arrive late |
| YAD economy | balances, promo uses, stock, slots, rewards | promo, shop, plan, slots, reward, clawback, adjust | isolation levels are mixed, locks are taken row by row |
| Sessions (`handlers.go`, `redis.go`, `bot.go`, `middleware.go`) | refresh allowlist and family, `pw:ver`, ban key, challenges, cookies | login, refresh, logout, 2FA, password change and reset, ban | every handler is a row of separate calls, each of which may fail; tokens and the keys that revoke them run out |
| Accounts (`service.go`, `bot.go`, `user_repo.go`) | `users` rows, `referrals`, `tg:link:` and `tg:unlink:` codes | register, `/start`, link, `MergeUsers`, unlink, two-factor switch | codes, look-ups, merge and binding are separate; merges lock several rows |
| Anti-fraud limits | per-address and per-device counters | count, refuse | counters are bumped outside the insert |
| Bot, tickets, news, web front end, configuration | records, messages | front ends and record keeping | no interplay of steps beyond the services they call |

What makes each correct, in a sentence: a payment is booked once and only if the
gateway settled it; a settled payment is served or visibly dead-lettered; retries
end; bought days are neither lost nor invented; access at the panel is never ahead
of the database; a balance is spent once; a code pays once per user; a refresh token
is good for one answer; a session that was ended stays ended; a Telegram leads to no
account but its owner's; a merge loses and doubles nothing; one open payment per plan,
at a price that a redeemed code accounts for.

## 2. Modules

```
JobQueue -> PaymentWorker -> PaymentSystem -> PaymentProperties -> MCPaymentSystem
                                               |  INSTANCE PaymentLedger
Subscriptions -> SubscriptionProperties -> MCSubscriptions
                  |  INSTANCE Entitlement
Economy -> EconomyProperties -> MCEconomy
            |  INSTANCE Purse
Sessions -> SessionProperties -> MCSessions
Accounts -> AccountProperties -> MCAccounts
             |  INSTANCE Holdings
Checkout -> CheckoutProperties -> MCCheckout
             |  INSTANCE Till
```

**JobQueue** is the queue machinery alone: `queue[q]` is the Redis list, `hand[q]`
the popped job, `backoff[q][e]` how many copies of `e` sleep before they are pushed
again, `dead[q]` the dead-letter list.  `Requeue` is `requeueOrDead` (worker.go
240-283), `Bury` its last push to the dead-letter list and `BuryLost` that push failing
unseen (257), `WorkerStops` what a restart destroys.

**PaymentWorker** adds checkout, webhook and the four handlers.  A handler is cut
at each Redis call, read and transaction: `stage[q]` says where it stands.
`ClaimPayment` is `EnsureOnce` with the read of the payment; `ConfirmPayment` and
`RevertPayment` are the two transactions, and `Reclaims` says whether a chargeback takes
back the reward: its look-up runs outside the transaction and an error of it is dropped
(515); `DispatchFollowUps` the two pushes after
the commit; `ExtendSubscription`/`CreditBonus`, `ClaimExpansion`/`ExpandDevices`
and `PayReward` the follow-up handlers.  `HandlerFails` is every error return, by
stage and failing call.  `ledger[p]` counts what committed transactions did for a
payment; it is the interface to `PaymentLedger`.

**PaymentSystem** composes it with all who ask the gateway: `StartPoll`,
`AskGateway`, `WriteAnswer`, `PushAnswer` (service.go 610-690, admin 600-680),
and the minute sweep `ListStale`, `SyncNext`, `MarkExpiredPayments`
(worker.go 950-1030).

**PaymentLedger** is what the pipeline promises per payment, **PaymentProperties**
the statements about it.

**Subscriptions** is one user's rows, dates and panel account.  A transaction is a
step (`Purchase`, `ActivateTrial`, `Revert`, `UpdateExpired`, ...) and the panel
calls after it are another, made with what was read before it (`req[x]`).
**Entitlement** is the account of time those rows must implement.

**Economy** goes below the transaction: each statement is a step that takes a row's
lock or waits for it, `newest` holds uncommitted versions, `db` what others see,
`stale[c]` the rows that changed since the snapshot of `c`, which a SERIALIZABLE
transaction must not meet (40001, up to three attempts).  `Program` lists the
statements of each transaction in the code's order.  Each request is an action with the
checks its handler makes before it opens a transaction (`EnterPromo`, `OrderItem`,
`BuySubscriptionWithYAD`, `BuyDeviceExpansion`, `AdjustYAD`), each job one that runs
once (`HandleDeviceExpansionActivate`, `HandleReferralReward`,
`ProcessRevertedPayment`).  **Purse** is the sequence of whole deals that must result.

**Sessions** is one user signing in and out.  `allowed` is the `rt:<jti>` keys,
`family` the set `rt:user:<id>`, `version` the time that `pw:ver` holds and when it was
written, `banKey` when `ban:` was written, `jar` what each browser's cookies hold.  A request
(`req[c]`) goes through its handler one Redis or PostgreSQL call at a time: `Refresh`,
`Consume`, `CheckBan`, `Mint`, `RegisterRefreshToken`, `SetAuthCookies` for a
refresh (handlers.go 223-306), and from `Consume` to `Members`, `Drop`,
`ReadClock`, `SetPasswordVersion`, `ClearAuthCookies` when the token was used already;
`SetPassword`, `ReadClock`, `SetPasswordVersion`, `Members`, `Drop` for a new password
(525-541, bot.go 1588).  `After` holds these orders.  `ReadClock` is the `time.Now()` that
is evaluated for the call, `SetPasswordVersion` the SET when it arrives: time passes and
tokens are minted in between, and of two overlapping changes either may arrive last.
`Served` is a token that opens `/api`, `AdminServed` one that opens `/api/admin` for a user
with `is_admin` (`Admin`): that group does not ask for the ban key (main.go 146, 208).  `Abandon` is a client that goes away, a lost answer or a
stopped process, at any step.  `pairs`, `epoch` and `halfway` are history: the code
does not read them, except that a pair's `iat` is in its tokens.
**SessionProperties** names sessions: a chain of pairs, each given for the one before.

**Accounts** is the `users` table with its `telegram_id`, the `referrals` table, the
one-time codes and the requests at work on them.  `holder[u]` is the transaction that
has a row locked.  Registration is `Register`, `Create`, `CreateReferral`
(service.go 116-248); `/start` is `Start`, `Create` with its second attempt
(`CreateFails`), `CreateReferral`, `Bind` (bot.go 306-428); `/link` is `Link` (GETDEL),
`FindLinked`, the merge and `Bind` (bot.go 1408-1485).  `MergeUsers` (user_repo.go
1973-2111) is `LockSource`, `TakeDestination` and `Move`, which does steps 2 to 8 and
commits; `MergeFails` rolls it back and `Deadlock` is PostgreSQL ending one transaction
of a ring.  `HandleUnlink` and `GenerateUnlinkCode` give out the codes that `Unlink`,
`Clear`, `Disable` use up (handlers.go 571-649).  `opened` and `agreed` are history.
**Holdings** is what becomes of possessions when accounts are merged whole.

**Checkout** is one user's purchases for money up to the answer with the redirect URL.
`payments` is the table, `limiter` the two hourly counters, `discount` the column of
the user.  A request goes through `InitiatePayment`, `CheckAPIRateLimit`,
`ActiveDiscount`, `CreateAtGateway`, `CreatePayment`, `ShowWinner` or
`ClearActiveDiscount`, `PushFree` (service.go 391-539); an expansion counts
(`CountSlots`, `ExpireSlots`) before it looks (`FindPending`, 696-812).
`RedeemCode`, `UsePromoCode`, `SetActiveDiscount` are the discount branch of
`UsePromoCode` (884-911).  What the pipeline does to a payment is `Settle`; how it does
it is `PaymentSystem`.  **Till** is what the buyer may rely on.

Modules ending in `_proofs` hold the theorems of section 5: one for each component,
`JobQueue_proofs` with the lemmas about queues, and `PaymentLedger_proofs` on top of
`PaymentSystem_proofs`.

## 3. Runs

| Run | Question | Result |
|---|---|---|
| `asking` | user polls and the sweep race webhook and worker, with every failure of the asking side | `TypeOK`, `GatewayBacked`, `SingleFollowUp`, `ImplementsLedger` hold |
| `faults` | every failure inside worker, webhook and Redis, two retries, an administrator's poll | `ImplementsLedger` holds |
| `live` | failures the worker retries, under fairness | `ConfirmedIsBooked`, `PaidIsServed`, `RowSettles`, `QueuesDrain` hold |
| `subscriptions` | activations with retries, two trial requests, chargebacks, sweep; database, panel and process fail | `TypeOK`, `PanelBacked`, `ImplementsEntitlement` hold |
| `subscriptions_live` | the administrator's assignments and edits, lazy repair, sweep, under fairness | `ImplementsEntitlement`, `LapsedRowSettles` hold |
| `economy` | any three deals, two at once, statement by statement | `TypeOK`, `ImplementsPurse`, `RequestsEnd` hold |
| `sessions` | any four requests of two browsers, the bot and the administrator, two at once; calls fail, handlers are cut short, tokens and keys run out | `TypeOK`, `SingleUse`, `OldPasswordIsOut`, `BannedIsOut`, `EndedStaysEnded` hold |
| `accounts` | any two requests to register, start, link, unlink, switch, ask for a code, use the trial or be credited, both at once, statement by statement | `TypeOK`, `TelegramAgreed`, `ImplementsHoldings`, `RequestsEnd` hold |
| `checkout` | any three purchases, codes or returns to the page, two at once; every call may fail, the API may stop | `TypeOK`, `ImplementsTill`, `LimitLifts`, `PlanComesFree` hold |
| `claim_one_grant` | "Idempotency checked before every operation" | violated |
| `claim_sweep` | a payment whose webhook is missed is activated by the sweep | violated |
| `claim_reverted` | a reverted subscription is switched off by the next sweep | violated |

Each property of a passing run has a mutation of a mapped definition that breaks
it (`PROJECT.json`, "mutants"); the mutated operators stand before the originals.

### Bounds

*Payments.*  One payment: payments of a user meet only in `hasSub` and `expanded`,
which start in both values and change under the payment's own steps; queues, keys
and rows are per payment.  `MaxJobRetries` is 1 or 2 instead of 5: one retry shows
a repeated handler, two a repeated retry; the theorems cover all values.
`MaxBacklog` keeps askers from starting while a job waits, which bounds the queue:
with 1, a second confirmation can still be pushed behind the first, by the webhook
and by an asker that had begun.  Clocks are three ages of a row (`fresh`, over five
minutes, past `expires_at`); `ForgetClocks` resets the age and dedup key of rows no
query selects any more.

*Subscriptions.*  Days are small numbers: plans of 1 or 2 days, a trial of 1, a
clock up to `Horizon` (1 to 3) and purchases up to `MaxExpiry`, so that rows lapse,
are extended while live and after, and are contracted into the past.  One payment
per plan may be charged back.  `Actors` chooses who exists, because all at once are
too many; the runs pair those that meet.

*Economy.*  Two users (payer and referrer), two clients, three requests of any
kind in any order: enough for reward, spending and clawback, for two purchases from
one balance, for a code with one use wanted by two, for slots bought over paid ones.
`MaxAttempts` is 2 for 3, so that both the retry and the giving up happen.
`PoolSize` is one more than the clients; with equally many `RequestsEnd` fails,
see section 6.

*Sessions.*  Two browsers, two requests at once, four in all, one challenge, two
pairs of tokens: enough for two refreshes with one cookie, for a request that mints
while another ends everything, and for a retry after each.  An access token lives one
tick, a refresh token and the keys three, the clock goes to four, so that the keys run
out while a token is still in a jar, and a tick fits between the reading of the clock
and the write of `pw:ver`.  The user is an administrator, which only adds ways to be
served.  `MaxPairs` bounds what is minted, not what is
asked: a request that finds the bound waits or is abandoned.  `MaxChanges = 1` lets no
password change begin after one has set its password; two may overlap (and
write `pw:ver` in the wrong order), and a replayed token writes it again.  Requests and browsers
are interchangeable (SYMMETRY); only safety is checked, and the system may stop
(CHECK_DEADLOCK FALSE) when its requests are used up.  The theorems cover all values.

*Accounts.*  Two accounts at the start, one of the site and one of the bot, either of
which may have referred the other, have used its trial and own rows; two more may be
opened; two Telegrams.  `MaxAsked = 2` requests, both under way together if need be:
two links that merge one account from both sides, or into each other (the ring that
`Deadlock` ends), a merge against a credit, a trial, a registration by its code, an
unlinking or a second `/start`.  One code of a kind per account is enough, since a
second would be used by a third request.  With `MaxAsked = 3`, one new account less and
1.6 million states the safety properties hold as well; that run takes too long for its
liveness and is not listed.

*Checkout.*  Two plans, of which one an expansion, since plans meet only in the discount
and the first limiter; a code that halves and a code that gives for nothing, of which two
are enough for one to overwrite the other; three transactions and three requests, two at
once, so that a loser meets a winner that is live, lapsed or settled.  `Limit` is 1 for 5:
the second purchase is refused already.

### Fairness

Only what the processes do by themselves is fair: the loops of `Worker.Run`,
backoff goroutines, tickers, handlers that have begun, the gateway's redelivery, the
passing of time and expiry of keys.  Nobody has to check out, pay, poll or buy.
The live runs have no fault that destroys work for good (a lost key, a crash, a
failed transaction behind a key, a failed push to the dead-letter list): with those the liveness properties are false of
the code, and section 6 says so.  In `economy` weak fairness of a client stands for
PostgreSQL's granting of row locks to those who wait; requests are finitely many.  So
it does in `accounts`, where a ring of waiting transactions goes on because PostgreSQL
ends one of them (`Deadlock` is a step of the handler that is ended).  In `checkout` only
the passing of a key's hour (`WindowEnds`) and the minute sweep (`MarkExpiredPayments`)
are fair: `LimitLifts` and `PlanComesFree` must not depend on a handler that goes on.

## 4. What the models leave out, and why it is safe

* One user. Other users' rows are touched only by referral rewards, where
  `Economy` has the second user.
* Merged steps: insert, lookup and mark of a webhook (nobody else reads the row);
  `UpdateExpiry` with `EnableUser` (one step with every outcome of the pair); the
  checks before a transaction of `Economy` (they only refuse); a statement that
  fails (as if at the commit: before it, it only makes others wait).
* A commit whose acknowledgement is lost is not modelled; nor is the expiry of the
  48-hour keys, which outlive retries and sweeps by far.
* Branches no stored row reaches: plans outside the CHECK of the table, and a status
  the administrator's poll accepts unchecked but the CHECK of the table refuses.
* An expansion job finds an active subscription or none, by choice, since the dates
  live in another model.
* `Subscriptions` has one activation job at a time, no device limits and no merge of
  accounts; `Economy` one item per order, finite stock, and no discount promos (they are
  in `Checkout`).
* `Accounts` takes all rows of other tables that belong to an account for one flag
  (`owns`): it matters whether there are any, since they keep an account from being
  deleted.  Bans, the limits per address, device and code, the risk score and the first
  administrator's token are left out: they only refuse.  A code that runs out is one
  nobody enters.  Merges that fail because two rows collide are `MergeFails`.
* `Checkout` has no price but the code it was reduced by, and one user.  An answer of the
  gateway that is lost leaves nothing here; the payment it opened there is never shown.
* Not modelled: the payout queue and its sweeps, which no state reaches (nothing pushes
  to `QueueReferralPayout`, and every reward is written as paid); `MergeAccounts`
  (user_repo.go 1700), which has no caller; device lists, which live in the panel;
  tickets, news, menus and analytics, which keep records and have no interplay of steps.
* `Sessions` has no counters against guessing, no linking of Telegram, no reload of
  `is_admin`, and no reads of Redis that fail open (`CheckPasswordVersion` and
  `BannedCheck` let everyone through while Redis is away, which the code documents;
  only the ban check of a refresh may fail).  Access and refresh token of an answer
  have one `iat`, although two clock readings give them theirs.  Access tokens live at most
  as long as refresh tokens (`SessionAssumption`): true of the default hour, and of any
  `JWT_ACCESS_TTL_HOURS` up to 720.
* Messages, notifications, prices in rubles and formatting.

## 5. What is proved

Every invariant, every action property and every refinement of a passing run is also a
theorem, for every value of the constants; what stays with TLC is liveness.  The
assumptions are those named in the modules (`QueueAssumption`, `FaultAssumption`,
`PollAssumption`, `SubscriptionAssumption`, `EconomyAssumption`, `SessionAssumption`,
`AccountAssumption`, `CheckoutAssumption`): bounds are natural numbers, plans last at
least a day, an access token lives no longer than a refresh token, a bigger expansion
costs no less, the values that stand for "none" are no real ones, and the sets of
faults, actors and operations are of the kinds listed.  One theorem,
`ConfirmedRowsAreBooked`, has a hypothesis of its own.

Each proof has the same shape: an inductive invariant, one lemma per action or group of
actions, and for a refinement one lemma per action that says which abstract step it is.
The invariants were checked by TLC before they were proved.

**Pipeline** (`PaymentSystem_proofs`, `PaymentLedger_proofs`, on the lemmas about queue
operations in `JobQueue_proofs`)

* `TypeCorrect`: `Spec => []TypeOK`.  The inductive step needs only that a retry counter
  below `MaxJobRetries` stays in range when it is raised.
* `NoStatusInvented`: `Spec => []GatewayBacked`.  `GatewayInv` adds that an asker asks
  about payments Platega knows (`AsksKnown`, `PendingKnown`) and that only a CONFIRMED job
  reaches the stage that pushes follow-ups (`ConfirmedStage`): what a row, a job or an
  answer claims was copied from another of them or from the gateway, whose own status
  only moves so that what was reached stays reached.
* `PipelineKeepsLedger`: `Spec => ImplementsLedger`, under every fault of the model.  With
  `RewardLookup` among them the ledger allows a chargeback to miss the reward
  (`RewardMissed`); without it, it must take back what was paid by then.
  `LedgerInv` ties the ledger to the keys and the queues: a booking implies its key and
  the transaction that runs under a fresh key finds nothing booked (`Claims`, `Books`,
  `Undoes`); nothing is served before the payment has passed to its follow-up queues
  (`Awaited`, `Serves`); grants are bounded by the attempts counted in the one job there
  is (`GrantsCounted`), and expansions by their key (`ExpandedOnce`).
* `OneFollowUpEach`: `Spec => []SingleFollowUp`, from the part `Proper` of the same
  invariant.  `Copies` is the set of places where a job can be (a position in the list, a
  sleeping goroutine, a hand); the lemmas on copies in `JobQueue_proofs` say that every
  queue operation but a push moves a copy and never makes one, so that the push at the
  dispatch, which `Awaited` allows once, is the only source.
* `ConfirmedRowsAreBooked`: `LossFree => (Spec => []ConfirmedIsBooked)`.  `LossFree` says
  that no fault is among the six that the code really loses a confirmation to (a failed
  push, a failed requeue, a failed push to the dead-letter list, a transaction that fails
  behind its key, either process killed);
  webhooks may still be lost, and panel, gateway, keys, polls and sweep may fail.  The run
  `live` satisfies it.  `BookInv` adds that a key that is set has its booking made or under
  way (`KeyBooked`), so that a job skipped for its key is not missed.

**Subscriptions** (`Subscriptions_proofs`)

* `SubscriptionTypes`: `Spec => []TypeOK`.
* `PanelNeverAhead`: `Spec => []PanelBacked`.  Not inductive by itself: a request carries
  the date it will send.  `DatesBacked` adds that every row (`RowsBacked`), every request
  between commit and call (`RequestsBacked`) and an edit under way (`EditBacked`) hold
  dates not beyond the latest committed.
* `RowsImplementEntitlement`: `Spec => ImplementsEntitlement`.  `End`, a maximum over the
  rows, needs to exist and to move as the abstract date does: there are at most two rows
  (`FewRows`, from `BuyersBegan` and `TrialsBegan`), and the lemmas `MaxIs`, `EndIs`,
  `EndRedated` and `EndAdded` say what a write does to it without induction.

**Economy** (`Economy_proofs`)

* `EconomyTypes`: `Spec => []TypeOK`, that no balance is negative among it.
* `EconomyKeepsPromises`: `Spec => ImplementsPurse`.  A deal happens at COMMIT, of what
  several statements read and wrote before.  `EconomyInv` says, for each program and each
  statement, which rows the transaction has locked by then and how what it wrote differs
  from what is committed (`PromoLocks` to `AdminLocks`), what it knows of rows it has not
  locked (`Knows`: the user has not used the code; the price is a difference from the
  slots held, lapsed or swept meanwhile; the reward is not given), that one job gives a
  reward (`OneReward`) and that the code's counter is the number of its users
  (`UsesCounted`).  `Commit` then is the deal; every other statement shows nothing.  The
  proof uses the row locks and the conditional UPDATEs only, never that a SERIALIZABLE
  transaction is refused for a stale snapshot: `Purse` would hold under READ COMMITTED.

**Checkout** (`Checkout_proofs`)

* `CheckoutTypes`: `Spec => []TypeOK`.
* `CheckoutKeepsPromises`: `Spec => ImplementsTill`.  `CheckoutInv` says what a purchase
  relies on between its calls (`Fits`): the transaction in its hands was issued to it and
  to no other purchase (`Apart`), has no row until it inserts one, and the discount it
  priced with was redeemed (`OnRecord`).  One open offer per plan comes from the unique
  index alone, at the insert.

**Sessions** (`Sessions_proofs`)

* `SessionTypes`: `Spec => []TypeOK`, through `Typed`, which adds what a request has in
  hand at each step (`Fits`) and that no pair is from the future.
* `OldPasswordGone`: `Spec => []OldPasswordIsOut`.  The invariant `OldIsOver` says of
  everything a pair can come from (pairs, requests before `Mint`, challenges) that, unless
  a change is half done, an older password means an older write of `pw:ver` (`Ended`), and
  that what is from before that write was issued by then (`Dated`).  Issued in a second
  before the time the key holds, a token is stale while `pw:ver` lives; afterwards it has
  run out itself, since the key is written no earlier than that time and lives as long as
  the token (`OldNotRefreshable`).  Two kinds of token are excepted, and the code does let
  them live: `Slipped`, minted between the reading of the clock (or in its second) and the
  arrival of the SET, and `loose`, given out after it for a sign-in, a rotation or a
  two-factor challenge that was checked before; a challenge stays good for such polls as
  long as it lives, also for those that begin after the change.  The proof does not use that the
  family was revoked.
* `RefreshOnce`: `Spec => []SingleUse`.  `OneHolder` says the same without counting: of
  one session there is at most one allowed pair (`OneKey`), at most one request with the
  next pair in hand (`OneHand`), and not both (`KeyOrHand`).  `Numbered` adds that a
  session's number is that of its first pair, so that the next pair begins one no other
  has.  `AtMostOne` gives the cardinalities.
* `NoSessionReturns`: `Spec => EndedStaysEnded`, an action property.  Given `Typed` and
  `OneHolder`, a step that leaves a session open found it open (`OpenedBy`,
  `OpenMovesOn`): whoever registers or mints a pair of it had it in hand, and a pair that
  `pw:ver` made stale stays so (`RefreshableFalls`).  The last fails when `pw:ver` goes
  back, which the property excepts: two overlapping changes may read the clock in one order
  and write in the other, and what lies between the two times is then good again.
* `BannedGone`: `Spec => []BannedIsOut`, from the types and the lifetimes: the ban key
  lives as long as a refresh token, an access token no longer (`AccessTTL <= RefreshTTL`,
  an assumption on the configuration).  It says that nothing from before a ban opens `/api`
  while the ban lasts, and that nothing of it is good for a refresh or for `/api/admin`
  beyond the key.  That `/api/admin` is closed at once is not true of the code (section 6).

**Accounts** (`Accounts_proofs`)

* `AccountTypes`: `Spec => []TypeOK`, through `Typed`, which adds what a request has in
  hand at each step (`Fits`).
* `NoStrangersAccount`: `Spec => []TelegramAgreed`.  What the table says is not inductive:
  a request carries the Telegram and the account it will join through look-ups, a merge
  and its commit.  The invariant `Bound` has the rows (`Owned`: a Telegram that is set was
  agreed to; `Alone`: no two rows share one, which the unique index keeps) and the
  requests (`Promised`: whoever is to be bound has a code entered by that Telegram, or was
  opened for it).  All actions but `Bind` keep or clear Telegrams (`Keeps`), a merge among
  them, which deletes the source's.
* `MergesLoseNothing`: `Spec => ImplementsHoldings`.  `Holding` says what each request may
  rely on (`Sure`): the identity it will insert is nobody's and no other request's
  (`Sole`); a referral about to be written is the row's, if both accounts are still there;
  a merge has its rows locked and the balance and trial it read are what there still is.
  `Ledgers` relates rows to each other: what does not exist has nothing, what has a balance
  or used its trial owns rows (so that a merge into a deleted account is refused unless it
  loses nothing), and only identities given out are locked or have codes.  `Frame` is the
  lemma all actions share: a step of one request leaves to the others what they rely on.

Only model-checked: all liveness (`PaidIsServed`, `RowSettles`, `QueuesDrain`,
`LapsedRowSettles`, `RequestsEnd` of `economy` and `accounts`, `LimitLifts`,
`PlanComesFree`), since fairness and ENABLED are outside the prover's reach; and the three
violated claims, which are refuted by a behaviour and have nothing to prove.  The proofs
are of the safety part, `Spec`; the runs check the same modules with fairness added.

## 6. What was found

Shown by a run, with the sentence it contradicts in `PROJECT.json`:

1. A panel error after the committed extension makes the retry extend again (worker.go 622, 646, 662).
2. A payment asked about less than five minutes ago is skipped and marked EXPIRED; paid after the answer, with its webhook lost, it is forgotten (worker.go 963, 987).
3. No sweep ever selects a `reverted` row; one failed panel call leaves access on (user_repo.go 457, 804).

Seen while modelling, without a run of its own:

* The once-key is set before the transaction (worker.go 316, 1054): after a failed
  transaction the retry is skipped as a duplicate and the job counts as done; it is
  not dead-lettered either.  `PaymentLedger` therefore promises "at most once".
* A poll sets CONFIRMED before the worker credits LTV; a chargeback handled in between
  subtracts what was never added (worker.go 465, 487).
* A trial beside a paid row: its expiry disables the paying user (service.go 1349,
  worker.go 1180).
* A follow-up push that fails is logged and never repeated (worker.go 419).  A push to the
  dead-letter list that fails is not even logged (257): the job is gone without a trace.
* What a stopping worker has in hand or asleep is lost (206, 272), and a webhook whose
  push failed is taken for a duplicate when it comes again (platega.go 85).
* A chargeback that overtakes the jobs of its payment leaves the time and the reward that
  they grant afterwards (505, 855); a paid expansion that finds no active subscription ends
  without effect (1074).
* "The function never claims success for a partially reverted payment" (worker.go 442-444),
  but an error of `GetRewardByPaymentID` is dropped (515): status, LTV and time are taken
  back and committed, the reward is not, the job counts as done and its key keeps it from
  being handled again (fault `RewardLookup`; `PaymentLedger` allows it with `RewardMissed`).
* A poll or the sweep may write an older answer over a newer status (service.go 673).
* Webhook errors are kept so that a "sweep can retry" (platega.go 161), but nothing reads them.
* `worker.go` 445-447 argues from `WebhookReceivedAt`; the code compares the status only.
* `user_repo.go` 375 wants every money path SERIALIZABLE; promo, shop, reward,
  bonus and administrator's adjustments use READ COMMITTED.  `economy` shows that
  the conditional UPDATEs suffice for balances and codes.
* Stock is not protected: two orders pass the check and the guarded UPDATE's row
  count is ignored (service.go 956, user_repo.go 1577).  `Purse` does not promise it.
* `GetActiveDeviceExpansion` and `GetRewardByPaymentID` use a second connection inside
  a transaction: with as many such transactions as pool connections, all wait for
  each other (`economy` with `PoolSize = 2` violates `RequestsEnd`).
* Slots that ran out but are not swept revive at their old size with the purchase of
  fewer (user_repo.go 1222); a sweep between price and upsert gives the second slot
  at the difference.  `Purse` names both.
* The chargeback of one expansion deletes the whole row of slots (worker.go 493).
* A discount code is used up before the discount is stored (service.go 905), and two
  checkouts may read the same discount before either clears it (service.go 528).
* One discount may lower the price of two plans; `ClearActiveDiscount` (user_repo.go
  1432) removes whatever discount is there by then, one entered meanwhile as well; two
  codes redeemed together overwrite each other; a code of 100 per cent may activate
  twice.  `Till` says so.
* The counter of expansion purchases is incremented and given its hour in two calls
  (service.go 731-733): if the second fails, "wait an hour" (736) is for ever, and the
  administrator's reset (admin.go 365) knows the other key only.
* The block of purchases for money (handlers.go 927, 964) is asked neither by the bot nor
  for expansions.
* A double `/start` may leave an account that nobody is bound to (bot.go 392).  The merge
  commits before the Telegram is bound (bot.go 1464): if that fails, the account that had
  it is gone and neither has it, and an UPDATE of no row is reported as "linked".
* A switch that crosses an unlinking leaves the two-factor check on for an account without
  a Telegram (handlers.go 743).
* A merge deletes the source's rewards, so a later chargeback takes nothing back; it may
  close a circle of referrals; it does not carry over the panel's account, the discount or
  `is_admin`; and it fails for good, the code spent, when both have expansion rows or
  PENDING payments of one plan.
* The first administrator and the limit per device are looked up and then inserted
  (service.go 143-185): two at once both pass.
* A lapsed PENDING row still occupies the unique index of its plan: a new checkout
  opens a transaction at the gateway that no row remembers.
* "A background retry can re-activate" (service.go 1048): only users without an
  account on record are repaired, when they open the connection page.
* `ExtendSubscriptionByDays` and a partial chargeback do not tell the panel.  Calls that
  arrive in the wrong order leave it behind the rows (service.go 1073, admin_extended.go
  467), and a renewal or a lapse between the two statements of the expiry sweep leaves the
  user disabled or enabled against the rows (worker.go 1163): `PanelBacked` says only that
  the panel's date is never ahead.
* Sign-in: the refresh cookie's path is `/api/auth/refresh` (handlers.go 53), so
  `Logout` never gets it and `RevokeRefreshToken` is not reached by a browser: the
  token stays good until it runs out.  Bans do not call it either (redis.go 218).
* A token minted in the second of a password change, or later but before the SET arrives
  whose time was read before (handlers.go 257, 536, bot.go 1597), passes the comparison, and
  a sign-in or refresh whose checks came before the change, or a poll of a challenge from
  before it, mints afterwards: all are named in `OldPasswordIsOut` (`Slipped`, `loose`).
* Two changes of password that overlap may write `pw:ver` in the wrong order; the earlier
  time stands, and tokens between the two are good again (excepted in `EndedStaysEnded`).
* "Immediately invalidate any live JWT" (admin.go 119): the ban key is asked for under `/api`
  (main.go 146), not under `/api/admin` (208-212), which looks at `is_admin` only: a banned
  administrator is served there until the access token runs out (`AdminServed`).
* A refresh during a ban uses its token up before the 403 (handlers.go 250, 278), and a
  token whose registration failed (202) was never on the list: the next refresh is taken for
  a replay and signs the user out everywhere.  So does a retry after a lost answer.
* A token registered between `SMEMBERS` and `DEL` (redis.go 230-239) drops out of the
  family and stays on the list; only `pw:ver` stops it.
* Every poll that finds a challenge approved gets a session of its own for two minutes, and
  none looks for a ban (handlers.go 341): a pair minted during a ban outlives the
  ban's key by as much.  `BannedIsOut` speaks of what was held before.
* Approve and deny pressed together both find `pending` (bot.go 2201); the script
  keeps the user, not the first answer.  A ban and an unban that cross leave row and key
  apart (admin.go 115-120, 135-140).
* `JWT_REFRESH_TTL_DAYS` is read and not used: 30 days stand in jwt.go 37.
* The staleness comment "within 2 minutes" (user_repo.go 1165) stands over a query of 5.

## 7. Plan

1. Theorems about the abstract specifications themselves, which the refinements carry
   over: that the balances of `Purse` add up, that `Till` never has two open offers of a
   plan, that `Entitlement` gives one trial.
2. An abstract session (begun, continued, ended, never again) that `Sessions`
   implements, in place of `EndedStaysEnded`.
3. Merging of accounts together with their subscriptions and payments, under the feet of
   the jobs of section 2.
4. Device limits at the panel, with the expansion row; the limits of registration.

The runs are kept to one per question: what is added joins a run above, and a claim whose
sentence a larger run covers gives up its place.
