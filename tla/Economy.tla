------------------------------ MODULE Economy ------------------------------
(***************************************************************************)
(* The YAD economy, statement by statement: promo codes, the shop, plans   *)
(* and device slots paid in YAD, the administrator's adjustments, and the  *)
(* worker's jobs that touch a balance or a slot (a paid expansion, the     *)
(* referral reward, the chargeback).  One user's payment, of an expansion  *)
(* and with a referrer, stands for all.                                    *)
(*                                                                         *)
(* PostgreSQL is modelled as far as the code relies on it: a statement     *)
(* that writes a row waits for the row's lock and holds it to the end of   *)
(* its transaction, others read the last committed version meanwhile, and  *)
(* a SERIALIZABLE transaction that meets a row changed since its snapshot  *)
(* fails with 40001.  The checks before a transaction only refuse, and are *)
(* one step with the request's arrival.                                    *)
(***************************************************************************)
EXTENDS Integers, Sequences, FiniteSets

CONSTANTS
    Users,          \* accounts
    Payer,          \* the user whose payment is confirmed or charged back
    Referrer,       \* who is rewarded for it
    Clients,        \* requests and jobs that may be under way at once
    NoOne,          \* the holder of a row nobody has locked
    Deals,          \* the kinds of requests that are made
    Opening,        \* the balances users may start with
    Shelf,          \* the stock the shop starts with
    PromoYAD, MaxUses,                      \* the promo code
    ItemPrice, PlanPrice, SlotPrice,        \* SlotPrice[q]: of q extra devices
    RewardYAD, AdminYAD,
    PoolSize,       \* MaxOpenConns
    MaxAttempts,    \* attempts at a transaction that fails with 40001, 3
    MaxRequests,    \* bound: how many requests are made in all
    Faults          \* what may fail, a subset of FaultKinds

FaultKinds == {"Statement",         \* a statement or a commit, other than by 40001
               "Serialization",     \* 40001 found at commit
               "Lookup"}            \* GetRewardByPaymentID, error swallowed

\* The statements of each transaction, in order; a commit follows.
Program ==
    [none   |-> <<>>,
     promo  |-> <<"claim", "credit">>,
     shop   |-> <<"stock", "debit">>,
     plan   |-> <<"lock", "debit">>,
     slots  |-> <<"lock", "quote", "debit", "upsert">>,
     paid   |-> <<"lock", "upsert">>,
     reward |-> <<"note", "credit">>,
     revert |-> <<"lock", "delete", "reclaim", "clawback">>,
     gift   |-> <<"credit">>,
     fine   |-> <<"debit">>]

Ops  == DOMAIN Program \ {"none"}
Jobs == {"paid", "reward", "revert"}

ASSUME EconomyAssumption ==
    /\ {Payer, Referrer} \subseteq Users
    /\ NoOne \notin Clients
    /\ Deals \subseteq Ops
    /\ Opening \subseteq Nat
    /\ {Shelf, PromoYAD, MaxUses, ItemPrice, PlanPrice, RewardYAD, AdminYAD,
        PoolSize, MaxAttempts, MaxRequests} \subseteq Nat
    /\ SlotPrice \in [1..2 -> Nat]
    /\ SlotPrice[1] <= SlotPrice[2]
    /\ Faults \subseteq FaultKinds

VARIABLES
    db,         \* the committed version of every row
    newest,     \* its newest version, committed or not
    holder,     \* the client whose transaction has the row locked
    stale,      \* the rows committed since the client's transaction began
    req,        \* what each client is doing
    redeemed,   \* promocode_uses: the users who have used the code
    bought,     \* shop_orders and subscriptions bought, by user
    lapsed,     \* device_expansions rows whose expires_at has passed
    begun,      \* the jobs that have been started; each runs once
    asked       \* bound: requests made so far

rowVars   == <<db, newest, holder, stale>>
tableVars == <<redeemed, bought, lapsed>>
vars      == <<rowVars, req, tableVars, begun, asked>>

-----------------------------------------------------------------------------
Balance(u) == <<"balance", u>>
Slots(u)   == <<"slots", u>>
Uses       == <<"uses", Payer>>         \* promocodes.used_count
Stock      == <<"stock", Payer>>        \* shop_items.stock
Reward     == <<"reward", Payer>>       \* referral_rewards.status
Rows       == ({"balance", "slots"} \X Users) \cup {Uses, Stock, Reward}

NoReward  == 0
Immediate == 1
Reverted  == 2

\* at: 0 before the transaction, then the index of the next statement.
Request == [op : DOMAIN Program, user : Users, qty : 1..2, at : 0..5,
            yad : Nat, tries : 0..MaxAttempts]
Idle == [op |-> "none", user |-> Payer, qty |-> 1, at |-> 0, yad |-> 0, tries |-> 0]

TypeOK ==
    /\ db \in [Rows -> Nat]
    /\ newest \in [Rows -> Nat]
    /\ holder \in [Rows -> Clients \cup {NoOne}]
    /\ stale \in [Clients -> SUBSET Rows]
    /\ req \in [Clients -> Request]
    /\ redeemed \in SUBSET Users
    /\ bought \in [Users -> [items : Nat, plans : Nat]]
    /\ lapsed \in SUBSET Users
    /\ begun \in SUBSET Jobs
    /\ asked \in 0..MaxRequests

Init ==
    /\ \E purse \in [Users -> Opening] :
        db = [r \in Rows |-> IF r[1] = "balance" THEN purse[r[2]]
                             ELSE IF r = Stock THEN Shelf ELSE 0]
    /\ newest = db
    /\ holder = [r \in Rows |-> NoOne]
    /\ stale = [c \in Clients |-> {}]
    /\ req = [c \in Clients |-> Idle]
    /\ redeemed = {}
    /\ bought = [u \in Users |-> [items |-> 0, plans |-> 0]]
    /\ lapsed = {}
    /\ begun = {}
    /\ asked = 0

-----------------------------------------------------------------------------
(* Transactions.                                                           *)

Serializable(op) == op \in {"plan", "slots", "paid", "revert"}
Retried(op)      == op \in {"plan", "slots", "paid"}

InTx == {c \in Clients : req[c].at > 0}
FreeConnection == Cardinality(InTx) < PoolSize

\* The client is about to run this statement.
At(c, s) ==
    LET p == Program[req[c].op]
    IN  /\ req[c].at \in DOMAIN p
        /\ p[req[c].at] = s

AtCommit(c) == req[c].at > 0 /\ req[c].at = Len(Program[req[c].op]) + 1

\* The version of a row that the client's statement sees.
Seen(c, r) == IF holder[r] = c THEN newest[r] ELSE db[r]

Outdated(c, r) == Serializable(req[c].op) /\ r \in stale[c]

Next1(c) == [req[c] EXCEPT !.at = @ + 1]
GoOn(c, next) == req' = [req EXCEPT ![c] = next]

\* An UPDATE, an INSERT or a SELECT FOR UPDATE that gets its row.
Write(c, r, v) ==
    /\ holder[r] \in {NoOne, c}
    /\ ~Outdated(c, r)
    /\ holder' = [holder EXCEPT ![r] = c]
    /\ newest' = [newest EXCEPT ![r] = v]
    /\ UNCHANGED <<db, stale, tableVars, begun, asked>>

\* A statement that writes nothing.
Pass(c, next) == GoOn(c, next) /\ UNCHANGED <<rowVars, tableVars, begun, asked>>

Held(c) == {r \in Rows : holder[r] = c}

\* KeepLocks forgets the deferred Rollback on an error path.
KeepLocks(c) == UNCHANGED <<newest, holder>>
Undo(c) ==
    /\ newest' = [r \in Rows |-> IF holder[r] = c THEN db[r] ELSE newest[r]]
    /\ holder' = [r \in Rows |-> IF holder[r] = c THEN NoOne ELSE holder[r]]

Rollback(c, next) ==
    /\ Undo(c)
    /\ stale' = [stale EXCEPT ![c] = {}]
    /\ GoOn(c, next)
    /\ UNCHANGED <<db, tableVars, begun, asked>>

Refuse(c) == Rollback(c, Idle)

\* 40001: up to MaxAttempts attempts, each in a transaction of its own.
SerializationFailure(c) ==
    Rollback(c, IF Retried(req[c].op) /\ req[c].tries < MaxAttempts - 1
                THEN [req[c] EXCEPT !.at = 0, !.tries = @ + 1]
                ELSE Idle)

\* BEGIN takes a connection, the first statement the snapshot.
BeginTx(c) ==
    /\ req[c].op # "none"
    /\ req[c].at = 0
    /\ FreeConnection
    /\ GoOn(c, Next1(c))
    /\ UNCHANGED <<rowVars, tableVars, begun, asked>>

-----------------------------------------------------------------------------
(* Requests arrive.  What each looks at before it opens a transaction may  *)
(* be outdated when that runs.                                             *)

Asks(c, op, u, q, yad) ==
    /\ req[c] = Idle
    /\ op \in Deals
    /\ asked < MaxRequests
    /\ asked' = asked + 1
    /\ GoOn(c, [op |-> op, user |-> u, qty |-> q, at |-> 0, yad |-> yad, tries |-> 0])
    /\ UNCHANGED <<rowVars, tableVars>>

Requested(c, op, u, q, yad) == Asks(c, op, u, q, yad) /\ UNCHANGED begun

\* UsePromoCode of the service: not used up, and not used by the user.
EnterPromo(c, u) ==
    /\ db[Uses] < MaxUses
    /\ u \notin redeemed
    /\ Requested(c, "promo", u, 1, PromoYAD)

\* BuyShopItem of the service: on the shelf, and the user can pay for it.
OrderItem(c, u) ==
    /\ db[Stock] >= 1
    /\ db[Balance(u)] >= ItemPrice
    /\ Requested(c, "shop", u, 1, ItemPrice)

BuySubscriptionWithYAD(c, u) ==
    /\ db[Balance(u)] >= PlanPrice
    /\ Requested(c, "plan", u, 1, PlanPrice)

\* The price is found under the lock, and so is what the user has to pay it.
BuyDeviceExpansion(c, u, q) == Requested(c, "slots", u, q, 0)

\* The administrator's delta, of either sign, by two routes.
AdjustYAD(c, u) ==
    \E op \in {"gift", "fine"} : Requested(c, op, u, 1, AdminYAD)
AdjustUserYAD(c, u) == AdjustYAD(c, u)

\* The jobs that a payment brings, each begun once.
Job(c, op, q, yad) ==
    /\ op \notin begun
    /\ begun' = begun \cup {op}
    /\ Asks(c, op, Payer, q, yad)

HandleDeviceExpansionActivate(c, q) == Job(c, "paid", q, 0)
HandleReferralReward(c)             == Job(c, "reward", 1, RewardYAD)
ProcessRevertedPayment(c)           == Job(c, "revert", 1, 0)

-----------------------------------------------------------------------------
(* Statements.                                                             *)

LockUserForUpdate(c) ==
    LET r == Balance(req[c].user)
    IN  /\ At(c, "lock")
        /\ \/ Write(c, r, Seen(c, r)) /\ GoOn(c, Next1(c))
           \/ Outdated(c, r) /\ SerializationFailure(c)

\* AdjustYADBalance with a positive amount.
Account(c) == IF req[c].op = "reward" THEN Referrer ELSE req[c].user

Credit(c) ==
    LET r == Balance(Account(c))
    IN  /\ At(c, "credit")
        /\ Write(c, r, Seen(c, r) + req[c].yad)
        /\ GoOn(c, Next1(c))

\* AdjustYADBalance with a negative one: WHERE yad_balance + delta >= 0.
\* Overdrawn drops the condition.
Overdrawn(c, r) == TRUE
Covers(c, r) == Seen(c, r) >= req[c].yad

Debit(c) ==
    LET r == Balance(req[c].user)
    IN  /\ At(c, "debit")
        /\ \/ /\ Covers(c, r)
              /\ Write(c, r, Seen(c, r) - req[c].yad)
              /\ GoOn(c, Next1(c))
           \/ ~Covers(c, r) /\ Refuse(c)

\* UsePromoCode of the repository: count under the cap, then insert the use,
\* which is unique.
UsePromoCode(c) ==
    /\ At(c, "claim")
    /\ \/ /\ Seen(c, Uses) < MaxUses
          /\ req[c].user \notin redeemed
          /\ Write(c, Uses, Seen(c, Uses) + 1)
          /\ GoOn(c, Next1(c))
       \/ /\ \/ Seen(c, Uses) >= MaxUses
             \/ holder[Uses] = NoOne /\ req[c].user \in redeemed
          /\ Refuse(c)

\* BuyShopItem of the repository: an item that is sold out meanwhile matches
\* no row, and the order is inserted all the same.
BuyShopItem(c) ==
    /\ At(c, "stock")
    /\ \/ /\ Seen(c, Stock) >= 1
          /\ Write(c, Stock, Seen(c, Stock) - 1)
          /\ GoOn(c, Next1(c))
       \/ Seen(c, Stock) = 0 /\ Pass(c, Next1(c))

\* GetActiveDeviceExpansion goes through the pool, not through the
\* transaction that holds the lock: it needs a second connection and sees what
\* is committed.
Active(u) == IF u \in lapsed THEN 0 ELSE db[Slots(u)]
Price(q)  == IF q = 0 THEN 0 ELSE SlotPrice[q]

\* FullPrice forgets what the user already has.
FullPrice(u, q) == Price(q)
Difference(u, q) == Price(q) - Price(Active(u))

Quote(c) ==
    LET u == req[c].user
        q == req[c].qty
    IN  /\ At(c, "quote")
        /\ FreeConnection
        /\ \/ Active(u) < q /\ Pass(c, [Next1(c) EXCEPT !.yad = Difference(u, q)])
           \/ Active(u) >= q /\ Refuse(c)

\* CreateDeviceExpansion: GREATEST of the row's size, run out or not.
Upsert(c) ==
    LET r == Slots(req[c].user)
        q == req[c].qty
    IN  /\ At(c, "upsert")
        /\ holder[r] \in {NoOne, c}
        /\ holder' = [holder EXCEPT ![r] = c]
        /\ newest' = [newest EXCEPT ![r] = IF Seen(c, r) >= q THEN Seen(c, r) ELSE q]
        /\ GoOn(c, Next1(c))
        /\ UNCHANGED <<db, stale, tableVars, begun, asked>>

\* CreateReferralReward, in the state its transaction leaves it.
CreateReferralReward(c) ==
    /\ At(c, "note")
    /\ Write(c, Reward, Immediate)
    /\ GoOn(c, Next1(c))

\* DeleteDeviceExpansionForUser.
DeleteDeviceExpansion(c) ==
    LET r == Slots(req[c].user)
    IN  /\ At(c, "delete")
        /\ \/ Write(c, r, 0) /\ GoOn(c, Next1(c))
           \/ Outdated(c, r) /\ SerializationFailure(c)

\* GetRewardByPaymentID goes through the pool; RevertReferralReward then finds
\* the reward only if it was there when the transaction began.  A failed
\* lookup is taken for "no reward".
Reclaim(c) ==
    /\ At(c, "reclaim")
    /\ FreeConnection
    /\ \/ /\ Seen(c, Reward) = Immediate
          /\ Write(c, Reward, Reverted)
          /\ GoOn(c, Next1(c))
       \/ /\ \/ Seen(c, Reward) # Immediate
             \/ Outdated(c, Reward)
             \/ "Lookup" \in Faults
          /\ Pass(c, [req[c] EXCEPT !.at = @ + 2])

\* ClawbackYAD: LEAST(yad_balance, amount).
Clamped(yad) == IF yad >= RewardYAD THEN yad - RewardYAD ELSE 0
Clawback(c) ==
    LET r == Balance(Referrer)
    IN  /\ At(c, "clawback")
        /\ \/ Write(c, r, Clamped(Seen(c, r))) /\ GoOn(c, Next1(c))
           \/ Outdated(c, r) /\ SerializationFailure(c)

\* The rows become visible, what was inserted with them too.
Commit(c) ==
    LET u  == req[c].user
        op == req[c].op
    IN  /\ AtCommit(c)
        /\ db' = [r \in Rows |-> IF holder[r] = c THEN newest[r] ELSE db[r]]
        /\ holder' = [r \in Rows |-> IF holder[r] = c THEN NoOne ELSE holder[r]]
        /\ stale' = [d \in Clients |->
                        IF d = c \/ req[d].at = 0 THEN {} ELSE stale[d] \cup Held(c)]
        /\ GoOn(c, Idle)
        /\ redeemed' = IF op = "promo" THEN redeemed \cup {u} ELSE redeemed
        /\ bought' = [bought EXCEPT
                        ![u].items = @ + (IF op = "shop" THEN 1 ELSE 0),
                        ![u].plans = @ + (IF op = "plan" THEN 1 ELSE 0)]
        /\ lapsed' = IF Slots(u) \in Held(c) THEN lapsed \ {u} ELSE lapsed
        /\ UNCHANGED <<newest, begun, asked>>

\* A statement or the commit fails.  Until then the transaction has only made
\* others wait, so one that fails early is taken to fail here.
TransactionFails(c) ==
    /\ AtCommit(c)
    /\ \/ "Statement" \in Faults /\ Refuse(c)
       \/ /\ "Serialization" \in Faults
          /\ Serializable(req[c].op)
          /\ SerializationFailure(c)

-----------------------------------------------------------------------------
(* Slots run out with their subscription; the sweep deletes the row.        *)

RunOut(u) ==
    /\ db[Slots(u)] > 0
    /\ u \notin lapsed
    /\ lapsed' = lapsed \cup {u}
    /\ UNCHANGED <<rowVars, req, redeemed, bought, begun, asked>>

DeleteExpiredDeviceExpansions(u) ==
    /\ u \in lapsed
    /\ holder[Slots(u)] = NoOne
    /\ db' = [db EXCEPT ![Slots(u)] = 0]
    /\ newest' = [newest EXCEPT ![Slots(u)] = 0]
    /\ stale' = [c \in Clients |->
                    IF req[c].at = 0 THEN {} ELSE stale[c] \cup {Slots(u)}]
    /\ lapsed' = lapsed \ {u}
    /\ UNCHANGED <<holder, req, redeemed, bought, begun, asked>>

-----------------------------------------------------------------------------
Statement(c) ==
    \/ LockUserForUpdate(c) \/ Credit(c) \/ Debit(c)
    \/ UsePromoCode(c) \/ BuyShopItem(c)
    \/ Quote(c) \/ Upsert(c)
    \/ CreateReferralReward(c)
    \/ DeleteDeviceExpansion(c) \/ Reclaim(c) \/ Clawback(c)

Serve(c) == BeginTx(c) \/ Statement(c) \/ Commit(c)

Arrive(c) ==
    \/ \E u \in Users :
        \/ EnterPromo(c, u) \/ OrderItem(c, u)
        \/ BuySubscriptionWithYAD(c, u)
        \/ \E q \in 1..2 : BuyDeviceExpansion(c, u, q)
        \/ AdjustYAD(c, u) \/ AdjustUserYAD(c, u)
    \/ \E q \in 1..2 : HandleDeviceExpansionActivate(c, q)
    \/ HandleReferralReward(c)
    \/ ProcessRevertedPayment(c)

Next ==
    \/ \E c \in Clients :
        \/ Arrive(c)
        \/ Serve(c)
        \/ TransactionFails(c)
    \/ \E u \in Users : RunOut(u) \/ DeleteExpiredDeviceExpansions(u)

Spec == Init /\ [][Next]_vars

\* A handler goes on until it is answered; PostgreSQL grants a row lock to
\* whoever waits for it.
FairSpec == Spec /\ \A c \in Clients : WF_vars(Serve(c))
=============================================================================
