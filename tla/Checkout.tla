------------------------------ MODULE Checkout ------------------------------
(***************************************************************************)
(* How a payment comes to be: one user's purchases of subscriptions and of *)
(* device slots for money, several at once, with the discount that a promo *)
(* code left on the account.  One action per statement, Redis call or call *)
(* of the gateway.  What becomes of a payment that is on record is the     *)
(* subject of PaymentSystem and one action, Settle, here.                  *)
(*                                                                         *)
(* A price is the code it was reduced by.  Refusals that change nothing    *)
(* (an unknown plan, no subscription to expand, purchases blocked by the   *)
(* administrator on the site) are not actions.                             *)
(***************************************************************************)
EXTENDS Naturals

CONSTANTS
    Transactions,   \* identities of payments, of the gateway's or our own
    Plans,          \* what can be bought for money
    Slots,          \* of these, the device expansions
    Codes,          \* promo codes with a discount
    Free,           \* of these, the ones of 100 per cent
    None,           \* no plan, no code, no transaction
    Requests,       \* handlers that may be under way at once
    Limit,          \* purchases in an hour: 5 in the code
    MaxAsked,       \* bound: requests made in all
    Faults          \* calls that may fail, a subset of FaultKinds

FaultKinds == {"Redis", "Expire", "Read", "Gateway", "Insert", "Clear", "Set", "Push", "Crash"}

ASSUME CheckoutAssumption ==
    /\ Slots \subseteq Plans /\ Free \subseteq Codes
    /\ None \notin Transactions \cup Plans \cup Codes
    /\ Limit \in Nat \ {0} /\ MaxAsked \in Nat
    /\ Faults \subseteq FaultKinds

VARIABLES
    payments,   \* the payments table
    discount,   \* users.active_discount_code
    redeemed,   \* promocode_uses of this user
    limiter,    \* rl:payment_init:<user> and rl:initpay:devexp:<user>
    queue,      \* the payments announced in queue:payment:process, history
    shown,      \* history: payments whose redirect URL the user was given
    issued,     \* identities that have been given out
    req,        \* what each request is doing
    asked       \* bound: requests made so far

vars == <<payments, discount, redeemed, limiter, queue, shown, issued, req, asked>>

-----------------------------------------------------------------------------
Kinds  == {"subscription", "slots"}
Status == {"PENDING", "SETTLED"}

\* SETTLED: CONFIRMED, EXPIRED, CANCELED or CHARGEBACKED.  lapsed: expires_at of
\* the PENDING row has passed.
Row    == [status : Status, plan : Plans, code : Codes \cup {None}, lapsed : BOOLEAN]
NoRow  == [status |-> "none", plan |-> None, code |-> None, lapsed |-> FALSE]
Key    == [count : Nat, expires : BOOLEAN]
NoKey  == [count |-> 0, expires |-> FALSE]

Points == {"idle", "count", "expire", "find", "price", "gateway", "insert",
           "winner", "clear", "push", "use", "set"}
Request == [at : Points, plan : Plans \cup {None}, code : Codes \cup {None},
            tx : Transactions \cup {None}]
Idle    == [at |-> "idle", plan |-> None, code |-> None, tx |-> None]

TypeOK ==
    /\ payments \in [Transactions -> Row \cup {NoRow}]
    /\ discount \in Codes \cup {None}
    /\ redeemed \subseteq Codes
    /\ limiter \in [Kinds -> Key]
    /\ queue \subseteq Transactions /\ shown \subseteq Transactions
    /\ issued \subseteq Transactions
    /\ req \in [Requests -> Request]
    /\ asked \in 0..MaxAsked

\* The user may have entered a code before.
Init ==
    /\ payments = [t \in Transactions |-> NoRow]
    /\ discount \in Codes \cup {None}
    /\ redeemed = {discount} \ {None}
    /\ limiter = [k \in Kinds |-> NoKey]
    /\ queue = {} /\ shown = {} /\ issued = {}
    /\ req = [c \in Requests |-> Idle]
    /\ asked = 0

\* uuid.New, here or at the gateway: which one makes no difference.
Fresh == CHOOSE t \in Transactions \ issued : TRUE

At(c, point)   == req[c].at = point
Goes(c, point) == req' = [req EXCEPT ![c].at = point]
Ends(c)        == req' = [req EXCEPT ![c] = Idle]
Arrives(c)     == req[c] = Idle /\ asked < MaxAsked /\ asked' = asked + 1
Stored(t)      == payments[t].status # "none"

\* GetPendingPaymentByPlan.
Pending(p) == {t \in Transactions : payments[t].plan = p /\ payments[t].status = "PENDING"}
Live(p)    == {t \in Pending(p) : ~payments[t].lapsed}

\* The answer names the payment's redirect URL, and the request is over.
Shows(c, t) == shown' = shown \cup {t} /\ Ends(c)

-----------------------------------------------------------------------------
(* The hourly limiters.                                                    *)

\* incrementScript: counted and given its hour in one call, or in two of which
\* the second may fail (TwoCalls).
TwoCalls(k) ==
    \E e \in BOOLEAN :
        limiter' = [limiter EXCEPT ![k].count = @ + 1,
                                   ![k].expires = @ \/ (e /\ limiter[k].count = 0)]
Increment(k) ==
    limiter' = [limiter EXCEPT ![k].count = @ + 1,
                               ![k].expires = @ \/ limiter[k].count = 0]

\* InitiatePayment: the live payment of the plan, or on to the limiter.
InitiatePayment(c, p) ==
    /\ Arrives(c)
    /\ p \notin Slots
    /\ \/ \E t \in Live(p) :
            /\ shown' = shown \cup {t}
            /\ UNCHANGED req
       \/ /\ Live(p) = {} \/ "Read" \in Faults
          /\ req' = [req EXCEPT ![c] = [Idle EXCEPT !.at = "count", !.plan = p]]
          /\ UNCHANGED shown
    /\ UNCHANGED <<payments, discount, redeemed, limiter, queue, issued>>

\* CheckAPIRateLimit: an error of Redis lets the request pass.
CheckAPIRateLimit(c) ==
    /\ At(c, "count") /\ req[c].plan \notin Slots
    /\ \/ /\ Increment("subscription")
          /\ IF limiter["subscription"].count < Limit THEN Goes(c, "price") ELSE Ends(c)
       \/ "Redis" \in Faults /\ Goes(c, "price") /\ UNCHANGED limiter
    /\ UNCHANGED <<payments, discount, redeemed, queue, shown, issued, asked>>

\* InitiateDeviceExpansionPayment counts first and looks for the payment later.
InitiateDeviceExpansionPayment(c, p) ==
    /\ Arrives(c)
    /\ p \in Slots
    /\ req' = [req EXCEPT ![c] = [Idle EXCEPT !.at = "count", !.plan = p]]
    /\ UNCHANGED <<payments, discount, redeemed, limiter, queue, shown, issued>>

\* Its INCR; an error reads as 0.
CountSlots(c) ==
    /\ At(c, "count") /\ req[c].plan \in Slots
    /\ \/ /\ limiter' = [limiter EXCEPT !["slots"].count = @ + 1]
          /\ CASE limiter["slots"].count = 0     -> Goes(c, "expire")
               [] limiter["slots"].count \in 1..(Limit - 1) -> Goes(c, "find")
               [] OTHER                          -> Ends(c)
       \/ "Redis" \in Faults /\ Goes(c, "find") /\ UNCHANGED limiter
    /\ UNCHANGED <<payments, discount, redeemed, queue, shown, issued, asked>>

\* Its EXPIRE, a call of its own whose error nobody sees.
ExpireSlots(c) ==
    /\ At(c, "expire")
    /\ \/ limiter' = [limiter EXCEPT !["slots"].expires = limiter["slots"].count > 0]
       \/ "Expire" \in Faults /\ UNCHANGED limiter
    /\ Goes(c, "find")
    /\ UNCHANGED <<payments, discount, redeemed, queue, shown, issued, asked>>

FindPending(c) ==
    /\ At(c, "find")
    /\ \/ \E t \in Live(req[c].plan) : Shows(c, t)
       \/ /\ Live(req[c].plan) = {} \/ "Read" \in Faults
          /\ Goes(c, "gateway")
          /\ UNCHANGED shown
    /\ UNCHANGED <<payments, discount, redeemed, limiter, queue, issued, asked>>

\* The key's hour is over.
WindowEnds(k) ==
    /\ limiter[k].expires
    /\ limiter' = [limiter EXCEPT ![k] = NoKey]
    /\ UNCHANGED <<payments, discount, redeemed, queue, shown, issued, req, asked>>

\* An administrator's reset knows the first key only.
ResetPaymentLimit ==
    /\ limiter["subscription"] # NoKey
    /\ limiter' = [limiter EXCEPT !["subscription"] = NoKey]
    /\ UNCHANGED <<payments, discount, redeemed, queue, shown, issued, req, asked>>

-----------------------------------------------------------------------------
(* From the price to the answer.                                           *)

\* GetActiveDiscount, whose error reads as no discount; nothing to pay goes
\* past the gateway.
ActiveDiscount(c) ==
    /\ At(c, "price")
    /\ \E k \in {discount} \cup (IF "Read" \in Faults THEN {None} ELSE {}) :
        IF k \in Free
        THEN /\ issued # Transactions
             /\ req' = [req EXCEPT ![c].at = "insert", ![c].code = k, ![c].tx = Fresh]
             /\ issued' = issued \cup {Fresh}
        ELSE /\ req' = [req EXCEPT ![c].at = "gateway", ![c].code = k]
             /\ UNCHANGED issued
    /\ UNCHANGED <<payments, discount, redeemed, limiter, queue, shown, asked>>

\* The gateway's CreatePayment; of an answer that is lost nothing is kept.
CreateAtGateway(c) ==
    /\ At(c, "gateway")
    /\ \/ /\ issued # Transactions
          /\ req' = [req EXCEPT ![c].at = "insert", ![c].tx = Fresh]
          /\ issued' = issued \cup {Fresh}
       \/ "Gateway" \in Faults /\ Ends(c) /\ UNCHANGED issued
    /\ UNCHANGED <<payments, discount, redeemed, limiter, queue, shown, asked>>

NewRow(r) ==
    [status |-> IF r.code \in Free THEN "SETTLED" ELSE "PENDING",
     plan |-> r.plan, code |-> r.code, lapsed |-> FALSE]

\* UserRepo.CreatePayment, under the unique index on (user, plan) of PENDING
\* rows, lapsed or not.
CreatePayment(c) ==
    LET r == req[c]
        taken == NewRow(r).status = "PENDING" /\ Pending(r.plan) # {}
    IN  /\ At(c, "insert")
        /\ \/ /\ ~taken
              /\ payments' = [payments EXCEPT ![r.tx] = NewRow(r)]
              /\ Goes(c, "clear")
           \/ taken /\ Goes(c, "winner") /\ UNCHANGED payments
           \/ "Insert" \in Faults /\ Ends(c) /\ UNCHANGED payments
        /\ UNCHANGED <<discount, redeemed, limiter, queue, shown, issued, asked>>

\* The payment that was first is shown, unless it has lapsed or is settled.
\* ShowOwn shows the one that was not stored, ShowAny forgets to ask whether
\* there is one.
ShowOwn(c) ==
    /\ At(c, "winner")
    /\ Shows(c, req[c].tx)
    /\ UNCHANGED <<payments, discount, redeemed, limiter, queue, issued, asked>>
ShowAny(c) ==
    /\ At(c, "winner")
    /\ \E t \in IF Live(req[c].plan) = {} THEN {None} ELSE Live(req[c].plan) : Shows(c, t)
    /\ UNCHANGED <<payments, discount, redeemed, limiter, queue, issued, asked>>
ShowWinner(c) ==
    /\ At(c, "winner")
    /\ \/ \E t \in Live(req[c].plan) : Shows(c, t)
       \/ /\ Live(req[c].plan) = {} \/ "Read" \in Faults
          /\ Ends(c)
          /\ UNCHANGED shown
    /\ UNCHANGED <<payments, discount, redeemed, limiter, queue, issued, asked>>

\* ClearActiveDiscount if the price was reduced, whatever the discount is by
\* now, its error ignored; then the answer, unless a free payment goes on.
ClearActiveDiscount(c) ==
    LET r == req[c] IN
    /\ At(c, "clear")
    /\ discount' \in IF r.code = None THEN {discount}
                     ELSE {None} \cup (IF "Clear" \in Faults THEN {discount} ELSE {})
    /\ IF r.code \in Free THEN Goes(c, "push") /\ UNCHANGED shown ELSE Shows(c, r.tx)
    /\ UNCHANGED <<payments, redeemed, limiter, queue, issued, asked>>

\* Enqueue of the free payment; its error is only logged.
PushFree(c) ==
    /\ At(c, "push")
    /\ queue' \in {queue \cup {req[c].tx}} \cup (IF "Push" \in Faults THEN {queue} ELSE {})
    /\ Ends(c)
    /\ UNCHANGED <<payments, discount, redeemed, limiter, shown, issued, asked>>

-----------------------------------------------------------------------------
(* The discount of a promo code.                                           *)

\* The checks of UsePromoCode: not used by this user, no discount waiting.
RedeemCode(c, k) ==
    /\ Arrives(c)
    /\ k \notin redeemed /\ discount = None
    /\ req' = [req EXCEPT ![c] = [Idle EXCEPT !.at = "use", !.code = k]]
    /\ UNCHANGED <<payments, discount, redeemed, limiter, queue, shown, issued>>

\* Its transaction; the unique index on (code, user) has the last word.
UsePromoCode(c) ==
    LET k == req[c].code IN
    /\ At(c, "use")
    /\ \/ /\ k \notin redeemed
          /\ redeemed' = redeemed \cup {k}
          /\ Goes(c, "set")
       \/ /\ k \in redeemed \/ "Insert" \in Faults
          /\ Ends(c)
          /\ UNCHANGED redeemed
    /\ UNCHANGED <<payments, discount, limiter, queue, shown, issued, asked>>

\* SetActiveDiscount after its commit, over whatever is there by now.
SetActiveDiscount(c) ==
    /\ At(c, "set")
    /\ discount' \in {req[c].code} \cup (IF "Set" \in Faults THEN {discount} ELSE {})
    /\ Ends(c)
    /\ UNCHANGED <<payments, redeemed, limiter, queue, shown, issued, asked>>

-----------------------------------------------------------------------------
(* What happens to a payment meanwhile.                                    *)

Sets(t, row) ==
    /\ payments' = [payments EXCEPT ![t] = row]
    /\ UNCHANGED <<discount, redeemed, limiter, queue, shown, issued, req, asked>>

Settled(row) == [row EXCEPT !.status = "SETTLED", !.lapsed = FALSE]

\* Half an hour has passed.
Lapse(t) ==
    /\ payments[t].status = "PENDING" /\ ~payments[t].lapsed
    /\ Sets(t, [payments[t] EXCEPT !.lapsed = TRUE])

\* TouchPayment: the user is back from the payment page.
TouchPayment(t) ==
    /\ payments[t].status = "PENDING" /\ t \in shown /\ asked < MaxAsked
    /\ asked' = asked + 1
    /\ payments' = [payments EXCEPT ![t].lapsed = FALSE]
    /\ UNCHANGED <<discount, redeemed, limiter, queue, shown, issued, req>>

\* The webhook, a poll or the worker settles the payment.
Settle(t) ==
    /\ payments[t].status = "PENDING" /\ t \in shown
    /\ Sets(t, Settled(payments[t]))

\* The minute sweep: every PENDING row past its time, in one statement, be its
\* URL known to the user or not (MarkShown).
MarkShown ==
    /\ \E t \in shown : payments[t].lapsed
    /\ payments' = [t \in Transactions |->
            IF payments[t].lapsed /\ t \in shown THEN Settled(payments[t]) ELSE payments[t]]
    /\ UNCHANGED <<discount, redeemed, limiter, queue, shown, issued, req, asked>>
MarkExpiredPayments ==
    /\ \E t \in Transactions : payments[t].lapsed
    /\ payments' = [t \in Transactions |->
            IF payments[t].lapsed THEN Settled(payments[t]) ELSE payments[t]]
    /\ UNCHANGED <<discount, redeemed, limiter, queue, shown, issued, req, asked>>

\* The API is restarted.
Crash(c) ==
    /\ "Crash" \in Faults
    /\ req[c] # Idle
    /\ Ends(c)
    /\ UNCHANGED <<payments, discount, redeemed, limiter, queue, shown, issued, asked>>

-----------------------------------------------------------------------------
Serve(c) ==
    \/ CheckAPIRateLimit(c) \/ CountSlots(c) \/ ExpireSlots(c) \/ FindPending(c)
    \/ ActiveDiscount(c) \/ CreateAtGateway(c) \/ CreatePayment(c) \/ ShowWinner(c)
    \/ ClearActiveDiscount(c) \/ PushFree(c)
    \/ UsePromoCode(c) \/ SetActiveDiscount(c)

Next ==
    \/ \E c \in Requests :
        \/ \E p \in Plans : InitiatePayment(c, p) \/ InitiateDeviceExpansionPayment(c, p)
        \/ \E k \in Codes : RedeemCode(c, k)
        \/ Serve(c) \/ Crash(c)
    \/ \E k \in Kinds : WindowEnds(k)
    \/ ResetPaymentLimit
    \/ \E t \in Transactions : Lapse(t) \/ TouchPayment(t) \/ Settle(t)
    \/ MarkExpiredPayments

Spec == Init /\ [][Next]_vars

\* Hours go by, and the sweep runs every minute.
FairSpec ==
    /\ Spec
    /\ \A k \in Kinds : WF_vars(WindowEnds(k))
    /\ WF_vars(MarkExpiredPayments)
=============================================================================
