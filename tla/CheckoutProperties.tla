------------------------ MODULE CheckoutProperties -------------------------
(***************************************************************************)
(* What the checkout must satisfy.                                         *)
(***************************************************************************)
EXTENDS Checkout

T == INSTANCE Till WITH
    Offers    <- Transactions,
    plan      <- [t \in Transactions |-> payments[t].plan],
    code      <- [t \in Transactions |-> payments[t].code],
    open      <- {t \in Transactions : payments[t].status = "PENDING"},
    granted   <- {t \in Transactions : payments[t].code \in Free},
    announced <- queue

\* However purchases of one plan race each other, lapse and fail: one open
\* offer per plan, none shown that is not on record, no discount without a
\* code that is used up, and what is free is on record before the worker hears
\* of it, once (InitiatePayment, InitiateDeviceExpansionPayment and
\* UsePromoCode in service.go; the comment at 509).
ImplementsTill == T!Spec

\* Whoever is refused for too many attempts may try again some day, with no
\* administrator's help: a counter of InitiatePayment never outlives its hour
\* (incrementScript in redis.go).
LimitLifts ==
    limiter["subscription"].count > Limit ~> limiter["subscription"] = NoKey

\* A payment that has lapsed makes every further purchase of its plan fail at
\* the unique index; it does so for a while only (ShowWinner; the minute sweep).
PlanComesFree ==
    \A t \in Transactions :
        payments[t].lapsed ~> ~payments[t].lapsed
=============================================================================
