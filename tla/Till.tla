-------------------------------- MODULE Till --------------------------------
(***************************************************************************)
(* What the checkout promises a user, with no handler, gateway or limiter  *)
(* in sight: a promo code is redeemed once; there is one open offer per    *)
(* plan, at the full price or at that of a code that was redeemed; only an *)
(* offer that is on record is shown; what a code makes free is granted on  *)
(* record first and announced to the worker once.                          *)
(*                                                                         *)
(* It does not promise that one code serves one offer: two purchases may   *)
(* read the code before either has cleared it.                             *)
(***************************************************************************)
EXTENDS Naturals

CONSTANTS Offers, Plans, Codes, Free, None

VARIABLES
    redeemed,   \* the codes that are used up
    plan, code, \* of each offer: None if there is no such offer, no code
    open,       \* the offers that wait for their payment
    shown,      \* the offers whose address the user was given
    granted,    \* the offers that cost nothing
    announced   \* of these, the ones the worker was told of

vars == <<redeemed, plan, code, open, shown, granted, announced>>

Init ==
    /\ redeemed \in SUBSET Codes
    /\ plan = [o \in Offers |-> None] /\ code = [o \in Offers |-> None]
    /\ open = {} /\ shown = {} /\ granted = {} /\ announced = {}

Redeem(k) ==
    /\ k \notin redeemed
    /\ redeemed' = redeemed \cup {k}
    /\ UNCHANGED <<plan, code, open, shown, granted, announced>>

Records(o, p, k) ==
    /\ plan[o] = None
    /\ plan' = [plan EXCEPT ![o] = p] /\ code' = [code EXCEPT ![o] = k]

Offer(o, p, k) ==
    /\ k \in (redeemed \cup {None}) \ Free
    /\ \A other \in open : plan[other] # p
    /\ Records(o, p, k)
    /\ open' = open \cup {o}
    /\ UNCHANGED <<redeemed, shown, granted, announced>>

Grant(o, p, k) ==
    /\ k \in redeemed \cap Free
    /\ Records(o, p, k)
    /\ granted' = granted \cup {o}
    /\ UNCHANGED <<redeemed, open, shown, announced>>

Show(o) ==
    /\ plan[o] # None
    /\ shown' = shown \cup {o}
    /\ UNCHANGED <<redeemed, plan, code, open, granted, announced>>

Announce(o) ==
    /\ o \in granted \ announced
    /\ announced' = announced \cup {o}
    /\ UNCHANGED <<redeemed, plan, code, open, shown, granted>>

Close ==
    /\ open' \in SUBSET open
    /\ UNCHANGED <<redeemed, plan, code, shown, granted, announced>>

Next ==
    \/ \E k \in Codes : Redeem(k)
    \/ \E o \in Offers :
        \/ Show(o) \/ Announce(o)
        \/ \E p \in Plans, k \in Codes \cup {None} : Offer(o, p, k) \/ Grant(o, p, k)
    \/ Close

Spec == Init /\ [][Next]_vars
=============================================================================
