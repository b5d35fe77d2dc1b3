--------------------------- MODULE PaymentLedger ---------------------------
(***************************************************************************)
(* What the payment pipeline promises, payment by payment, with no queue,  *)
(* key, retry, poll or webhook in sight: money is booked once and only for *)
(* a payment that Platega has confirmed, VPN time follows the booking and  *)
(* is granted a bounded number of times, the referral reward and the bonus *)
(* are paid at most once, and a payment is undone at most once and only    *)
(* after a chargeback.                                                     *)
(*                                                                         *)
(* It deliberately does not promise what the pipeline does not keep: that  *)
(* time is granted exactly once, that anything is done at all, that the    *)
(* undoing comes after the booking, or that nothing is granted or paid     *)
(* after it (see the README).                                              *)
(***************************************************************************)
EXTENDS Naturals

CONSTANTS
    Payments,
    MaxGrants,       \* how often one payment's time may be granted
    RewardMissed     \* a chargeback may miss the reward that was paid

VARIABLES
    kind,            \* what a payment buys: "subscription", "expansion", "free"
    gw,              \* what Platega says of it
    ledger           \* what was done for it, as in PaymentWorker

EmptyRow == [credits |-> 0, debits |-> 0, grants |-> 0, cuts |-> 0,
             bonuses |-> 0, payouts |-> 0, clawbacks |-> 0]

Init ==
    /\ kind \in [Payments -> {"subscription", "expansion", "free"}]
    /\ gw = [p \in Payments |-> "NONE"]
    /\ ledger = [p \in Payments |-> EmptyRow]

\* A free payment is settled by its 100% discount.
Paid(p) == kind[p] = "free" \/ gw[p] \in {"CONFIRMED", "CHARGEBACKED"}

Booked(p) == Paid(p) /\ ledger[p].credits = 1

Settle(p, s) ==
    /\ kind[p] # "free"
    /\ <<gw[p], s>> \in {<<"NONE", "PENDING">>, <<"PENDING", "CONFIRMED">>,
                         <<"PENDING", "CANCELED">>,
                         <<"CONFIRMED", "CHARGEBACKED">>}
    /\ gw' = [gw EXCEPT ![p] = s]
    /\ UNCHANGED <<kind, ledger>>

Enter(p, row) ==
    /\ ledger' = [ledger EXCEPT ![p] = row]
    /\ UNCHANGED <<kind, gw>>

Book(p) ==
    /\ Paid(p)
    /\ ledger[p].credits = 0
    /\ Enter(p, [ledger[p] EXCEPT !.credits = 1])

Grant(p) ==
    /\ Booked(p)
    /\ ledger[p].grants < IF kind[p] = "expansion" THEN 1 ELSE MaxGrants
    /\ Enter(p, [ledger[p] EXCEPT !.grants = @ + 1])

PayBonus(p) ==
    /\ kind[p] # "expansion"
    /\ ledger[p].grants > 0
    /\ ledger[p].bonuses = 0
    /\ Enter(p, [ledger[p] EXCEPT !.bonuses = 1])

PayReward(p) ==
    /\ Booked(p)
    /\ kind[p] # "free"
    /\ ledger[p].payouts = 0
    /\ Enter(p, [ledger[p] EXCEPT !.payouts = 1])

\* A chargeback takes back the reward that was paid by then, which it may miss.
Undo(p) ==
    /\ gw[p] = "CHARGEBACKED"
    /\ ledger[p].debits = 0
    /\ \E cut \in {0, 1}, back \in {0, ledger[p].payouts} :
        /\ ~RewardMissed => back = ledger[p].payouts
        /\ Enter(p, [ledger[p] EXCEPT !.debits = 1, !.cuts = cut,
                                      !.clawbacks = back])

Next ==
    \E p \in Payments :
        \/ \E s \in {"PENDING", "CONFIRMED", "CANCELED", "CHARGEBACKED"} : Settle(p, s)
        \/ Book(p) \/ Grant(p) \/ PayBonus(p) \/ PayReward(p) \/ Undo(p)

Spec == Init /\ [][Next]_<<kind, gw, ledger>>
=============================================================================
