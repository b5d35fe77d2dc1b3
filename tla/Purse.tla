------------------------------- MODULE Purse -------------------------------
(***************************************************************************)
(* What the YAD economy promises, deal by deal, with no transaction, lock  *)
(* or retry in sight: nothing is bought that is not paid for in the same   *)
(* instant, nobody owes YAD, a promo code pays each user once and no more  *)
(* users than it may, an upgrade costs the difference, and a returned      *)
(* payment takes back no more than the reward it paid.                     *)
(*                                                                         *)
(* It does not promise that the shop sells no more than its stock, that a  *)
(* chargeback spares slots bought otherwise, or that a row of slots that   *)
(* has run out is worth nothing: the code keeps none of these.             *)
(***************************************************************************)
EXTENDS Integers, FiniteSets

CONSTANTS
    Users, Payer, Referrer,
    Opening, PromoYAD, MaxUses, ItemPrice, PlanPrice, SlotPrice, RewardYAD, AdminYAD

VARIABLES
    balance,    \* YAD of each user
    redeemed,   \* the users who have used the promo code
    uses,       \* how often it says it was used
    bought,     \* items and plans each user has bought
    slots,      \* extra devices of each user
    lapsed,     \* the users whose slots have run out
    reward,     \* the referral reward of the payer's one payment
    swept       \* users whose slots were removed in the middle of an upgrade

vars == <<balance, redeemed, uses, bought, slots, lapsed, reward, swept>>

NoReward  == 0
Immediate == 1
Reverted  == 2

Init ==
    /\ balance \in [Users -> Opening]
    /\ redeemed = {}
    /\ uses = 0
    /\ bought = [u \in Users |-> [items |-> 0, plans |-> 0]]
    /\ slots = [u \in Users |-> 0]
    /\ lapsed = {}
    /\ reward = NoReward
    /\ swept = {}

Earn(u, yad) == balance' = [balance EXCEPT ![u] = @ + yad]
Pay(u, yad)  == balance[u] >= yad /\ balance' = [balance EXCEPT ![u] = @ - yad]

Redeem(u) ==
    /\ u \notin redeemed
    /\ Cardinality(redeemed) < MaxUses
    /\ redeemed' = redeemed \cup {u}
    /\ uses' = uses + 1
    /\ Earn(u, PromoYAD)
    /\ UNCHANGED <<bought, slots, lapsed, reward>>

Order(u) ==
    /\ Pay(u, ItemPrice)
    /\ bought' = [bought EXCEPT ![u].items = @ + 1]
    /\ UNCHANGED <<redeemed, uses, slots, lapsed, reward>>

Subscribe(u) ==
    /\ Pay(u, PlanPrice)
    /\ bought' = [bought EXCEPT ![u].plans = @ + 1]
    /\ UNCHANGED <<redeemed, uses, slots, lapsed, reward>>

\* The row grows to q; slots that have run out are not discounted, but those
\* that run out or are removed once the upgrade has its price still are.
Grow(u, q) ==
    /\ slots' = [slots EXCEPT ![u] = IF @ >= q THEN @ ELSE q]
    /\ lapsed' = lapsed \ {u}
    /\ UNCHANGED <<redeemed, uses, bought, reward>>

Discounts(u) ==
    {slots[u]} \cup (IF u \in lapsed THEN {0} ELSE {})
               \cup (IF u \in swept THEN DOMAIN SlotPrice ELSE {})

Upgrade(u, q) ==
    \E e \in Discounts(u) :
        /\ e < q
        /\ Pay(u, SlotPrice[q] - IF e = 0 THEN 0 ELSE SlotPrice[e])
        /\ Grow(u, q)

PaidUpgrade(u, q) == Grow(u, q) /\ UNCHANGED balance

PayReward ==
    /\ reward = NoReward
    /\ reward' = Immediate
    /\ Earn(Referrer, RewardYAD)
    /\ UNCHANGED <<redeemed, uses, bought, slots, lapsed>>

\* The payment is returned: its slots go, and as much of its reward, if it
\* has paid one, as the referrer still has.
Return ==
    /\ slots' = [slots EXCEPT ![Payer] = 0]
    /\ lapsed' = lapsed \ {Payer}
    /\ \/ /\ reward = Immediate
          /\ reward' = Reverted
          /\ balance' = [balance EXCEPT ![Referrer] =
                            IF @ >= RewardYAD THEN @ - RewardYAD ELSE 0]
       \/ UNCHANGED <<reward, balance>>
    /\ UNCHANGED <<redeemed, uses, bought>>

Adjust(u) ==
    /\ Earn(u, AdminYAD) \/ Pay(u, AdminYAD)
    /\ UNCHANGED <<redeemed, uses, bought, slots, lapsed, reward>>

RunOut(u) ==
    /\ lapsed' = lapsed \cup {u}
    /\ UNCHANGED <<balance, redeemed, uses, bought, slots, reward>>

Remove(u) ==
    /\ u \in lapsed
    /\ lapsed' = lapsed \ {u}
    /\ slots' = [slots EXCEPT ![u] = 0]
    /\ UNCHANGED <<balance, redeemed, uses, bought, reward>>

Forget(u) ==
    /\ u \in swept
    /\ UNCHANGED <<balance, redeemed, uses, bought, slots, lapsed, reward>>

Deal ==
    \/ \E u \in Users :
        \/ Redeem(u) \/ Order(u) \/ Subscribe(u) \/ Adjust(u)
        \/ \E q \in DOMAIN SlotPrice : Upgrade(u, q) \/ PaidUpgrade(u, q)
        \/ RunOut(u) \/ Forget(u)
    \/ PayReward
    \/ Return

Next ==
    \/ Deal /\ swept' \subseteq swept
    \/ \E u \in Users : Remove(u) /\ swept' \subseteq swept \cup {u}

Spec == Init /\ [][Next]_vars
=============================================================================
