---------------------------- MODULE Economy_proofs ----------------------------
(***************************************************************************)
(* The YAD economy, for any users, prices, stock, pool and faults: every   *)
(* state is well typed, and what the transactions commit is a sequence of  *)
(* whole deals of Purse.                                                   *)
(*                                                                         *)
(* A deal is done at COMMIT, of what was read and written by several       *)
(* statements before.  EconomyInv says, statement by statement, which rows *)
(* a transaction has locked by then, what it has written to each, and why  *)
(* no other step can have changed what it read.                            *)
(***************************************************************************)
EXTENDS EconomyProperties, FiniteSetTheorems, TLAPS

LEMMA ConstantTypes ==
    /\ Payer \in Users /\ Referrer \in Users
    /\ NoOne \notin Clients
    /\ Deals \subseteq Ops
    /\ Opening \subseteq Nat
    /\ Shelf \in Nat /\ PromoYAD \in Nat /\ MaxUses \in Nat /\ ItemPrice \in Nat
    /\ PlanPrice \in Nat /\ RewardYAD \in Nat /\ AdminYAD \in Nat /\ PoolSize \in Nat
    /\ MaxAttempts \in Nat /\ MaxRequests \in Nat
    /\ SlotPrice \in [1..2 -> Nat] /\ SlotPrice[1] <= SlotPrice[2]
BY EconomyAssumption

-----------------------------------------------------------------------------
(* The rows and the programs.                                              *)

LEMMA RowsApart ==
    /\ Uses \in Rows /\ Stock \in Rows /\ Reward \in Rows
    /\ Uses # Stock /\ Uses # Reward /\ Stock # Reward
    /\ \A u \in Users :
        /\ Balance(u) \in Rows /\ Slots(u) \in Rows
        /\ \A r \in {Uses, Stock, Reward} : Balance(u) # r /\ Slots(u) # r
    /\ \A u \in Users, v \in Users :
        /\ Balance(u) # Slots(v)
        /\ Balance(u) = Balance(v) => u = v
        /\ Slots(u) = Slots(v) => u = v
BY DEF Rows, Balance, Slots, Uses, Stock, Reward

OpNames == {"none", "promo", "shop", "plan", "slots", "paid", "reward", "revert", "gift", "fine"}

LEMMA Programs ==
    /\ DOMAIN Program = OpNames
    /\ Ops = OpNames \ {"none"}
    /\ Program["none"] = <<>>
    /\ Program["promo"] = <<"claim", "credit">>
    /\ Program["shop"] = <<"stock", "debit">>
    /\ Program["plan"] = <<"lock", "debit">>
    /\ Program["slots"] = <<"lock", "quote", "debit", "upsert">>
    /\ Program["paid"] = <<"lock", "upsert">>
    /\ Program["reward"] = <<"note", "credit">>
    /\ Program["revert"] = <<"lock", "delete", "reclaim", "clawback">>
    /\ Program["gift"] = <<"credit">>
    /\ Program["fine"] = <<"debit">>
BY DEF Program, Ops, OpNames

Doing(c, op, at) == req[c].op = op /\ req[c].at = at

\* Where each statement stands, and where the commit does.
LEMMA AtMeans ==
    ASSUME NEW c, req[c].op \in DOMAIN Program, req[c].at \in 0..5
    PROVE  /\ At(c, "lock") => \/ Doing(c, "plan", 1) \/ Doing(c, "slots", 1)
                               \/ Doing(c, "paid", 1) \/ Doing(c, "revert", 1)
           /\ At(c, "credit") => \/ Doing(c, "promo", 2) \/ Doing(c, "reward", 2)
                                 \/ Doing(c, "gift", 1)
           /\ At(c, "debit") => \/ Doing(c, "shop", 2) \/ Doing(c, "plan", 2)
                                \/ Doing(c, "slots", 3) \/ Doing(c, "fine", 1)
           /\ At(c, "claim") => Doing(c, "promo", 1)
           /\ At(c, "stock") => Doing(c, "shop", 1)
           /\ At(c, "quote") => Doing(c, "slots", 2)
           /\ At(c, "upsert") => Doing(c, "slots", 4) \/ Doing(c, "paid", 2)
           /\ At(c, "note") => Doing(c, "reward", 1)
           /\ At(c, "delete") => Doing(c, "revert", 2)
           /\ At(c, "reclaim") => Doing(c, "revert", 3)
           /\ At(c, "clawback") => Doing(c, "revert", 4)
           /\ AtCommit(c) => \/ Doing(c, "none", 1) \/ Doing(c, "promo", 3)
                             \/ Doing(c, "shop", 3) \/ Doing(c, "plan", 3)
                             \/ Doing(c, "slots", 5) \/ Doing(c, "paid", 3)
                             \/ Doing(c, "reward", 3) \/ Doing(c, "revert", 5)
                             \/ Doing(c, "gift", 2) \/ Doing(c, "fine", 2)
<1> DEFINE o == req[c].op
<1>1. CASE o = "none"
  BY <1>1, Programs DEF At, AtCommit, Doing
<1>2. CASE o = "promo"
  BY <1>2, Programs DEF At, AtCommit, Doing
<1>3. CASE o = "shop"
  BY <1>3, Programs DEF At, AtCommit, Doing
<1>4. CASE o = "plan"
  BY <1>4, Programs DEF At, AtCommit, Doing
<1>5. CASE o = "slots"
  BY <1>5, Programs DEF At, AtCommit, Doing
<1>6. CASE o = "paid"
  BY <1>6, Programs DEF At, AtCommit, Doing
<1>7. CASE o = "reward"
  BY <1>7, Programs DEF At, AtCommit, Doing
<1>8. CASE o = "revert"
  BY <1>8, Programs DEF At, AtCommit, Doing
<1>9. CASE o = "gift"
  BY <1>9, Programs DEF At, AtCommit, Doing
<1>10. CASE o = "fine"
  BY <1>10, Programs DEF At, AtCommit, Doing
<1> QED
  BY <1>1, <1>2, <1>3, <1>4, <1>5, <1>6, <1>7, <1>8, <1>9, <1>10, Programs DEF OpNames

\* The index of the commit.
Last(op) == IF op \in {"slots", "revert"} THEN 5 ELSE IF op \in {"gift", "fine"} THEN 2 ELSE 3

LEMMA NextFits ==
    ASSUME TypeOK, NEW c \in Clients, NEW s, req[c].at \in DOMAIN Program[req[c].op],
           Program[req[c].op][req[c].at] = s
    PROVE  /\ req[c].at \in 1..4 /\ Next1(c) \in Request
           /\ Next1(c).op = req[c].op /\ Next1(c).user = req[c].user
           /\ Next1(c).qty = req[c].qty /\ Next1(c).yad = req[c].yad
           /\ Next1(c).at = req[c].at + 1 /\ Next1(c).tries = req[c].tries
           /\ req[c].at + 1 <= Last(req[c].op)
<1>1. req[c] \in Request
  BY DEF TypeOK
<1>2. req[c].op \in OpNames
  BY <1>1, Programs DEF Request
<1>3. req[c].at \in 1..4 /\ req[c].at + 1 <= Last(req[c].op)
  <2>1. CASE req[c].op \in {"none", "promo", "shop", "plan", "paid", "reward"}
    BY <2>1, Programs DEF Last
  <2>2. CASE req[c].op \in {"slots", "revert", "gift", "fine"}
    BY <2>2, Programs DEF Last
  <2> QED
    BY <1>2, <2>1, <2>2 DEF OpNames
<1> QED
  BY <1>1, <1>3 DEF Next1, Request

-----------------------------------------------------------------------------
(* What a transaction has locked and written, statement by statement.      *)

Own(c)     == Balance(req[c].user)
OwnSlots(c) == Slots(req[c].user)

Same(r)     == newest[r] = db[r]
More(r, y)  == newest[r] = db[r] + y
Less(r, y)  == db[r] >= y /\ newest[r] = db[r] - y
Grown(r, q) == newest[r] = IF db[r] >= q THEN db[r] ELSE q

Counts == More(Uses, 1) /\ db[Uses] < MaxUses

PromoLocks(c) ==
    /\ Doing(c, "promo", 2) => Held(c) = {Uses} /\ Counts
    /\ Doing(c, "promo", 3) => Held(c) = {Uses, Own(c)} /\ Counts /\ More(Own(c), PromoYAD)

\* An item that was sold out meanwhile leaves no lock.
ShopLocks(c) ==
    /\ Doing(c, "shop", 2) => Held(c) \subseteq {Stock}
    /\ Doing(c, "shop", 3) => /\ Held(c) \subseteq {Stock, Own(c)} /\ Own(c) \in Held(c)
                              /\ Less(Own(c), ItemPrice)

PlanLocks(c) ==
    /\ Doing(c, "plan", 2) => Held(c) = {Own(c)} /\ Same(Own(c))
    /\ Doing(c, "plan", 3) => Held(c) = {Own(c)} /\ Less(Own(c), PlanPrice)

SlotsLocks(c) ==
    /\ Doing(c, "slots", 2) \/ Doing(c, "slots", 3) => Held(c) = {Own(c)} /\ Same(Own(c))
    /\ Doing(c, "slots", 4) => Held(c) = {Own(c)} /\ Less(Own(c), req[c].yad)
    /\ Doing(c, "slots", 5) => /\ Held(c) = {Own(c), OwnSlots(c)}
                               /\ Less(Own(c), req[c].yad) /\ Grown(OwnSlots(c), req[c].qty)

PaidLocks(c) ==
    /\ Doing(c, "paid", 2) => Held(c) = {Own(c)} /\ Same(Own(c))
    /\ Doing(c, "paid", 3) => /\ Held(c) = {Own(c), OwnSlots(c)}
                              /\ Same(Own(c)) /\ Grown(OwnSlots(c), req[c].qty)

RewardLocks(c) ==
    /\ Doing(c, "reward", 2) => Held(c) = {Reward} /\ newest[Reward] = Immediate
    /\ Doing(c, "reward", 3) => /\ Held(c) = {Reward, Balance(Referrer)}
                                /\ newest[Reward] = Immediate
                                /\ More(Balance(Referrer), RewardYAD)

TakesBack == db[Reward] = Immediate /\ newest[Reward] = Reverted

RevertLocks(c) ==
    /\ Doing(c, "revert", 2) => Held(c) = {Own(c)} /\ Same(Own(c))
    /\ Doing(c, "revert", 3) => /\ Held(c) = {Own(c), OwnSlots(c)}
                                /\ Same(Own(c)) /\ newest[OwnSlots(c)] = 0
    /\ Doing(c, "revert", 4) => /\ Held(c) = {Own(c), OwnSlots(c), Reward}
                                /\ Same(Own(c)) /\ newest[OwnSlots(c)] = 0 /\ TakesBack
    /\ Doing(c, "revert", 5) =>
        /\ newest[OwnSlots(c)] = 0
        /\ \/ Held(c) = {Own(c), OwnSlots(c)} /\ Same(Own(c))
           \/ /\ Held(c) = {Own(c), OwnSlots(c), Reward, Balance(Referrer)}
              /\ TakesBack
              /\ newest[Balance(Referrer)] = Clamped(db[Balance(Referrer)])
              /\ Own(c) # Balance(Referrer) => Same(Own(c))

AdminLocks(c) ==
    /\ Doing(c, "gift", 2) => Held(c) = {Own(c)} /\ More(Own(c), AdminYAD)
    /\ Doing(c, "fine", 2) => Held(c) = {Own(c)} /\ Less(Own(c), AdminYAD)

Locked(c) ==
    /\ req[c].at \in {0, 1} => Held(c) = {}
    /\ PromoLocks(c) /\ ShopLocks(c) /\ PlanLocks(c) /\ SlotsLocks(c)
    /\ PaidLocks(c) /\ RewardLocks(c) /\ RevertLocks(c) /\ AdminLocks(c)

-----------------------------------------------------------------------------
(* What it knows beyond the rows it has locked.                            *)

\* The price of an upgrade discounts what the user has, or nothing if that has
\* run out; or the row it discounts was removed by the sweep.
Priced(c) ==
    \E e \in 0..1 :
        /\ e < req[c].qty
        /\ req[c].yad = Price(req[c].qty) - Price(e)
        /\ \/ e = db[OwnSlots(c)]
           \/ e = 0 /\ req[c].user \in lapsed
           \/ db[OwnSlots(c)] = 0 /\ req[c].yad < Price(req[c].qty)

Knows(c) ==
    /\ req[c].op = "promo" /\ req[c].at > 1 => req[c].user \notin redeemed
    /\ req[c].op = "slots" /\ req[c].at > 2 => Priced(c)
    /\ req[c].op = "reward" => db[Reward] = NoReward

\* What a request was made with.
Bearing(q) ==
    /\ q.op = "none"   => q.at = 0
    /\ q.at <= Last(q.op)
    /\ q.op = "promo"  => q.yad = PromoYAD
    /\ q.op = "shop"   => q.yad = ItemPrice
    /\ q.op = "plan"   => q.yad = PlanPrice
    /\ q.op = "reward" => q.yad = RewardYAD
    /\ q.op \in {"gift", "fine"} => q.yad = AdminYAD
    /\ q.op \in Jobs => q.user = Payer /\ q.op \in begun

\* The reward of the payment is given by one job.
OneReward ==
    /\ \A c \in Clients, d \in Clients : req[c].op = "reward" /\ req[d].op = "reward" => c = d
    /\ "reward" \notin begun => db[Reward] = NoReward

\* The code says it was used by as many users as have used it.
UsesCounted == IsFiniteSet(redeemed) /\ Cardinality(redeemed) = db[Uses]

EconomyInv ==
    /\ TypeOK
    /\ \A c \in Clients : Bearing(req[c]) /\ Locked(c) /\ Knows(c)
    /\ OneReward
    /\ UsesCounted

LEMMA InvInit == Init => EconomyInv
<1> SUFFICES ASSUME Init PROVE EconomyInv
  OBVIOUS
<1>1. Idle \in Request
  BY ConstantTypes, Programs DEF Idle, Request, OpNames
<1>2. PICK purse \in [Users -> Opening] :
        db = [r \in Rows |-> IF r[1] = "balance" THEN purse[r[2]]
                             ELSE IF r = Stock THEN Shelf ELSE 0]
  BY DEF Init
<1>3. \A u \in Users : purse[u] \in Nat
  BY ConstantTypes
<1>4. \A r \in Rows : r[1] = "balance" => r[2] \in Users
  BY DEF Rows, Uses, Stock, Reward
<1>5. db \in [Rows -> Nat]
  BY <1>2, <1>3, <1>4, ConstantTypes
<1>6. db[Uses] = 0 /\ db[Reward] = 0
  BY <1>2, RowsApart DEF Uses, Reward
<1>7. TypeOK
  BY <1>1, <1>5, ConstantTypes DEF Init, TypeOK
<1>8. \A c \in Clients : req[c].op = "none" /\ req[c].at = 0 /\ Held(c) = {}
  BY ConstantTypes DEF Init, Idle, Held
<1>9. \A c \in Clients : Bearing(req[c]) /\ Knows(c)
  BY <1>8 DEF Bearing, Knows, Jobs, Last
<1>10. \A c \in Clients : Locked(c)
  BY <1>8 DEF Locked, Doing, PromoLocks, ShopLocks, PlanLocks, SlotsLocks, PaidLocks,
              RewardLocks, RevertLocks, AdminLocks
<1>11. OneReward
  BY <1>6, <1>8 DEF OneReward, NoReward
<1>12. UsesCounted
  BY <1>6, FS_EmptySet DEF Init, UsesCounted
<1> QED
  BY <1>7, <1>9, <1>10, <1>11, <1>12 DEF EconomyInv

-----------------------------------------------------------------------------
(* What a step of one client leaves to the others.                         *)

\* The client goes on as before, and its rows are as it left them.
Undisturbed(d) ==
    /\ req'[d] = req[d]
    /\ Held(d)' = Held(d)
    /\ \A r \in Held(d) : db'[r] = db[r] /\ newest'[r] = newest[r]

LEMMA LockedStays ==
    ASSUME NEW d \in Clients, Locked(d), Undisturbed(d)
    PROVE  Locked(d)'
<1>1. /\ Own(d)' = Own(d) /\ OwnSlots(d)' = OwnSlots(d)
      /\ \A op, at : Doing(d, op, at)' <=> Doing(d, op, at)
      /\ Held(d)' = Held(d) /\ req'[d] = req[d]
      /\ Balance(Referrer)' = Balance(Referrer) /\ Reward' = Reward /\ Uses' = Uses
      /\ Stock' = Stock
  BY DEF Undisturbed, Own, OwnSlots, Doing, Balance, Slots, Reward, Uses, Stock
<1>2. ASSUME NEW r \in Held(d)
      PROVE  /\ Same(r)' <=> Same(r)
             /\ \A y : More(r, y)' <=> More(r, y)
             /\ \A y : Less(r, y)' <=> Less(r, y)
             /\ \A q : Grown(r, q)' <=> Grown(r, q)
  BY <1>2 DEF Undisturbed, Same, More, Less, Grown
<1>3. \A r \in Held(d) : db'[r] = db[r] /\ newest'[r] = newest[r]
  BY DEF Undisturbed
<1>4. PromoLocks(d)'
  BY <1>1, <1>2, <1>3 DEF Locked, PromoLocks, Counts
<1>5. ShopLocks(d)' /\ PlanLocks(d)' /\ AdminLocks(d)'
  BY <1>1, <1>2 DEF Locked, ShopLocks, PlanLocks, AdminLocks
<1>6. SlotsLocks(d)' /\ PaidLocks(d)'
  BY <1>1, <1>2 DEF Locked, SlotsLocks, PaidLocks
<1>7. RewardLocks(d)'
  BY <1>1, <1>2, <1>3 DEF Locked, RewardLocks
<1>8. RevertLocks(d)'
  BY <1>1, <1>2, <1>3 DEF Locked, RevertLocks, TakesBack, Clamped
<1>9. req'[d].at \in {0, 1} => Held(d)' = {}
  BY <1>1 DEF Locked
<1> QED
  BY <1>4, <1>5, <1>6, <1>7, <1>8, <1>9 DEF Locked

\* No two clients hold one row.
LEMMA HeldApart ==
    ASSUME NEW c \in Clients, NEW d \in Clients, c # d
    PROVE  Held(c) \cap Held(d) = {}
BY DEF Held

\* The client locks a row, if it had not yet, and writes its newest version.
Puts(c, r, v) ==
    /\ holder[r] \in {NoOne, c}
    /\ holder' = [holder EXCEPT ![r] = c]
    /\ newest' = [newest EXCEPT ![r] = v]
    /\ UNCHANGED <<db, stale, tableVars, begun, asked>>

LEMMA PutsRows ==
    ASSUME TypeOK, NEW c \in Clients, NEW r \in Rows, NEW v \in Nat, Puts(c, r, v)
    PROVE  /\ holder' \in [Rows -> Clients \cup {NoOne}] /\ newest' \in [Rows -> Nat]
           /\ Held(c)' = Held(c) \cup {r}
           /\ newest'[r] = v /\ \A s \in Rows \ {r} : newest'[s] = newest[s]
           /\ UNCHANGED <<db, stale, redeemed, bought, lapsed, begun, asked>>
           /\ \A d \in Clients \ {c} : Held(d)' = Held(d) /\ r \notin Held(d)
<1>1. UNCHANGED <<db, stale, redeemed, bought, lapsed, begun, asked>>
  BY DEF Puts, tableVars
<1>2. /\ holder \in [Rows -> Clients \cup {NoOne}] /\ newest \in [Rows -> Nat]
      /\ holder' = [holder EXCEPT ![r] = c] /\ newest' = [newest EXCEPT ![r] = v]
      /\ holder[r] \in {NoOne, c}
  BY DEF Puts, TypeOK
<1>3. /\ holder'[r] = c /\ \A s \in Rows \ {r} : holder'[s] = holder[s]
      /\ newest'[r] = v /\ \A s \in Rows \ {r} : newest'[s] = newest[s]
  BY <1>2
<1>4. Held(c)' = Held(c) \cup {r}
  BY <1>3 DEF Held
<1>5. ASSUME NEW d \in Clients \ {c} PROVE Held(d)' = Held(d) /\ r \notin Held(d)
  BY <1>2, <1>3, ConstantTypes DEF Held
<1> QED
  BY <1>1, <1>2, <1>3, <1>4, <1>5

\* A client that writes a row, or only reads, keeps the invariant if its own
\* part of it holds afterwards.
LEMMA InvMoves ==
    ASSUME EconomyInv, NEW c \in Clients, NEW s \in Request, req' = [req EXCEPT ![c] = s],
           s.op = req[c].op, s.at > 0, s.user = req[c].user, Bearing(s),
           \/ \E r \in Rows, v \in Nat : Puts(c, r, v)
           \/ UNCHANGED <<db, newest, holder, stale, redeemed, bought, lapsed, begun, asked>>,
           Locked(c)', Knows(c)'
    PROVE  EconomyInv'
<1>1. /\ TypeOK /\ req' \in [Clients -> Request] /\ req'[c] = s
      /\ \A d \in Clients \ {c} : req'[d] = req[d]
      /\ \A d \in Clients : req'[d].op = req[d].op
  BY DEF EconomyInv, TypeOK
<1>2. /\ UNCHANGED <<db, stale, redeemed, bought, lapsed, begun, asked>>
      /\ holder' \in [Rows -> Clients \cup {NoOne}] /\ newest' \in [Rows -> Nat]
      /\ \A d \in Clients \ {c} : Undisturbed(d)
  <2>1. CASE \E r \in Rows, v \in Nat : Puts(c, r, v)
    <3>1. PICK r \in Rows, v \in Nat : Puts(c, r, v)
      BY <2>1
    <3>2. \A d \in Clients : Held(d) \subseteq Rows
      BY DEF Held
    <3> QED
      BY <1>1, <3>1, <3>2, PutsRows DEF Undisturbed
  <2>2. CASE UNCHANGED <<db, newest, holder, stale, redeemed, bought, lapsed, begun, asked>>
    BY <1>1, <2>2 DEF Undisturbed, Held, TypeOK
  <2> QED
    BY <2>1, <2>2
<1>3. TypeOK'
  BY <1>1, <1>2 DEF TypeOK
<1>4. ASSUME NEW d \in Clients \ {c} PROVE Bearing(req[d])' /\ Locked(d)' /\ Knows(d)'
  <2>1. Bearing(req[d]) /\ Locked(d) /\ Knows(d)
    BY DEF EconomyInv
  <2>2. Locked(d)'
    BY <1>2, <2>1, LockedStays
  <2>3. Bearing(req[d])' /\ Knows(d)'
    BY <1>1, <1>2, <2>1 DEF Bearing, Knows, Priced, OwnSlots, Slots, Reward
  <2> QED
    BY <2>2, <2>3
<1>5. Bearing(req[c])'
  BY <1>1, <1>2 DEF Bearing
<1>6. OneReward' /\ UsesCounted'
  BY <1>1, <1>2 DEF EconomyInv, OneReward, UsesCounted, Reward, Uses
<1> QED
  BY <1>3, <1>4, <1>5, <1>6 DEF EconomyInv

\* A transaction is rolled back: its rows are free, and the others' theirs.
LEMMA InvRollback ==
    ASSUME EconomyInv, NEW c \in Clients, NEW s \in Request, Rollback(c, s),
           s.at = 0, s.op \in {"none", req[c].op}, Bearing(s)
    PROVE  EconomyInv'
<1>1. /\ TypeOK /\ req' = [req EXCEPT ![c] = s]
      /\ UNCHANGED <<db, redeemed, bought, lapsed, begun, asked>>
      /\ stale' = [stale EXCEPT ![c] = {}]
      /\ newest' = [r \in Rows |-> IF holder[r] = c THEN db[r] ELSE newest[r]]
      /\ holder' = [r \in Rows |-> IF holder[r] = c THEN NoOne ELSE holder[r]]
  BY DEF EconomyInv, Rollback, Undo, GoOn, tableVars
<1>2. /\ req' \in [Clients -> Request] /\ req'[c] = s
      /\ \A d \in Clients \ {c} : req'[d] = req[d]
      /\ \A d \in Clients : req'[d].op \in {"none", req[d].op}
  BY <1>1 DEF TypeOK
<1>3. Held(c)' = {} /\ \A d \in Clients \ {c} : Undisturbed(d)
  BY <1>1, <1>2, ConstantTypes DEF Held, Undisturbed
<1>4. TypeOK'
  <2>1. stale' \in [Clients -> SUBSET Rows]
    BY <1>1 DEF TypeOK
  <2>2. newest' \in [Rows -> Nat] /\ holder' \in [Rows -> Clients \cup {NoOne}]
    BY <1>1 DEF TypeOK
  <2> QED
    BY <1>1, <1>2, <2>1, <2>2 DEF TypeOK
<1>5. ASSUME NEW d \in Clients \ {c} PROVE Bearing(req[d])' /\ Locked(d)' /\ Knows(d)'
  <2>1. Bearing(req[d]) /\ Locked(d) /\ Knows(d)
    BY DEF EconomyInv
  <2>2. Locked(d)'
    BY <1>3, <2>1, LockedStays
  <2>3. Bearing(req[d])' /\ Knows(d)'
    BY <1>1, <1>2, <2>1 DEF Bearing, Knows, Priced, OwnSlots, Slots, Reward
  <2> QED
    BY <2>2, <2>3
<1>6. Bearing(req[c])' /\ Locked(c)' /\ Knows(c)'
  <2>1. Bearing(req[c])'
    BY <1>1, <1>2 DEF Bearing
  <2>2. Locked(c)'
    BY <1>2, <1>3 DEF Locked, Doing, PromoLocks, ShopLocks, PlanLocks, SlotsLocks, PaidLocks,
                      RewardLocks, RevertLocks, AdminLocks
  <2>3. Knows(c)'
    <3>1. req[c].op = "reward" => db[Reward] = NoReward
      BY DEF EconomyInv, Knows
    <3> QED
      BY <1>1, <1>2, <3>1 DEF Knows, Reward
  <2> QED
    BY <2>1, <2>2, <2>3
<1>7. OneReward' /\ UsesCounted'
  BY <1>1, <1>2 DEF EconomyInv, OneReward, UsesCounted, Reward, Uses
<1> QED
  BY <1>4, <1>5, <1>6, <1>7 DEF EconomyInv

LEMMA InvRefuse ==
    ASSUME EconomyInv, NEW c \in Clients, Refuse(c)
    PROVE  EconomyInv'
<1>1. Idle \in Request
  BY ConstantTypes, Programs DEF Idle, Request, OpNames
<1>2. Idle.at = 0 /\ Idle.op = "none" /\ Bearing(Idle)
  BY DEF Idle, Bearing, Jobs, Last
<1> QED
  BY <1>1, <1>2, InvRollback DEF Refuse

LEMMA InvSerializationFailure ==
    ASSUME EconomyInv, NEW c \in Clients, SerializationFailure(c)
    PROVE  EconomyInv'
<1>1. CASE Retried(req[c].op) /\ req[c].tries < MaxAttempts - 1
  <2>1. PICK s : s = [req[c] EXCEPT !.at = 0, !.tries = @ + 1]
    OBVIOUS
  <2>2. /\ s \in Request /\ s.at = 0 /\ s.op = req[c].op
        /\ s.user = req[c].user /\ s.yad = req[c].yad
    <3>1. req[c] \in Request
      BY DEF EconomyInv, TypeOK
    <3>2. req[c].tries + 1 \in 0..MaxAttempts
      BY <1>1, <3>1, ConstantTypes DEF Request
    <3>3. s = [op |-> req[c].op, user |-> req[c].user, qty |-> req[c].qty, at |-> 0,
               yad |-> req[c].yad, tries |-> req[c].tries + 1]
      BY <2>1, <3>1 DEF Request
    <3> QED
      BY <3>1, <3>2, <3>3 DEF Request
  <2>3. Bearing(req[c])
    BY DEF EconomyInv
  <2>4. Bearing(s)
    BY <2>2, <2>3 DEF Bearing, Last
  <2>5. Rollback(c, s)
    BY <1>1, <2>1 DEF SerializationFailure
  <2> QED
    BY <2>2, <2>4, <2>5, InvRollback
<1>2. CASE ~(Retried(req[c].op) /\ req[c].tries < MaxAttempts - 1)
  BY <1>2, InvRefuse DEF SerializationFailure, Refuse
<1> QED
  BY <1>1, <1>2

-----------------------------------------------------------------------------
(* Requests arrive.                                                        *)

\* A client that was idle has a request: nothing is locked for it yet.
LEMMA InvAsks ==
    ASSUME EconomyInv, NEW c \in Clients, NEW op, NEW u \in Users, NEW q \in 1..2, NEW y \in Nat,
           Asks(c, op, u, q, y), begun \subseteq begun', begun' \subseteq Jobs,
           op = "promo"  => y = PromoYAD,
           op = "shop"   => y = ItemPrice,
           op = "plan"   => y = PlanPrice,
           op = "reward" => y = RewardYAD,
           op \in {"gift", "fine"} => y = AdminYAD,
           op \in Jobs => u = Payer /\ op \in begun',
           op = "reward" => op \notin begun
    PROVE  EconomyInv'
<1>1. PICK s : s = [op |-> op, user |-> u, qty |-> q, at |-> 0, yad |-> y, tries |-> 0]
  OBVIOUS
<1>2. /\ op \in Ops /\ op \in DOMAIN Program /\ op # "none"
      /\ UNCHANGED <<db, newest, holder, stale, redeemed, bought, lapsed>>
      /\ asked' = asked + 1 /\ asked < MaxRequests /\ req[c] = Idle
      /\ req' = [req EXCEPT ![c] = s]
  BY <1>1, ConstantTypes, Programs DEF Asks, GoOn, rowVars, tableVars
<1>3. /\ s \in Request /\ s.op = op /\ s.at = 0 /\ s.user = u /\ s.yad = y
  <2>1. 0 \in 0..MaxAttempts /\ 0 \in 0..5
    BY ConstantTypes
  <2> QED
    BY <1>1, <1>2, <2>1 DEF Request
<1>4. /\ TypeOK /\ req' \in [Clients -> Request] /\ req'[c] = s
      /\ \A d \in Clients \ {c} : req'[d] = req[d]
  BY <1>2, <1>3 DEF EconomyInv, TypeOK
<1>5. TypeOK'
  <2>1. asked' \in 0..MaxRequests
    BY <1>2, <1>4, ConstantTypes DEF TypeOK
  <2> QED
    BY <1>2, <1>4, <2>1 DEF TypeOK
<1>6. ASSUME NEW d \in Clients \ {c} PROVE Bearing(req[d])' /\ Locked(d)' /\ Knows(d)'
  <2>1. Bearing(req[d]) /\ Locked(d) /\ Knows(d)
    BY DEF EconomyInv
  <2>2. Locked(d)'
    BY <1>2, <1>4, <2>1, LockedStays DEF Undisturbed, Held
  <2>3. Bearing(req[d])' /\ Knows(d)'
    BY <1>2, <1>4, <2>1 DEF Bearing, Knows, Priced, OwnSlots, Slots, Reward
  <2> QED
    BY <2>2, <2>3
<1>7. Bearing(req[c])' /\ Locked(c)' /\ Knows(c)'
  <2>1. Bearing(req[c])'
    BY <1>2, <1>3, <1>4 DEF Bearing, Last
  <2>2. Held(c)' = {}
    <3>1. req[c].at = 0
      BY <1>2 DEF Idle
    <3>2. Held(c) = {}
      BY <3>1 DEF EconomyInv, Locked
    <3> QED
      BY <1>2, <3>2 DEF Held
  <2>3. Locked(c)'
    BY <1>3, <1>4, <2>2
       DEF Locked, Doing, PromoLocks, ShopLocks, PlanLocks, SlotsLocks, PaidLocks,
           RewardLocks, RevertLocks, AdminLocks
  <2>4. Knows(c)'
    BY <1>2, <1>3, <1>4 DEF Knows, EconomyInv, OneReward, Reward
  <2> QED
    BY <2>1, <2>3, <2>4
<1>8. OneReward'
  <2>1. ASSUME NEW d \in Clients, req[d].op = "reward" PROVE op # "reward"
    BY <2>1 DEF EconomyInv, Bearing, Jobs
  <2> QED
    BY <1>2, <1>3, <1>4, <2>1 DEF EconomyInv, OneReward, Reward
<1>9. UsesCounted'
  BY <1>2 DEF EconomyInv, UsesCounted, Uses
<1> QED
  BY <1>5, <1>6, <1>7, <1>8, <1>9 DEF EconomyInv

LEMMA InvRequested ==
    ASSUME EconomyInv, NEW c \in Clients, NEW op \in OpNames \ Jobs, NEW u \in Users,
           NEW q \in 1..2, NEW y \in Nat, Requested(c, op, u, q, y),
           op = "promo" => y = PromoYAD,
           op = "shop"  => y = ItemPrice,
           op = "plan"  => y = PlanPrice,
           op \in {"gift", "fine"} => y = AdminYAD
    PROVE  EconomyInv'
<1>1. begun \subseteq Jobs /\ op # "reward"
  BY DEF EconomyInv, TypeOK, Jobs
<1> QED
  BY <1>1, InvAsks DEF Requested

LEMMA InvJob ==
    ASSUME EconomyInv, NEW c \in Clients, NEW op \in Jobs, NEW q \in 1..2, NEW y \in Nat,
           Job(c, op, q, y), op = "reward" => y = RewardYAD
    PROVE  EconomyInv'
<1>1. /\ op \notin begun /\ op \in begun' /\ begun \subseteq begun' /\ begun' \subseteq Jobs
      /\ op \notin {"promo", "shop", "plan", "gift", "fine"}
  BY DEF EconomyInv, TypeOK, Jobs, Job
<1> QED
  BY <1>1, ConstantTypes, InvAsks DEF Job

LEMMA InvArrive ==
    ASSUME EconomyInv, NEW c \in Clients, Arrive(c)
    PROVE  EconomyInv'
<1>0. 1 \in 1..2 /\ 0 \in Nat
  OBVIOUS
<1>1. ASSUME NEW u \in Users, EnterPromo(c, u) PROVE EconomyInv'
  BY <1>0, <1>1, ConstantTypes, InvRequested DEF EnterPromo, OpNames, Jobs
<1>2. ASSUME NEW u \in Users, OrderItem(c, u) PROVE EconomyInv'
  BY <1>0, <1>2, ConstantTypes, InvRequested DEF OrderItem, OpNames, Jobs
<1>3. ASSUME NEW u \in Users, BuySubscriptionWithYAD(c, u) PROVE EconomyInv'
  BY <1>0, <1>3, ConstantTypes, InvRequested DEF BuySubscriptionWithYAD, OpNames, Jobs
<1>4. ASSUME NEW u \in Users, NEW q \in 1..2, BuyDeviceExpansion(c, u, q) PROVE EconomyInv'
  BY <1>0, <1>4, ConstantTypes, InvRequested DEF BuyDeviceExpansion, OpNames, Jobs
<1>5. ASSUME NEW u \in Users, AdjustYAD(c, u) PROVE EconomyInv'
  BY <1>0, <1>5, ConstantTypes, InvRequested DEF AdjustYAD, OpNames, Jobs
<1>6. ASSUME NEW q \in 1..2, HandleDeviceExpansionActivate(c, q) PROVE EconomyInv'
  BY <1>0, <1>6, InvJob DEF HandleDeviceExpansionActivate, Jobs
<1>7. CASE HandleReferralReward(c)
  BY <1>0, <1>7, ConstantTypes, InvJob DEF HandleReferralReward, Jobs
<1>8. CASE ProcessRevertedPayment(c)
  BY <1>0, <1>8, InvJob DEF ProcessRevertedPayment, Jobs
<1> QED
  BY <1>1, <1>2, <1>3, <1>4, <1>5, <1>6, <1>7, <1>8 DEF Arrive, AdjustUserYAD

-----------------------------------------------------------------------------
(* Statements.                                                             *)

LEMMA ClientFacts ==
    ASSUME EconomyInv, NEW c \in Clients
    PROVE  /\ TypeOK /\ req[c] \in Request /\ req[c].op \in DOMAIN Program /\ req[c].at \in 0..5
           /\ req[c].user \in Users /\ req[c].yad \in Nat /\ req[c].qty \in 1..2
           /\ Own(c) \in Rows /\ OwnSlots(c) \in Rows
           /\ db \in [Rows -> Nat] /\ newest \in [Rows -> Nat]
           /\ Bearing(req[c]) /\ Locked(c) /\ Knows(c)
<1>1. TypeOK /\ req[c] \in Request
  BY DEF EconomyInv, TypeOK
<1>2. req[c].op \in DOMAIN Program /\ req[c].at \in 0..5 /\ req[c].user \in Users
      /\ req[c].yad \in Nat /\ req[c].qty \in 1..2
  BY <1>1 DEF Request
<1>3. Own(c) \in Rows /\ OwnSlots(c) \in Rows
  BY <1>2, RowsApart DEF Own, OwnSlots
<1> QED
  BY <1>1, <1>2, <1>3 DEF EconomyInv, TypeOK

LEMMA GoesOn ==
    ASSUME EconomyInv, NEW c \in Clients, NEW s, At(c, s), GoOn(c, Next1(c))
    PROVE  /\ Next1(c) \in Request /\ req' = [req EXCEPT ![c] = Next1(c)]
           /\ req[c].at \in 1..4
           /\ req'[c].op = req[c].op /\ req'[c].at = req[c].at + 1
           /\ req'[c].user = req[c].user /\ req'[c].qty = req[c].qty
           /\ req'[c].yad = req[c].yad
           /\ Own(c)' = Own(c) /\ OwnSlots(c)' = OwnSlots(c)
           /\ Bearing(Next1(c))
           /\ Next1(c).op = req[c].op /\ Next1(c).user = req[c].user /\ Next1(c).at > 0
<1>1. /\ req[c].at \in DOMAIN Program[req[c].op]
      /\ Program[req[c].op][req[c].at] = s
  BY DEF At
<1>2. /\ req[c].at \in 1..4 /\ Next1(c) \in Request
      /\ Next1(c).op = req[c].op /\ Next1(c).user = req[c].user
      /\ Next1(c).qty = req[c].qty /\ Next1(c).yad = req[c].yad
      /\ Next1(c).at = req[c].at + 1 /\ Next1(c).at <= Last(req[c].op)
  BY <1>1, NextFits, ClientFacts
<1>3. req' = [req EXCEPT ![c] = Next1(c)] /\ req'[c] = Next1(c)
  BY DEF GoOn, EconomyInv, TypeOK
<1>4. Own(c)' = Own(c) /\ OwnSlots(c)' = OwnSlots(c)
  BY <1>2, <1>3 DEF Own, OwnSlots, Balance, Slots
<1>5. req[c].at # 0 /\ req[c].op # "none"
  BY <1>2, ClientFacts DEF Bearing
<1>6. Bearing(Next1(c))
  BY <1>2, <1>5, ClientFacts DEF Bearing
<1> QED
  BY <1>2, <1>3, <1>4, <1>6

LEMMA WritePuts ==
    ASSUME NEW c, NEW r, NEW v, Write(c, r, v)
    PROVE  Puts(c, r, v)
BY DEF Write, Puts

LEMMA InvWrites ==
    ASSUME EconomyInv, NEW c \in Clients, NEW s, At(c, s), GoOn(c, Next1(c)),
           NEW r \in Rows, NEW v \in Nat, Puts(c, r, v), Locked(c)', Knows(c)'
    PROVE  EconomyInv'
<1>1. PICK n : n = Next1(c)
  OBVIOUS
<1>2. /\ n \in Request /\ req' = [req EXCEPT ![c] = n] /\ Bearing(n)
      /\ n.op = req[c].op /\ n.user = req[c].user /\ n.at > 0
  BY <1>1, GoesOn
<1> QED
  BY <1>2, InvMoves

\* The lock of the user's row reads and writes what is committed.
LEMMA InvLockUserForUpdate ==
    ASSUME EconomyInv, NEW c \in Clients, LockUserForUpdate(c)
    PROVE  EconomyInv'
<1> DEFINE r == Own(c)
<1>1. At(c, "lock")
  BY DEF LockUserForUpdate
<1>2. CASE Write(c, r, Seen(c, r)) /\ GoOn(c, Next1(c))
  <2>1. \/ Doing(c, "plan", 1) \/ Doing(c, "slots", 1)
        \/ Doing(c, "paid", 1) \/ Doing(c, "revert", 1)
    BY <1>1, AtMeans, ClientFacts
  <2>2. r \in Rows /\ Held(c) = {}
    BY <2>1, ClientFacts DEF Locked, Doing
  <2>3. Seen(c, r) = db[r] /\ db[r] \in Nat
    BY <2>2, ClientFacts DEF Seen, Held
  <2>4. Puts(c, r, db[r])
    BY <1>2, <2>3, WritePuts
  <2>5. /\ Held(c)' = {r} /\ newest'[r] = db[r] /\ db' = db
        /\ UNCHANGED <<redeemed, lapsed>>
    BY <2>2, <2>3, <2>4, PutsRows, ClientFacts
  <2>6. /\ req'[c].op = req[c].op /\ req'[c].at = 2 /\ Own(c)' = r
        /\ req[c].op \in {"plan", "slots", "paid", "revert"}
    BY <1>1, <1>2, <2>1, GoesOn DEF Doing
  <2>7. Locked(c)'
    BY <2>5, <2>6 DEF Locked, Doing, PromoLocks, ShopLocks, PlanLocks, SlotsLocks, PaidLocks,
                      RewardLocks, RevertLocks, AdminLocks, Same
  <2>8. Knows(c)'
    BY <2>6 DEF Knows
  <2> QED
    BY <1>1, <1>2, <2>2, <2>3, <2>4, <2>7, <2>8, InvWrites
<1>3. CASE SerializationFailure(c)
  BY <1>3, InvSerializationFailure
<1> QED
  BY <1>2, <1>3 DEF LockUserForUpdate, Own

LEMMA InvCredit ==
    ASSUME EconomyInv, NEW c \in Clients, Credit(c)
    PROVE  EconomyInv'
<1> DEFINE r == Balance(Account(c))
<1>1. /\ At(c, "credit") /\ Write(c, r, Seen(c, r) + req[c].yad)
      /\ GoOn(c, Next1(c))
  BY DEF Credit
<1>2. Doing(c, "promo", 2) \/ Doing(c, "reward", 2) \/ Doing(c, "gift", 1)
  BY <1>1, AtMeans, ClientFacts
<1>3. /\ Account(c) \in Users /\ r \in Rows /\ r # Uses /\ r # Reward
  BY ConstantTypes, ClientFacts, RowsApart DEF Account
<1>4. r \notin Held(c)
  BY <1>2, <1>3, ClientFacts DEF Locked, Doing, PromoLocks, RewardLocks
<1>5. Seen(c, r) = db[r] /\ db[r] \in Nat /\ db[r] + req[c].yad \in Nat
  BY <1>3, <1>4, ClientFacts DEF Seen, Held
<1>6. Puts(c, r, db[r] + req[c].yad)
  BY <1>1, <1>5, WritePuts
<1>7. /\ Held(c)' = Held(c) \cup {r} /\ newest'[r] = db[r] + req[c].yad
      /\ \A s \in Rows \ {r} : newest'[s] = newest[s]
      /\ UNCHANGED <<db, redeemed, lapsed>>
  BY <1>3, <1>5, <1>6, PutsRows, ClientFacts
<1>8. /\ req'[c].op = req[c].op /\ req'[c].at = req[c].at + 1 /\ req'[c].user = req[c].user
      /\ Own(c)' = Own(c) /\ req'[c].yad = req[c].yad
  BY <1>1, GoesOn
<1>9. CASE Doing(c, "promo", 2)
  <2>1. /\ Held(c) = {Uses} /\ Counts /\ r = Own(c) /\ req[c].yad = PromoYAD
        /\ newest'[Uses] = newest[Uses]
    BY <1>3, <1>7, <1>9, ClientFacts, RowsApart
       DEF Locked, PromoLocks, Doing, Account, Own, Bearing
  <2>2. Held(c)' = {Uses', Own(c)'} /\ Counts' /\ More(Own(c), PromoYAD)'
    BY <1>7, <1>8, <2>1 DEF Counts, More, Uses
  <2>3. Locked(c)'
    BY <1>8, <1>9, <2>2 DEF Locked, Doing, PromoLocks, ShopLocks, PlanLocks, SlotsLocks, PaidLocks,
                      RewardLocks, RevertLocks, AdminLocks
  <2>4. Knows(c)'
    BY <1>7, <1>8, <1>9, ClientFacts DEF Knows, Doing
  <2> QED
    BY <1>1, <1>3, <1>5, <1>6, <2>3, <2>4, InvWrites
<1>10. CASE Doing(c, "reward", 2)
  <2>1. /\ Held(c) = {Reward} /\ newest[Reward] = Immediate /\ r = Balance(Referrer)
        /\ req[c].yad = RewardYAD /\ newest'[Reward] = newest[Reward]
    BY <1>3, <1>7, <1>10, ClientFacts, RowsApart
       DEF Locked, RewardLocks, Doing, Account, Bearing
  <2>2. /\ Held(c)' = {Reward', Balance(Referrer)'} /\ newest'[Reward] = Immediate
        /\ More(Balance(Referrer), RewardYAD)'
    BY <1>7, <1>8, <2>1 DEF More, Reward, Balance
  <2>3. Locked(c)'
    BY <1>8, <1>10, <2>2 DEF Locked, Doing, PromoLocks, ShopLocks, PlanLocks, SlotsLocks, PaidLocks,
                      RewardLocks, RevertLocks, AdminLocks, Reward
  <2>4. Knows(c)'
    BY <1>7, <1>8, <1>10, ClientFacts DEF Knows, Doing, Reward
  <2> QED
    BY <1>1, <1>3, <1>5, <1>6, <2>3, <2>4, InvWrites
<1>11. CASE Doing(c, "gift", 1)
  <2>1. Held(c) = {} /\ r = Own(c) /\ req[c].yad = AdminYAD
    BY <1>11, ClientFacts DEF Locked, Doing, Account, Own, Bearing
  <2>2. Held(c)' = {Own(c)'} /\ More(Own(c), AdminYAD)'
    BY <1>7, <1>8, <2>1 DEF More
  <2>3. Locked(c)'
    BY <1>8, <1>11, <2>2 DEF Locked, Doing, PromoLocks, ShopLocks, PlanLocks, SlotsLocks, PaidLocks,
                      RewardLocks, RevertLocks, AdminLocks
  <2>4. Knows(c)'
    BY <1>8, <1>11 DEF Knows, Doing
  <2> QED
    BY <1>1, <1>3, <1>5, <1>6, <2>3, <2>4, InvWrites
<1> QED
  BY <1>2, <1>9, <1>10, <1>11

\* The locks of the program that the client is in are all that it has.
LEMMA NewLocks ==
    ASSUME NEW c, req'[c].at \notin {0, 1},
           \/ req'[c].op = "promo" /\ PromoLocks(c)'
           \/ req'[c].op = "shop" /\ ShopLocks(c)'
           \/ req'[c].op = "plan" /\ PlanLocks(c)'
           \/ req'[c].op = "slots" /\ SlotsLocks(c)'
           \/ req'[c].op = "paid" /\ PaidLocks(c)'
           \/ req'[c].op = "reward" /\ RewardLocks(c)'
           \/ req'[c].op = "revert" /\ RevertLocks(c)'
           \/ req'[c].op \in {"gift", "fine"} /\ AdminLocks(c)'
    PROVE  Locked(c)'
BY DEF Locked, Doing, PromoLocks, ShopLocks, PlanLocks, SlotsLocks, PaidLocks,
       RewardLocks, RevertLocks, AdminLocks

LEMMA InvDebit ==
    ASSUME EconomyInv, NEW c \in Clients, Debit(c)
    PROVE  EconomyInv'
<1> DEFINE r == Own(c)
<1>1. CASE /\ Covers(c, r) /\ Write(c, r, Seen(c, r) - req[c].yad)
           /\ GoOn(c, Next1(c))
  <2>1. At(c, "debit") /\ r \in Rows
    BY ClientFacts DEF Debit
  <2>2. Doing(c, "shop", 2) \/ Doing(c, "plan", 2) \/ Doing(c, "slots", 3) \/ Doing(c, "fine", 1)
    BY <2>1, AtMeans, ClientFacts
  <2>3. /\ Doing(c, "shop", 2) => Held(c) \subseteq {Stock} /\ req[c].yad = ItemPrice
        /\ Doing(c, "plan", 2) => Held(c) = {r} /\ Same(r) /\ req[c].yad = PlanPrice
        /\ Doing(c, "slots", 3) => Held(c) = {r} /\ Same(r)
        /\ Doing(c, "fine", 1) => Held(c) = {} /\ req[c].yad = AdminYAD
    BY ClientFacts DEF Locked, ShopLocks, PlanLocks, SlotsLocks, Doing, Bearing
  <2>4. r # Stock
    BY ClientFacts, RowsApart DEF Own
  <2>5. Seen(c, r) = db[r]
    BY <2>1, <2>2, <2>3, <2>4 DEF Seen, Held, Same
  <2>6. db[r] >= req[c].yad /\ db[r] - req[c].yad \in Nat
    BY <1>1, <2>1, <2>5, ClientFacts DEF Covers
  <2>7. Puts(c, r, db[r] - req[c].yad)
    BY <1>1, <2>5, WritePuts
  <2>8. /\ Held(c)' = Held(c) \cup {r} /\ newest'[r] = db[r] - req[c].yad
        /\ UNCHANGED <<db, redeemed, lapsed>>
    BY <2>1, <2>6, <2>7, PutsRows, ClientFacts
  <2>9. /\ req'[c].op = req[c].op /\ req'[c].at = req[c].at + 1 /\ req'[c].user = req[c].user
        /\ Own(c)' = r /\ req'[c].yad = req[c].yad /\ req'[c].qty = req[c].qty
    BY <1>1, <2>1, GoesOn
  <2>10. Less(r, req[c].yad)'
    BY <2>6, <2>8, <2>9 DEF Less, Own, Balance
  <2>11. Locked(c)'
    <3>1. CASE Doing(c, "shop", 2)
      <4>1. ShopLocks(c)'
        BY <2>3, <2>8, <2>9, <2>10, <3>1 DEF ShopLocks, Doing, Stock
      <4> QED
        BY <2>9, <3>1, <4>1, NewLocks DEF Doing
    <3>2. CASE Doing(c, "plan", 2)
      <4>1. PlanLocks(c)'
        BY <2>3, <2>8, <2>9, <2>10, <3>2 DEF PlanLocks, Doing
      <4> QED
        BY <2>9, <3>2, <4>1, NewLocks DEF Doing
    <3>3. CASE Doing(c, "slots", 3)
      <4>1. SlotsLocks(c)'
        BY <2>3, <2>8, <2>9, <2>10, <3>3 DEF SlotsLocks, Doing
      <4> QED
        BY <2>9, <3>3, <4>1, NewLocks DEF Doing
    <3>4. CASE Doing(c, "fine", 1)
      <4>1. AdminLocks(c)'
        BY <2>3, <2>8, <2>9, <2>10, <3>4 DEF AdminLocks, Doing
      <4> QED
        BY <2>9, <3>4, <4>1, NewLocks DEF Doing
    <3> QED
      BY <2>2, <3>1, <3>2, <3>3, <3>4
  <2>12. Knows(c)'
    <3>1. Doing(c, "slots", 3) => Priced(c)
      BY ClientFacts DEF Knows, Doing
    <3> QED
      BY <2>2, <2>8, <2>9, <3>1 DEF Knows, Doing, Priced, OwnSlots, Slots
  <2> QED
    BY <1>1, <2>1, <2>6, <2>7, <2>11, <2>12, InvWrites
<1>2. CASE Refuse(c)
  BY <1>2, InvRefuse
<1> QED
  BY <1>1, <1>2 DEF Debit, Own

LEMMA InvUsePromoCode ==
    ASSUME EconomyInv, NEW c \in Clients, UsePromoCode(c)
    PROVE  EconomyInv'
<1>1. CASE /\ Seen(c, Uses) < MaxUses /\ req[c].user \notin redeemed
           /\ Write(c, Uses, Seen(c, Uses) + 1) /\ GoOn(c, Next1(c))
  <2>1. At(c, "claim")
    BY DEF UsePromoCode
  <2>2. Doing(c, "promo", 1) /\ Uses \in Rows
    BY <2>1, AtMeans, ClientFacts, RowsApart
  <2>3. Held(c) = {}
    BY <2>2, ClientFacts DEF Locked, Doing
  <2>4. Seen(c, Uses) = db[Uses] /\ db[Uses] \in Nat
    BY <2>2, <2>3, ClientFacts DEF Seen, Held
  <2>5. Puts(c, Uses, db[Uses] + 1)
    BY <1>1, <2>4, WritePuts
  <2>6. /\ Held(c)' = {Uses} /\ newest'[Uses] = db[Uses] + 1
        /\ UNCHANGED <<db, redeemed, lapsed>>
    BY <2>2, <2>3, <2>4, <2>5, PutsRows, ClientFacts
  <2>7. /\ req'[c].op = "promo" /\ req'[c].at = 2 /\ req'[c].user = req[c].user
    BY <1>1, <2>1, <2>2, GoesOn DEF Doing
  <2>8. PromoLocks(c)'
    BY <1>1, <2>4, <2>6, <2>7 DEF PromoLocks, Doing, Counts, More, Uses
  <2>9. Locked(c)' /\ Knows(c)'
    BY <1>1, <2>6, <2>7, <2>8, NewLocks DEF Knows
  <2> QED
    BY <1>1, <2>1, <2>2, <2>4, <2>5, <2>9, InvWrites
<1>2. CASE Refuse(c)
  BY <1>2, InvRefuse
<1> QED
  BY <1>1, <1>2 DEF UsePromoCode

\* A statement that only reads leaves the locks as they are.
LEMMA InvPass ==
    ASSUME EconomyInv, NEW c \in Clients, NEW s \in Request, Pass(c, s),
           s.op = req[c].op, s.at > 0, s.user = req[c].user, Bearing(s),
           Locked(c)', Knows(c)'
    PROVE  EconomyInv'
BY InvMoves DEF Pass, GoOn, rowVars, tableVars

LEMMA InvBuyShopItem ==
    ASSUME EconomyInv, NEW c \in Clients, BuyShopItem(c)
    PROVE  EconomyInv'
<1>1. At(c, "stock")
  BY DEF BuyShopItem
<1>2. Doing(c, "shop", 1) /\ Stock \in Rows
  BY <1>1, AtMeans, ClientFacts, RowsApart
<1>3. Held(c) = {}
  BY <1>2, ClientFacts DEF Locked, Doing
<1>4. GoOn(c, Next1(c))
  BY DEF BuyShopItem, Pass
<1>5. req'[c].op = "shop" /\ req'[c].at = 2
  BY <1>1, <1>2, <1>4, GoesOn DEF Doing
<1>6. CASE Seen(c, Stock) >= 1 /\ Write(c, Stock, Seen(c, Stock) - 1)
  <2>1. Seen(c, Stock) - 1 \in Nat
    BY <1>2, <1>6, ClientFacts DEF Seen
  <2>2. Puts(c, Stock, Seen(c, Stock) - 1)
    BY <1>6, WritePuts
  <2>3. Held(c)' = {Stock}
    BY <1>2, <1>3, <2>1, <2>2, PutsRows, ClientFacts
  <2>4. ShopLocks(c)'
    BY <1>5, <2>3 DEF ShopLocks, Doing, Stock
  <2>5. Locked(c)' /\ Knows(c)'
    BY <1>5, <2>4, NewLocks DEF Knows
  <2> QED
    BY <1>1, <1>2, <1>4, <2>1, <2>2, <2>5, InvWrites
<1>7. CASE Pass(c, Next1(c))
  <2>1. Held(c)' = {}
    BY <1>3, <1>7 DEF Pass, rowVars, Held
  <2>2. ShopLocks(c)'
    BY <1>5, <2>1 DEF ShopLocks, Doing
  <2>3. Locked(c)' /\ Knows(c)'
    BY <1>5, <2>2, NewLocks DEF Knows
  <2>4. PICK n : n = Next1(c)
    OBVIOUS
  <2>5. n \in Request /\ n.op = req[c].op /\ n.at > 0 /\ n.user = req[c].user /\ Bearing(n)
    BY <1>1, <1>4, <2>4, GoesOn
  <2> QED
    BY <1>7, <2>3, <2>4, <2>5, InvPass
<1> QED
  BY <1>6, <1>7 DEF BuyShopItem

\* The row of slots grows to the size that is bought.
LEMMA InvUpsert ==
    ASSUME EconomyInv, NEW c \in Clients, Upsert(c)
    PROVE  EconomyInv'
<1> DEFINE r == OwnSlots(c)
           v == IF db[r] >= req[c].qty THEN db[r] ELSE req[c].qty
<1>1. At(c, "upsert") /\ GoOn(c, Next1(c))
  BY DEF Upsert
<1>2. (Doing(c, "slots", 4) \/ Doing(c, "paid", 2)) /\ r \in Rows /\ r # Own(c)
  BY <1>1, AtMeans, ClientFacts, RowsApart DEF Own, OwnSlots
<1>3. Held(c) = {Own(c)}
  BY <1>2, ClientFacts DEF Locked, SlotsLocks, PaidLocks, Doing
<1>4. Seen(c, r) = db[r] /\ v \in Nat
  BY <1>2, <1>3, ClientFacts DEF Seen, Held
<1>5. Puts(c, r, v)
  BY <1>4 DEF Upsert, Puts, OwnSlots
<1>6. /\ Held(c)' = {Own(c), r} /\ newest'[r] = v /\ newest'[Own(c)] = newest[Own(c)]
      /\ UNCHANGED <<db, redeemed, lapsed>>
  BY <1>2, <1>3, <1>4, <1>5, PutsRows, ClientFacts
<1>7. /\ req'[c].op = req[c].op /\ req'[c].at = req[c].at + 1 /\ req'[c].user = req[c].user
      /\ Own(c)' = Own(c) /\ OwnSlots(c)' = r /\ req'[c].yad = req[c].yad
      /\ req'[c].qty = req[c].qty
  BY <1>1, GoesOn
<1>8. Grown(OwnSlots(c), req[c].qty)'
  BY <1>6, <1>7 DEF Grown
<1>9. CASE Doing(c, "slots", 4)
  <2>1. Less(Own(c), req[c].yad) /\ Priced(c)
    BY <1>9, ClientFacts DEF Locked, SlotsLocks, Knows, Doing
  <2>2. Less(Own(c), req[c].yad)'
    BY <1>6, <1>7, <2>1 DEF Less
  <2>3. SlotsLocks(c)'
    BY <1>6, <1>7, <1>8, <1>9, <2>2 DEF SlotsLocks, Doing
  <2>4. Priced(c)'
    BY <1>6, <1>7, <2>1 DEF Priced
  <2>5. Locked(c)' /\ Knows(c)'
    BY <1>7, <1>9, <2>3, <2>4, NewLocks DEF Knows, Doing
  <2> QED
    BY <1>1, <1>2, <1>4, <1>5, <2>5, InvWrites
<1>10. CASE Doing(c, "paid", 2)
  <2>1. Same(Own(c))
    BY <1>10, ClientFacts DEF Locked, PaidLocks, Doing
  <2>2. Same(Own(c))'
    BY <1>6, <1>7, <2>1 DEF Same
  <2>3. PaidLocks(c)'
    BY <1>6, <1>7, <1>8, <1>10, <2>2 DEF PaidLocks, Doing
  <2>4. Locked(c)' /\ Knows(c)'
    BY <1>7, <1>10, <2>3, NewLocks DEF Knows, Doing
  <2> QED
    BY <1>1, <1>2, <1>4, <1>5, <2>4, InvWrites
<1> QED
  BY <1>2, <1>9, <1>10

\* The price of an upgrade, read through another connection.
LEMMA InvQuote ==
    ASSUME EconomyInv, NEW c \in Clients, Quote(c)
    PROVE  EconomyInv'
<1> DEFINE u == req[c].user
           q == req[c].qty
<1>1. At(c, "quote")
  BY DEF Quote
<1>2. Doing(c, "slots", 2)
  BY <1>1, AtMeans, ClientFacts
<1>3. CASE Active(u) < q /\ Pass(c, [Next1(c) EXCEPT !.yad = Difference(u, q)])
  <2>1. PICK e : e = Active(u)
    OBVIOUS
  <2>2. /\ db[OwnSlots(c)] \in Nat /\ q \in 1..2
        /\ e = IF u \in lapsed THEN 0 ELSE db[OwnSlots(c)]
    BY <2>1, ClientFacts DEF Active, OwnSlots
  <2>3. e \in 0..1 /\ e < q
    BY <1>3, <2>1, <2>2
  <2>4. Difference(u, q) = Price(q) - Price(e)
    BY <2>1 DEF Difference
  <2>5. Price(q) - Price(e) \in Nat
    <3>1. SlotPrice[1] \in Nat /\ SlotPrice[2] \in Nat /\ SlotPrice[1] <= SlotPrice[2]
      BY ConstantTypes
    <3>2. q \in {1, 2} /\ e \in {0, 1}
      BY <2>2, <2>3
    <3> QED
      BY <2>3, <3>1, <3>2 DEF Price
  <2>6. /\ Next1(c) \in Request /\ Next1(c).op = "slots" /\ Next1(c).at = 3
        /\ Next1(c).user = u /\ Next1(c).qty = q
    <3>1. /\ req[c].at \in DOMAIN Program[req[c].op]
          /\ Program[req[c].op][req[c].at] = "quote"
      BY <1>1 DEF At
    <3> QED
      BY <1>2, <3>1, NextFits, ClientFacts DEF Doing
  <2>7. PICK s : s = [Next1(c) EXCEPT !.yad = Difference(u, q)]
    OBVIOUS
  <2>8. /\ s \in Request /\ s.op = "slots" /\ s.at = 3 /\ s.user = u /\ s.qty = q
        /\ s.yad = Price(q) - Price(e)
    BY <2>4, <2>5, <2>6, <2>7 DEF Request
  <2>9. /\ req'[c] = s /\ UNCHANGED <<db, newest, holder, lapsed>>
    BY <1>3, <2>7, ClientFacts DEF Pass, GoOn, rowVars, tableVars, TypeOK
  <2>10. Own(c)' = Own(c) /\ OwnSlots(c)' = OwnSlots(c)
    BY <2>8, <2>9 DEF Own, OwnSlots, Balance, Slots
  <2>11. SlotsLocks(c)'
    <3>1. Held(c) = {Own(c)} /\ Same(Own(c))
      BY <1>2, ClientFacts DEF Locked, SlotsLocks
    <3>2. Held(c)' = {Own(c)} /\ Same(Own(c))'
      BY <2>9, <2>10, <3>1 DEF Held, Same
    <3> QED
      BY <2>8, <2>9, <2>10, <3>2 DEF SlotsLocks, Doing
  <2>12. Priced(c)'
    BY <2>2, <2>3, <2>8, <2>9, <2>10 DEF Priced
  <2>13. Locked(c)' /\ Knows(c)'
    BY <2>8, <2>9, <2>11, <2>12, NewLocks DEF Knows
  <2>14. Bearing(s)
    BY <2>8 DEF Bearing, Jobs, Last
  <2>15. s.op = req[c].op
    BY <1>2, <2>8 DEF Doing
  <2>16. Pass(c, s) /\ s.at > 0
    BY <1>3, <2>7, <2>8
  <2> QED
    BY <2>8, <2>13, <2>14, <2>15, <2>16, InvPass
<1>4. CASE Refuse(c)
  BY <1>4, InvRefuse
<1> QED
  BY <1>3, <1>4 DEF Quote

LEMMA InvCreateReferralReward ==
    ASSUME EconomyInv, NEW c \in Clients, CreateReferralReward(c)
    PROVE  EconomyInv'
<1>1. At(c, "note") /\ GoOn(c, Next1(c)) /\ Puts(c, Reward, Immediate) /\ Immediate \in Nat
  BY WritePuts DEF CreateReferralReward, Immediate
<1>2. Doing(c, "reward", 1) /\ Reward \in Rows
  BY <1>1, AtMeans, ClientFacts, RowsApart
<1>3. Held(c) = {} /\ db[Reward] = NoReward
  BY <1>2, ClientFacts DEF Locked, Doing, Knows
<1>4. /\ Held(c)' = {Reward} /\ newest'[Reward] = Immediate /\ UNCHANGED db
  BY <1>1, <1>2, <1>3, PutsRows, ClientFacts
<1>5. req'[c].op = "reward" /\ req'[c].at = 2
  BY <1>1, <1>2, GoesOn DEF Doing
<1>6. RewardLocks(c)'
  BY <1>4, <1>5 DEF RewardLocks, Doing, Reward, Immediate
<1>7. Locked(c)' /\ Knows(c)'
  BY <1>3, <1>4, <1>5, <1>6, NewLocks DEF Knows, Reward, NoReward
<1> QED
  BY <1>1, <1>2, <1>7, InvWrites

LEMMA InvDeleteDeviceExpansion ==
    ASSUME EconomyInv, NEW c \in Clients, DeleteDeviceExpansion(c)
    PROVE  EconomyInv'
<1> DEFINE r == OwnSlots(c)
<1>1. CASE Write(c, r, 0) /\ GoOn(c, Next1(c))
  <2>1. At(c, "delete") /\ Puts(c, r, 0)
    BY <1>1, WritePuts DEF DeleteDeviceExpansion
  <2>2. Doing(c, "revert", 2) /\ r \in Rows /\ r # Own(c)
    BY <2>1, AtMeans, ClientFacts, RowsApart DEF Own, OwnSlots
  <2>3. Held(c) = {Own(c)} /\ Same(Own(c))
    BY <2>2, ClientFacts DEF Locked, RevertLocks, Doing
  <2>4. /\ Held(c)' = {Own(c), r} /\ newest'[r] = 0 /\ UNCHANGED db
        /\ newest'[Own(c)] = newest[Own(c)]
    BY <2>1, <2>2, <2>3, PutsRows, ClientFacts
  <2>5. /\ req'[c].op = "revert" /\ req'[c].at = 3
        /\ Own(c)' = Own(c) /\ OwnSlots(c)' = r
    BY <1>1, <2>1, <2>2, GoesOn DEF Doing
  <2>6. RevertLocks(c)'
    BY <2>3, <2>4, <2>5 DEF RevertLocks, Doing, Same
  <2>7. Locked(c)' /\ Knows(c)'
    BY <2>5, <2>6, NewLocks DEF Knows
  <2> QED
    BY <1>1, <2>1, <2>2, <2>7, InvWrites
<1>2. CASE SerializationFailure(c)
  BY <1>2, InvSerializationFailure
<1> QED
  BY <1>1, <1>2 DEF DeleteDeviceExpansion, OwnSlots

LEMMA InvReclaim ==
    ASSUME EconomyInv, NEW c \in Clients, Reclaim(c)
    PROVE  EconomyInv'
<1>1. At(c, "reclaim")
  BY DEF Reclaim
<1>2. Doing(c, "revert", 3) /\ Reward \in Rows /\ Reward # Own(c) /\ Reward # OwnSlots(c)
  BY <1>1, AtMeans, ClientFacts, RowsApart DEF Own, OwnSlots
<1>3. Held(c) = {Own(c), OwnSlots(c)} /\ Same(Own(c)) /\ newest[OwnSlots(c)] = 0
  BY <1>2, ClientFacts DEF Locked, RevertLocks, Doing
<1>4. CASE /\ Seen(c, Reward) = Immediate /\ Write(c, Reward, Reverted)
           /\ GoOn(c, Next1(c))
  <2>1. Puts(c, Reward, Reverted) /\ Reverted \in Nat
    BY <1>4, WritePuts DEF Reverted
  <2>2. db[Reward] = Immediate
    BY <1>2, <1>3, <1>4 DEF Seen, Held
  <2>3. /\ Held(c)' = {Own(c), OwnSlots(c), Reward} /\ newest'[Reward] = Reverted
        /\ UNCHANGED db /\ newest'[Own(c)] = newest[Own(c)]
        /\ newest'[OwnSlots(c)] = newest[OwnSlots(c)]
    BY <1>2, <1>3, <2>1, PutsRows, ClientFacts
  <2>4. /\ req'[c].op = "revert" /\ req'[c].at = 4
        /\ Own(c)' = Own(c) /\ OwnSlots(c)' = OwnSlots(c)
    BY <1>1, <1>2, <1>4, GoesOn DEF Doing
  <2>5. RevertLocks(c)'
    BY <1>3, <2>2, <2>3, <2>4
       DEF RevertLocks, Doing, Same, TakesBack, Reward, Immediate, Reverted
  <2>6. Locked(c)' /\ Knows(c)'
    BY <2>4, <2>5, NewLocks DEF Knows
  <2> QED
    BY <1>1, <1>2, <1>4, <2>1, <2>6, InvWrites
<1>5. CASE Pass(c, [req[c] EXCEPT !.at = @ + 2])
  <2>1. PICK s : s = [req[c] EXCEPT !.at = @ + 2]
    OBVIOUS
  <2>2. /\ s \in Request /\ s.op = "revert" /\ s.at = 5 /\ s.user = req[c].user
        /\ req[c].op = "revert"
    BY <1>2, <2>1, ClientFacts DEF Request, Doing
  <2>3. req'[c] = s /\ UNCHANGED <<db, newest, holder>>
    BY <1>5, <2>1, ClientFacts DEF Pass, GoOn, rowVars, TypeOK
  <2>4. /\ Own(c)' = Own(c) /\ OwnSlots(c)' = OwnSlots(c)
        /\ Held(c)' = Held(c) /\ Same(Own(c))'
    BY <1>3, <2>2, <2>3 DEF Own, OwnSlots, Balance, Slots, Held, Same
  <2>5. RevertLocks(c)'
    BY <1>3, <2>2, <2>3, <2>4 DEF RevertLocks, Doing
  <2>6. Locked(c)' /\ Knows(c)'
    BY <2>2, <2>3, <2>5, NewLocks DEF Knows
  <2>7. Bearing(s)
    BY <2>2, ClientFacts DEF Bearing, Last
  <2>8. Pass(c, s) /\ s.op = req[c].op /\ s.at > 0
    BY <1>5, <2>1, <2>2
  <2> QED
    BY <2>2, <2>6, <2>7, <2>8, InvPass
<1> QED
  BY <1>4, <1>5 DEF Reclaim

\* The referrer may be the payer: then it is the row locked first.
LEMMA InvClawback ==
    ASSUME EconomyInv, NEW c \in Clients, Clawback(c)
    PROVE  EconomyInv'
<1> DEFINE r == Balance(Referrer)
<1>1. CASE Write(c, r, Clamped(Seen(c, r))) /\ GoOn(c, Next1(c))
  <2>1. At(c, "clawback")
    BY DEF Clawback
  <2>2. Doing(c, "revert", 4) /\ r \in Rows /\ r # OwnSlots(c) /\ r # Reward /\ Own(c) # Reward
    BY <2>1, AtMeans, ClientFacts, ConstantTypes, RowsApart DEF Own, OwnSlots
  <2>3. /\ Held(c) = {Own(c), OwnSlots(c), Reward} /\ Same(Own(c))
        /\ newest[OwnSlots(c)] = 0 /\ TakesBack
    BY <2>2, ClientFacts DEF Locked, RevertLocks, Doing
  <2>4. Seen(c, r) = db[r]
    BY <2>2, <2>3 DEF Seen, Held, Same
  <2>5. Clamped(db[r]) \in Nat
    BY <2>2, ClientFacts, ConstantTypes DEF Clamped
  <2>6. Puts(c, r, Clamped(db[r]))
    BY <1>1, <2>4, WritePuts
  <2>7. /\ Held(c)' = {Own(c), OwnSlots(c), Reward, r} /\ newest'[r] = Clamped(db[r])
        /\ UNCHANGED db
        /\ newest'[OwnSlots(c)] = newest[OwnSlots(c)] /\ newest'[Reward] = newest[Reward]
        /\ Own(c) # r => newest'[Own(c)] = newest[Own(c)]
    <3>1. Own(c) \in Rows /\ OwnSlots(c) \in Rows /\ Reward \in Rows
      BY ClientFacts, RowsApart
    <3> QED
      BY <2>2, <2>3, <2>5, <2>6, <3>1, PutsRows, ClientFacts
  <2>8. /\ req'[c].op = "revert" /\ req'[c].at = 5
        /\ Own(c)' = Own(c) /\ OwnSlots(c)' = OwnSlots(c)
    BY <1>1, <2>1, <2>2, GoesOn DEF Doing
  <2>9. /\ newest'[OwnSlots(c)'] = 0 /\ TakesBack' /\ Held(c)' = {Own(c)', OwnSlots(c)', Reward', r'}
        /\ newest'[r'] = Clamped(db[r])' /\ (Own(c) # r => Same(Own(c)))'
    BY <2>3, <2>7, <2>8 DEF TakesBack, Reward, Same, Balance, Clamped
  <2>10. RevertLocks(c)'
    BY <2>8, <2>9 DEF RevertLocks, Doing
  <2>11. Locked(c)' /\ Knows(c)'
    BY <2>8, <2>10, NewLocks DEF Knows
  <2> QED
    BY <1>1, <2>1, <2>2, <2>5, <2>6, <2>11, InvWrites
<1>2. CASE SerializationFailure(c)
  BY <1>2, InvSerializationFailure
<1> QED
  BY <1>1, <1>2 DEF Clawback

LEMMA InvBeginTx ==
    ASSUME EconomyInv, NEW c \in Clients, BeginTx(c)
    PROVE  EconomyInv'
<1>1. /\ req[c].op # "none" /\ req[c].at = 0 /\ Pass(c, Next1(c))
  BY DEF BeginTx, Pass
<1>2. PICK s : s = Next1(c)
  OBVIOUS
<1>3. /\ s \in Request /\ s.op = req[c].op /\ s.user = req[c].user /\ s.at = 1
      /\ s.yad = req[c].yad
  BY <1>1, <1>2, ClientFacts DEF Next1, Request
<1>4. req'[c] = s /\ UNCHANGED <<db, holder>>
  BY <1>1, <1>2, ClientFacts DEF Pass, GoOn, rowVars, TypeOK
<1>5. Held(c)' = {}
  BY <1>1, <1>4, ClientFacts DEF Locked, Held
<1>6. Locked(c)'
  BY <1>3, <1>4, <1>5
     DEF Locked, Doing, PromoLocks, ShopLocks, PlanLocks, SlotsLocks, PaidLocks,
         RewardLocks, RevertLocks, AdminLocks
<1>7. Knows(c)' /\ Bearing(s)
  BY <1>1, <1>3, <1>4, ClientFacts DEF Knows, Bearing, Reward, Last
<1> QED
  BY <1>1, <1>2, <1>3, <1>6, <1>7, InvPass

LEMMA InvTransactionFails ==
    ASSUME EconomyInv, NEW c \in Clients, TransactionFails(c)
    PROVE  EconomyInv'
BY InvRefuse, InvSerializationFailure DEF TransactionFails

-----------------------------------------------------------------------------
(* Slots run out and are removed.                                          *)

LEMMA InvRunOut ==
    ASSUME EconomyInv, NEW u \in Users, RunOut(u)
    PROVE  EconomyInv'
<1>1. /\ lapsed' = lapsed \cup {u}
      /\ UNCHANGED <<db, newest, holder, stale, req, redeemed, bought, begun, asked>>
  BY DEF RunOut, rowVars
<1>2. TypeOK'
  BY <1>1 DEF EconomyInv, TypeOK
<1>3. ASSUME NEW d \in Clients PROVE Bearing(req[d])' /\ Locked(d)' /\ Knows(d)'
  <2>1. Locked(d)'
    BY <1>1, ClientFacts, LockedStays DEF Undisturbed, Held
  <2>2. Bearing(req[d])' /\ Knows(d)'
    BY <1>1, ClientFacts DEF Bearing, Knows, Priced, OwnSlots, Slots, Reward
  <2> QED
    BY <2>1, <2>2
<1>4. OneReward' /\ UsesCounted'
  BY <1>1 DEF EconomyInv, OneReward, UsesCounted, Reward, Uses
<1> QED
  BY <1>2, <1>3, <1>4 DEF EconomyInv

\* The sweep removes a row that nobody holds.  An upgrade that discounts it
\* keeps its price.
LEMMA InvDeleteExpired ==
    ASSUME EconomyInv, NEW u \in Users, DeleteExpiredDeviceExpansions(u)
    PROVE  EconomyInv'
<1> DEFINE r == Slots(u)
<1>1. /\ db' = [db EXCEPT ![r] = 0] /\ newest' = [newest EXCEPT ![r] = 0]
      /\ holder[r] = NoOne /\ lapsed' = lapsed \ {u}
      /\ stale' = [c \in Clients |-> IF req[c].at = 0 THEN {} ELSE stale[c] \cup {r}]
      /\ UNCHANGED <<holder, req, redeemed, bought, begun, asked>>
  BY DEF DeleteExpiredDeviceExpansions
<1>2. r \in Rows /\ r # Uses /\ r # Reward /\ db \in [Rows -> Nat] /\ newest \in [Rows -> Nat]
  BY RowsApart DEF EconomyInv, TypeOK
<1>3. /\ db' \in [Rows -> Nat] /\ newest' \in [Rows -> Nat] /\ db'[r] = 0
      /\ \A s \in Rows \ {r} : db'[s] = db[s] /\ newest'[s] = newest[s]
  BY <1>1, <1>2
<1>4. TypeOK'
  <2>1. stale' \in [Clients -> SUBSET Rows]
    BY <1>1, <1>2 DEF EconomyInv, TypeOK
  <2> QED
    BY <1>1, <1>3, <2>1 DEF EconomyInv, TypeOK
<1>5. ASSUME NEW d \in Clients PROVE Bearing(req[d])' /\ Locked(d)' /\ Knows(d)'
  <2>1. r \notin Held(d)
    BY <1>1, ConstantTypes DEF Held
  <2>2. Locked(d)'
    BY <1>1, <1>3, <2>1, ClientFacts, LockedStays DEF Undisturbed, Held
  <2>3. OwnSlots(d)' = OwnSlots(d) /\ req'[d] = req[d]
    BY <1>1 DEF OwnSlots, Slots
  <2>4. ASSUME Priced(d) PROVE Priced(d)'
    <3>1. PICK e \in 0..1 :
            /\ e < req[d].qty
            /\ req[d].yad = Price(req[d].qty) - Price(e)
            /\ \/ e = db[OwnSlots(d)]
               \/ e = 0 /\ req[d].user \in lapsed
               \/ db[OwnSlots(d)] = 0 /\ req[d].yad < Price(req[d].qty)
      BY <2>4 DEF Priced
    <3>2. CASE req[d].user # u
      <4>1. OwnSlots(d) \in Rows \ {r}
        BY <3>2, ClientFacts, RowsApart DEF OwnSlots
      <4> QED
        BY <1>1, <1>3, <2>3, <3>1, <3>2, <4>1 DEF Priced
    <3>3. CASE req[d].user = u /\ e = 0
      BY <1>3, <2>3, <3>1, <3>3 DEF Priced, OwnSlots
    <3>4. CASE req[d].user = u /\ e = 1
      <4>1. /\ db'[OwnSlots(d)'] = 0 /\ req[d].qty = 2
            /\ req[d].yad = SlotPrice[2] - SlotPrice[1]
            /\ SlotPrice[1] \in Nat /\ SlotPrice[2] \in Nat
            /\ Price(2) = SlotPrice[2] /\ Price(0) = 0
        BY <1>3, <2>3, <3>1, <3>4, ClientFacts, ConstantTypes DEF Price, OwnSlots
      <4>2. CASE SlotPrice[1] = 0
        <5>1. /\ 0 \in 0..1 /\ 0 < req'[d].qty
              /\ req'[d].yad = Price(req'[d].qty) - Price(0) /\ 0 = db'[OwnSlots(d)']
          BY <2>3, <4>1, <4>2
        <5> QED
          BY <5>1 DEF Priced, Price
      <4>3. CASE SlotPrice[1] # 0
        <5>1. req'[d].yad < Price(req'[d].qty) /\ db'[OwnSlots(d)'] = 0
          BY <2>3, <4>1, <4>3
        <5> QED
          BY <2>3, <3>1, <5>1 DEF Priced, Price
      <4> QED
        BY <4>2, <4>3
    <3> QED
      BY <3>1, <3>2, <3>3, <3>4
  <2>5. Reward \in Rows \ {r}
    BY <1>2, RowsApart
  <2>6. Bearing(req[d])' /\ Knows(d)'
    BY <1>1, <1>3, <2>3, <2>4, <2>5, ClientFacts DEF Bearing, Knows, Reward
  <2> QED
    BY <2>2, <2>6
<1>6. OneReward' /\ UsesCounted'
  <2>1. Reward \in Rows \ {r} /\ Uses \in Rows \ {r}
    BY <1>2, RowsApart
  <2> QED
    BY <1>1, <1>3, <2>1 DEF EconomyInv, OneReward, UsesCounted, Reward, Uses
<1> QED
  BY <1>4, <1>5, <1>6 DEF EconomyInv

-----------------------------------------------------------------------------
(* COMMIT.                                                                 *)

\* Which rows each program has locked by its commit.
LEMMA CommitHolds ==
    ASSUME EconomyInv, NEW c \in Clients, AtCommit(c)
    PROVE  /\ req[c].op # "none"
           /\ Uses \in Held(c) <=> req[c].op = "promo"
           /\ req[c].op = "promo" => newest[Uses] = db[Uses] + 1 /\ db[Uses] < MaxUses
           /\ Reward \in Held(c) => \/ req[c].op = "reward"
                                    \/ req[c].op = "revert" /\ db[Reward] = Immediate
           /\ \A v \in Users : Slots(v) \in Held(c) =>
                v = req[c].user /\ Own(c) \in Held(c) /\ req[c].op \in {"slots", "paid", "revert"}
           /\ req[c].op \in {"slots", "paid", "revert"} => OwnSlots(c) \in Held(c)
<1>1. \/ Doing(c, "none", 1) \/ Doing(c, "promo", 3)
      \/ Doing(c, "shop", 3) \/ Doing(c, "plan", 3)
      \/ Doing(c, "slots", 5) \/ Doing(c, "paid", 3)
      \/ Doing(c, "reward", 3) \/ Doing(c, "revert", 5)
      \/ Doing(c, "gift", 2) \/ Doing(c, "fine", 2)
  BY AtMeans, ClientFacts
<1>2. /\ ~Doing(c, "none", 1) /\ req[c].user \in Users
      /\ Own(c) = Balance(req[c].user) /\ OwnSlots(c) = Slots(req[c].user)
  BY ClientFacts DEF Bearing, Doing, Own, OwnSlots
<1>3. CASE Doing(c, "promo", 3)
  <2>1. Held(c) = {Uses, Own(c)} /\ Counts
    BY <1>3, ClientFacts DEF Locked, PromoLocks
  <2> QED
    BY <1>2, <1>3, <2>1, RowsApart DEF Doing, Counts, More
<1>4. CASE Doing(c, "shop", 3)
  <2>1. Held(c) \subseteq {Stock, Own(c)}
    BY <1>4, ClientFacts DEF Locked, ShopLocks
  <2> QED
    BY <1>2, <1>4, <2>1, RowsApart DEF Doing
<1>5. CASE Doing(c, "plan", 3) \/ Doing(c, "gift", 2) \/ Doing(c, "fine", 2)
  <2>1. Held(c) = {Own(c)}
    BY <1>5, ClientFacts DEF Locked, PlanLocks, AdminLocks
  <2> QED
    BY <1>2, <1>5, <2>1, RowsApart DEF Doing
<1>6. CASE Doing(c, "slots", 5) \/ Doing(c, "paid", 3)
  <2>1. Held(c) = {Own(c), OwnSlots(c)}
    BY <1>6, ClientFacts DEF Locked, SlotsLocks, PaidLocks
  <2> QED
    BY <1>2, <1>6, <2>1, RowsApart DEF Doing
<1>7. CASE Doing(c, "reward", 3)
  <2>1. Held(c) = {Reward, Balance(Referrer)}
    BY <1>7, ClientFacts DEF Locked, RewardLocks
  <2> QED
    BY <1>2, <1>7, <2>1, ConstantTypes, RowsApart DEF Doing
<1>8. CASE Doing(c, "revert", 5)
  <2>1. \/ Held(c) = {Own(c), OwnSlots(c)}
        \/ /\ Held(c) = {Own(c), OwnSlots(c), Reward, Balance(Referrer)}
           /\ db[Reward] = Immediate
    BY <1>8, ClientFacts DEF Locked, RevertLocks, TakesBack
  <2> QED
    BY <1>2, <1>8, <2>1, ConstantTypes, RowsApart DEF Doing
<1> QED
  BY <1>1, <1>2, <1>3, <1>4, <1>5, <1>6, <1>7, <1>8

LEMMA CommitRows ==
    ASSUME EconomyInv, NEW c \in Clients, Commit(c)
    PROVE  /\ AtCommit(c)
           /\ db' \in [Rows -> Nat]
           /\ \A r \in Held(c) : db'[r] = newest[r]
           /\ \A r \in Rows \ Held(c) : db'[r] = db[r]
           /\ Held(c)' = {}
           /\ \A d \in Clients \ {c} : Undisturbed(d)
           /\ req' = [req EXCEPT ![c] = Idle] /\ req'[c] = Idle
           /\ UNCHANGED <<newest, begun, asked>>
           /\ holder' \in [Rows -> Clients \cup {NoOne}]
           /\ stale' \in [Clients -> SUBSET Rows]
           /\ redeemed' = IF req[c].op = "promo" THEN redeemed \cup {req[c].user} ELSE redeemed
           /\ lapsed' = IF OwnSlots(c) \in Held(c) THEN lapsed \ {req[c].user} ELSE lapsed
<1>1. /\ AtCommit(c)
      /\ db' = [r \in Rows |-> IF holder[r] = c THEN newest[r] ELSE db[r]]
      /\ holder' = [r \in Rows |-> IF holder[r] = c THEN NoOne ELSE holder[r]]
      /\ stale' = [d \in Clients |->
                        IF d = c \/ req[d].at = 0 THEN {} ELSE stale[d] \cup Held(c)]
      /\ req' = [req EXCEPT ![c] = Idle] /\ UNCHANGED <<newest, begun, asked>>
      /\ redeemed' = IF req[c].op = "promo" THEN redeemed \cup {req[c].user} ELSE redeemed
      /\ lapsed' = IF OwnSlots(c) \in Held(c) THEN lapsed \ {req[c].user} ELSE lapsed
  BY DEF Commit, GoOn, OwnSlots
<1>2. TypeOK /\ req'[c] = Idle /\ \A d \in Clients \ {c} : req'[d] = req[d]
  BY <1>1 DEF EconomyInv, TypeOK
<1>3. db' \in [Rows -> Nat] /\ holder' \in [Rows -> Clients \cup {NoOne}]
  BY <1>1, <1>2 DEF TypeOK
<1>4. stale' \in [Clients -> SUBSET Rows]
  <2>1. Held(c) \subseteq Rows
    BY DEF Held
  <2> QED
    BY <1>1, <1>2, <2>1 DEF TypeOK
<1>5. /\ \A r \in Held(c) : db'[r] = newest[r]
      /\ \A r \in Rows \ Held(c) : db'[r] = db[r]
  BY <1>1 DEF Held
<1>6. Held(c)' = {} /\ \A d \in Clients \ {c} : Undisturbed(d)
  BY <1>1, <1>2, ConstantTypes DEF Held, Undisturbed
<1> QED
  BY <1>1, <1>2, <1>3, <1>4, <1>5, <1>6

LEMMA BoughtType ==
    ASSUME EconomyInv, NEW c \in Clients, Commit(c)
    PROVE  /\ bought' \in [Users -> [items : Nat, plans : Nat]]
           /\ req[c].op = "shop" => bought' = [bought EXCEPT ![req[c].user].items = @ + 1]
           /\ req[c].op = "plan" => bought' = [bought EXCEPT ![req[c].user].plans = @ + 1]
           /\ req[c].op \notin {"shop", "plan"} => bought' = bought
<1> DEFINE u == req[c].user
           B == [items : Nat, plans : Nat]
           i == IF req[c].op = "shop" THEN 1 ELSE 0
           j == IF req[c].op = "plan" THEN 1 ELSE 0
<1>1. bought \in [Users -> B] /\ bought[u] \in B /\ u \in Users
  BY ClientFacts DEF TypeOK
<1>2. bought' = [bought EXCEPT ![u].items = @ + i, ![u].plans = @ + j]
  BY DEF Commit
<1>3. bought' = [bought EXCEPT ![u] =
                    [items |-> bought[u].items + i, plans |-> bought[u].plans + j]]
  <2>1. PICK b : b = [bought EXCEPT ![u] = [items |-> bought[u].items + i, plans |-> bought[u].plans]]
    OBVIOUS
  <2>2. [bought[u] EXCEPT !.items = @ + i] = [items |-> bought[u].items + i, plans |-> bought[u].plans]
    BY <1>1
  <2>3. [bought EXCEPT ![u].items = @ + i] = b
    BY <1>1, <2>1, <2>2
  <2>4. /\ b[u] = [items |-> bought[u].items + i, plans |-> bought[u].plans]
        /\ b \in [Users -> B]
    BY <1>1, <2>1
  <2>5. bought' = [b EXCEPT ![u].plans = @ + j]
    BY <1>2, <2>3, <2>4, <1>1
  <2>6. [b[u] EXCEPT !.plans = @ + j] = [items |-> bought[u].items + i, plans |-> bought[u].plans + j]
    BY <1>1, <2>4
  <2>7. bought' = [b EXCEPT ![u] = [items |-> bought[u].items + i, plans |-> bought[u].plans + j]]
    BY <2>4, <2>5, <2>6
  <2> QED
    BY <1>1, <2>1, <2>7
<1>4. [items |-> bought[u].items + i, plans |-> bought[u].plans + j] \in B
  BY <1>1
<1>5. bought' \in [Users -> B]
  BY <1>1, <1>3, <1>4
<1>6. CASE req[c].op = "shop"
  <2>1. [items |-> bought[u].items + i, plans |-> bought[u].plans + j]
            = [bought[u] EXCEPT !.items = @ + 1]
    BY <1>1, <1>6
  <2> QED
    BY <1>1, <1>3, <1>5, <1>6, <2>1
<1>7. CASE req[c].op = "plan"
  <2>1. [items |-> bought[u].items + i, plans |-> bought[u].plans + j]
            = [bought[u] EXCEPT !.plans = @ + 1]
    BY <1>1, <1>7
  <2> QED
    BY <1>1, <1>3, <1>5, <1>7, <2>1
<1>8. CASE req[c].op \notin {"shop", "plan"}
  <2>1. [items |-> bought[u].items + i, plans |-> bought[u].plans + j] = bought[u]
    BY <1>1, <1>8
  <2> QED
    BY <1>1, <1>3, <1>5, <1>8, <2>1
<1> QED
  BY <1>6, <1>7, <1>8

\* An upgrade under way has the user's row locked, and so nobody else can
\* commit a change of that user's slots.
LEMMA CommitApart ==
    ASSUME EconomyInv, NEW c \in Clients, AtCommit(c), NEW d \in Clients \ {c},
           req[d].op = "slots", req[d].at > 1
    PROVE  /\ OwnSlots(d) \notin Held(c)
           /\ OwnSlots(c) \in Held(c) => req[d].user # req[c].user
<1>1. Own(d) \in Held(d)
  <2>1. Doing(d, "slots", 2) \/ Doing(d, "slots", 3) \/ Doing(d, "slots", 4) \/ Doing(d, "slots", 5)
    BY ClientFacts DEF Doing
  <2> QED
    BY <2>1, ClientFacts DEF Locked, SlotsLocks
<1>2. Own(d) \notin Held(c)
  BY <1>1, HeldApart
<1>3. ASSUME NEW v \in Users, Slots(v) \in Held(c) PROVE req[d].user # v
  BY <1>2, <1>3, CommitHolds DEF Own
<1> QED
  BY <1>3, ClientFacts DEF OwnSlots

LEMMA InvCommit ==
    ASSUME EconomyInv, NEW c \in Clients, Commit(c)
    PROVE  EconomyInv'
<1> DEFINE u == req[c].user
<1>1. /\ AtCommit(c) /\ u \in Users
      /\ UNCHANGED <<newest, begun, asked>>
      /\ redeemed' = IF req[c].op = "promo" THEN redeemed \cup {u} ELSE redeemed
      /\ lapsed' = IF OwnSlots(c) \in Held(c) THEN lapsed \ {u} ELSE lapsed
      /\ req' = [req EXCEPT ![c] = Idle] /\ req'[c] = Idle
      /\ Held(c)' = {}
  BY CommitRows, ClientFacts
<1>2. /\ \A r \in Held(c) : db'[r] = newest[r]
      /\ \A r \in Rows \ Held(c) : db'[r] = db[r]
  BY CommitRows
<1>3. Idle \in Request /\ Idle.at = 0 /\ Idle.op = "none"
  BY ConstantTypes, Programs DEF Idle, Request, OpNames
<1>4. TypeOK'
  <2>1. /\ db' \in [Rows -> Nat] /\ holder' \in [Rows -> Clients \cup {NoOne}]
        /\ stale' \in [Clients -> SUBSET Rows]
    BY CommitRows
  <2>2. bought' \in [Users -> [items : Nat, plans : Nat]]
    BY BoughtType
  <2>3. req' \in [Clients -> Request]
    BY <1>1, <1>3 DEF EconomyInv, TypeOK
  <2>4. redeemed' \in SUBSET Users /\ lapsed' \in SUBSET Users
    BY <1>1 DEF EconomyInv, TypeOK
  <2> QED
    BY <1>1, <2>1, <2>2, <2>3, <2>4 DEF EconomyInv, TypeOK
<1>5. Reward \in Held(c) => /\ \A d \in Clients \ {c} : req[d].op # "reward"
                            /\ "reward" \in begun
  <2>1. CASE req[c].op = "reward"
    BY <2>1, ClientFacts DEF EconomyInv, OneReward, Bearing, Jobs
  <2>2. CASE db[Reward] = Immediate
    BY <2>2 DEF EconomyInv, OneReward, Knows, Immediate, NoReward
  <2> QED
    BY <1>1, <2>1, <2>2, CommitHolds
<1>6. Reward \in Rows /\ Uses \in Rows
  BY RowsApart
<1>7. ASSUME NEW d \in Clients \ {c} PROVE Bearing(req[d])' /\ Locked(d)' /\ Knows(d)'
  <2>1. Undisturbed(d) /\ req'[d] = req[d]
    BY CommitRows DEF Undisturbed
  <2>2. Locked(d)'
    BY <2>1, ClientFacts, LockedStays
  <2>3. Bearing(req[d])'
    BY <1>1, <2>1, ClientFacts DEF Bearing
  <2>4. ASSUME req[d].op = "promo", req[d].at > 1 PROVE req[d].user \notin redeemed'
    <3>1. Doing(d, "promo", 2) \/ Doing(d, "promo", 3)
      BY <2>4, ClientFacts DEF Bearing, Last, Doing
    <3>2. Uses \in Held(d)
      BY <3>1, ClientFacts DEF Locked, PromoLocks
    <3>3. req[c].op # "promo"
      BY <1>1, <3>2, HeldApart, CommitHolds
    <3> QED
      BY <1>1, <2>4, <3>3, ClientFacts DEF Knows
  <2>5. ASSUME req[d].op = "slots", req[d].at > 2 PROVE Priced(d)'
    <3>1. /\ OwnSlots(d) \notin Held(c) /\ OwnSlots(d) \in Rows
          /\ OwnSlots(c) \in Held(c) => req[d].user # u
      BY <1>1, <2>5, CommitApart, ClientFacts
    <3>2. /\ db'[OwnSlots(d)] = db[OwnSlots(d)] /\ OwnSlots(d)' = OwnSlots(d)
          /\ req[d].user \in lapsed => req[d].user \in lapsed'
      BY <1>1, <1>2, <2>1, <3>1 DEF OwnSlots, Slots
    <3>3. Priced(d)
      BY <2>5, ClientFacts DEF Knows
    <3> QED
      BY <2>1, <3>2, <3>3 DEF Priced
  <2>6. ASSUME req[d].op = "reward" PROVE db'[Reward] = NoReward
    BY <1>2, <1>5, <1>6, <2>6, ClientFacts DEF Knows
  <2> QED
    BY <2>1, <2>2, <2>3, <2>4, <2>5, <2>6 DEF Knows, Reward, NoReward
<1>8. Bearing(req[c])' /\ Locked(c)' /\ Knows(c)'
  <2>1. Bearing(req[c])' /\ Knows(c)'
    BY <1>1, <1>3 DEF Bearing, Knows, Jobs, Last
  <2> QED
    BY <1>1, <1>3, <2>1
       DEF Locked, Doing, PromoLocks, ShopLocks, PlanLocks, SlotsLocks, PaidLocks,
           RewardLocks, RevertLocks, AdminLocks
<1>9. OneReward'
  <2>1. \A d \in Clients : req'[d] = req[d] \/ req'[d].op = "none"
    BY <1>1, <1>3 DEF EconomyInv, TypeOK
  <2>2. "reward" \notin begun => db'[Reward] = NoReward
    BY <1>2, <1>5, <1>6 DEF EconomyInv, OneReward
  <2> QED
    BY <1>1, <2>1, <2>2 DEF EconomyInv, OneReward, Reward, NoReward
<1>10. UsesCounted'
  <2>1. CASE req[c].op = "promo"
    <3>1. req[c].at # 0 /\ req[c].at # 1
      BY <1>1, <2>1, AtMeans, ClientFacts DEF Doing
    <3>2. u \notin redeemed
      BY <2>1, <3>1, ClientFacts DEF Knows
    <3>3. db'[Uses] = db[Uses] + 1
      BY <1>1, <1>2, <2>1, CommitHolds
    <3>4. IsFiniteSet(redeemed') /\ Cardinality(redeemed') = Cardinality(redeemed) + 1
      BY <1>1, <2>1, <3>2, FS_AddElement DEF EconomyInv, UsesCounted
    <3> QED
      BY <3>3, <3>4 DEF EconomyInv, UsesCounted, Uses
  <2>2. CASE req[c].op # "promo"
    BY <1>1, <1>2, <1>6, <2>2, CommitHolds DEF EconomyInv, UsesCounted, Uses
  <2> QED
    BY <2>1, <2>2
<1> QED
  BY <1>4, <1>7, <1>8, <1>9, <1>10 DEF EconomyInv

LEMMA InvNext == EconomyInv /\ [Next]_vars => EconomyInv'
<1> SUFFICES ASSUME EconomyInv, [Next]_vars PROVE EconomyInv'
  OBVIOUS
<1>1. ASSUME NEW c \in Clients, Statement(c) PROVE EconomyInv'
  BY <1>1, InvLockUserForUpdate, InvCredit, InvDebit, InvUsePromoCode, InvBuyShopItem, InvQuote,
     InvUpsert, InvCreateReferralReward, InvDeleteDeviceExpansion, InvReclaim, InvClawback
     DEF Statement
<1>2. ASSUME NEW c \in Clients, Arrive(c) \/ Serve(c) \/ TransactionFails(c) PROVE EconomyInv'
  BY <1>1, <1>2, InvArrive, InvBeginTx, InvCommit, InvTransactionFails DEF Serve
<1>3. ASSUME NEW u \in Users, RunOut(u) \/ DeleteExpiredDeviceExpansions(u) PROVE EconomyInv'
  BY <1>3, InvRunOut, InvDeleteExpired
<1>4. CASE UNCHANGED vars
  <2>1. UNCHANGED <<db, newest, holder, stale, req, redeemed, bought, lapsed, begun, asked>>
    BY <1>4 DEF vars, rowVars, tableVars
  <2>2. TypeOK'
    BY <2>1 DEF EconomyInv, TypeOK
  <2>3. ASSUME NEW d \in Clients PROVE Bearing(req[d])' /\ Locked(d)' /\ Knows(d)'
    <3>1. Locked(d)'
      BY <2>1, ClientFacts, LockedStays DEF Undisturbed, Held
    <3>2. Bearing(req[d])' /\ Knows(d)'
      BY <2>1, ClientFacts DEF Bearing, Knows, Priced, OwnSlots, Slots, Reward
    <3> QED
      BY <3>1, <3>2
  <2>4. OneReward' /\ UsesCounted'
    BY <2>1 DEF EconomyInv, OneReward, UsesCounted, Reward, Uses
  <2> QED
    BY <2>2, <2>3, <2>4 DEF EconomyInv
<1> QED
  BY <1>2, <1>3, <1>4 DEF Next

\* Every state of the economy is well typed: no balance, stock or size is ever
\* below zero, under every interleaving of statements, lock waits and retries.
THEOREM EconomyTypes == Spec => []TypeOK
<1>1. EconomyInv => TypeOK
  BY DEF EconomyInv
<1> QED
  BY <1>1, InvInit, InvNext, PTL DEF Spec

-----------------------------------------------------------------------------
(* What commits is a sequence of deals of Purse.                           *)

Balances == [u \in Users |-> db[Balance(u)]]
SlotRows == [u \in Users |-> db[Slots(u)]]

\* The two modules count alike.
LEMMA OneCardinality == \A S : Promised!Cardinality(S) = Cardinality(S)
BY Zenon DEF Promised!Cardinality, Cardinality

LEMMA PurseInit == Init => Promised!Init
<1> SUFFICES ASSUME Init PROVE Promised!Init
  OBVIOUS
<1>1. PICK purse \in [Users -> Opening] :
        db = [r \in Rows |-> IF r[1] = "balance" THEN purse[r[2]]
                             ELSE IF r = Stock THEN Shelf ELSE 0]
  BY DEF Init
<1>2. \A u \in Users : db[Balance(u)] = purse[u] /\ db[Slots(u)] = 0
  <2>1. ASSUME NEW u \in Users PROVE Balance(u)[1] = "balance" /\ Balance(u)[2] = u
                                     /\ Slots(u)[1] # "balance" /\ Slots(u) # Stock
    BY DEF Balance, Slots, Stock
  <2> QED
    BY <1>1, <2>1, RowsApart
<1>3. db[Uses] = 0 /\ db[Reward] = 0
  BY <1>1, RowsApart DEF Uses, Reward
<1>4. Balances \in [Users -> Opening] /\ SlotRows = [u \in Users |-> 0]
  BY <1>2 DEF Balances, SlotRows
<1>5. Swept = {}
  BY DEF Init, Idle, Swept
<1>6. redeemed = {} /\ lapsed = {} /\ bought = [u \in Users |-> [items |-> 0, plans |-> 0]]
  BY DEF Init
<1> QED
  BY <1>3, <1>4, <1>5, <1>6 DEF Promised!Init, Promised!NoReward, Balances, SlotRows

\* An upgrade of a user whose slots were swept ends, or nothing happens.
LEMMA PurseForgets ==
    ASSUME UNCHANGED <<db, redeemed, bought, lapsed>>, Swept' \subseteq Swept
    PROVE  Promised!Next \/ UNCHANGED Promised!vars
<1>1. /\ Balances' = Balances /\ SlotRows' = SlotRows
      /\ db[Uses]' = db[Uses] /\ db[Reward]' = db[Reward]
  BY DEF Balances, SlotRows, Balance, Slots, Uses, Reward
<1>2. CASE Swept' = Swept
  BY <1>1, <1>2 DEF Promised!vars, Balances, SlotRows
<1>3. CASE Swept' # Swept
  <2>1. PICK u \in Swept : u \notin Swept'
    BY <1>3
  <2>2. u \in Users
    BY DEF Swept
  <2>3. Promised!Forget(u)
    BY <1>1, <2>1 DEF Promised!Forget, Balances, SlotRows
  <2> QED
    BY <2>2, <2>3 DEF Promised!Next, Promised!Deal
<1> QED
  BY <1>2, <1>3

\* An upgrade has its price, and it is not one that discounts what was swept.
FairlyPriced(q) == q.op = "slots" /\ q.at > 2 /\ db[Slots(q.user)] = 0 => q.yad >= Price(q.qty)

\* A client goes on, with the same upgrade or with none that was cheapened.
LEMMA SweptShrinks ==
    ASSUME EconomyInv, NEW c \in Clients, UNCHANGED db,
           NEW s, s.user \in Users, s.qty \in 1..2, s.yad \in Nat,
           req' = [req EXCEPT ![c] = s],
           \/ FairlyPriced(s)
           \/ /\ req[c].op = "slots" /\ req[c].at > 2
              /\ s.user = req[c].user /\ s.qty = req[c].qty /\ s.yad = req[c].yad
    PROVE  Swept' \subseteq Swept
<1> SUFFICES ASSUME NEW u \in Swept' PROVE u \in Swept
  OBVIOUS
<1>1. req'[c] = s /\ \A d \in Clients \ {c} : req'[d] = req[d]
  BY DEF EconomyInv, TypeOK
<1>2. PICK d \in Clients : /\ req'[d].op = "slots" /\ req'[d].user = u /\ req'[d].at > 2
                           /\ db[Slots(u)] = 0 /\ req'[d].yad < Price(req'[d].qty)
  BY DEF Swept, Slots, Price
<1>3. u \in Users
  BY DEF Swept
<1>4. CASE d # c
  BY <1>1, <1>2, <1>3, <1>4 DEF Swept
<1>5. CASE d = c
  <2>1. s.yad < Price(s.qty) /\ Price(s.qty) \in Nat
    BY <1>1, <1>2, <1>5, ConstantTypes DEF Price
  <2>2. ~FairlyPriced(s)
    BY <1>1, <1>2, <1>5, <2>1 DEF FairlyPriced
  <2> QED
    BY <1>1, <1>2, <1>3, <1>5, <2>2 DEF Swept
<1> QED
  BY <1>4, <1>5

LEMMA PurseRollback ==
    ASSUME EconomyInv, NEW c \in Clients, NEW s \in Request, Rollback(c, s), s.at = 0
    PROVE  Promised!Next \/ UNCHANGED Promised!vars
<1>1. /\ UNCHANGED <<db, redeemed, bought, lapsed>> /\ req' = [req EXCEPT ![c] = s]
      /\ s.user \in Users /\ s.qty \in 1..2 /\ s.yad \in Nat /\ FairlyPriced(s)
  BY DEF Rollback, GoOn, tableVars, Request, FairlyPriced
<1> QED
  BY <1>1, SweptShrinks, PurseForgets

LEMMA PurseFails ==
    ASSUME EconomyInv, NEW c \in Clients, Refuse(c) \/ SerializationFailure(c)
    PROVE  Promised!Next \/ UNCHANGED Promised!vars
<1>1. Idle \in Request /\ Idle.at = 0
  BY ConstantTypes, Programs DEF Idle, Request, OpNames
<1>2. CASE Rollback(c, Idle)
  BY <1>1, <1>2, PurseRollback
<1>3. CASE /\ req[c].tries < MaxAttempts - 1
           /\ Rollback(c, [req[c] EXCEPT !.at = 0, !.tries = @ + 1])
  <2>1. req[c] \in Request
    BY ClientFacts
  <2>2. req[c].tries + 1 \in 0..MaxAttempts
    BY <1>3, <2>1, ConstantTypes DEF Request
  <2>3. PICK s : s = [req[c] EXCEPT !.at = 0, !.tries = @ + 1]
    OBVIOUS
  <2>4. s = [op |-> req[c].op, user |-> req[c].user, qty |-> req[c].qty, at |-> 0,
             yad |-> req[c].yad, tries |-> req[c].tries + 1]
    BY <2>1, <2>3 DEF Request
  <2>5. s \in Request /\ s.at = 0
    BY <2>1, <2>2, <2>4 DEF Request
  <2>6. Rollback(c, s)
    BY <1>3, <2>3
  <2> QED
    BY <2>5, <2>6, PurseRollback
<1> QED
  BY <1>2, <1>3 DEF Refuse, SerializationFailure

LEMMA PurseArrive ==
    ASSUME EconomyInv, NEW c \in Clients, NEW op, NEW u \in Users, NEW q \in 1..2, NEW y \in Nat,
           Asks(c, op, u, q, y)
    PROVE  Promised!Next \/ UNCHANGED Promised!vars
<1>1. PICK s : s = [op |-> op, user |-> u, qty |-> q, at |-> 0, yad |-> y, tries |-> 0]
  OBVIOUS
<1>2. /\ UNCHANGED <<db, redeemed, bought, lapsed>> /\ req' = [req EXCEPT ![c] = s]
      /\ s.user \in Users /\ s.qty \in 1..2 /\ s.yad \in Nat /\ FairlyPriced(s)
  BY <1>1 DEF Asks, GoOn, rowVars, tableVars, FairlyPriced
<1> QED
  BY <1>2, SweptShrinks, PurseForgets

\* No statement changes what is committed.
LEMMA PurseGoesOn ==
    ASSUME EconomyInv, NEW c \in Clients, NEW x, At(c, x), x # "quote", GoOn(c, Next1(c)),
           UNCHANGED <<db, redeemed, bought, lapsed>>
    PROVE  Promised!Next \/ UNCHANGED Promised!vars
<1>1. PICK s : s = Next1(c)
  OBVIOUS
<1>2. /\ s \in Request /\ req' = [req EXCEPT ![c] = s] /\ s.op = req[c].op
      /\ s.user = req[c].user /\ s.qty = req[c].qty /\ s.yad = req[c].yad
      /\ s.at = req[c].at + 1 /\ req[c].at \in 1..4
  BY <1>1, GoesOn, ClientFacts DEF At, Next1, Request
<1>3. CASE s.op = "slots" /\ s.at > 2
  <2>1. req[c].at # 2
    BY <1>2, <1>3, Programs DEF At
  <2>2. req[c].op = "slots" /\ req[c].at > 2
    BY <1>2, <1>3, <2>1
  <2>3. s.user \in Users /\ s.qty \in 1..2 /\ s.yad \in Nat
    BY <1>2, ClientFacts
  <2>4. Swept' \subseteq Swept
    BY <1>2, <2>2, <2>3, SweptShrinks
  <2> QED
    BY <2>4, PurseForgets
<1>4. CASE ~(s.op = "slots" /\ s.at > 2)
  <2>1. FairlyPriced(s)
    BY <1>4 DEF FairlyPriced
  <2> QED
    BY <1>2, <2>1, SweptShrinks, PurseForgets, ClientFacts
<1> QED
  BY <1>3, <1>4

LEMMA PurseStatement ==
    ASSUME EconomyInv, NEW c \in Clients, Statement(c)
    PROVE  Promised!Next \/ UNCHANGED Promised!vars
<1>1. CASE Refuse(c) \/ SerializationFailure(c)
  BY <1>1, PurseFails
<1>2. CASE \E x \in {"lock", "credit", "debit", "claim", "stock", "upsert", "note", "delete",
                     "reclaim", "clawback"} :
             At(c, x) /\ GoOn(c, Next1(c)) /\ UNCHANGED <<db, redeemed, bought, lapsed>>
  BY <1>2, PurseGoesOn
<1>3. CASE Quote(c) /\ Active(req[c].user) < req[c].qty
           /\ Pass(c, [Next1(c) EXCEPT !.yad = Difference(req[c].user, req[c].qty)])
  <2> DEFINE u == req[c].user
             q == req[c].qty
  <2>1. At(c, "quote")
    BY <1>3 DEF Quote
  <2>2. /\ Next1(c) \in Request /\ Next1(c).op = "slots" /\ Next1(c).at = 3
        /\ Next1(c).user = u /\ Next1(c).qty = q
    <3>1. /\ req[c].at \in DOMAIN Program[req[c].op]
          /\ Program[req[c].op][req[c].at] = "quote"
      BY <2>1 DEF At
    <3>2. Doing(c, "slots", 2)
      BY <2>1, AtMeans, ClientFacts
    <3> QED
      BY <3>1, <3>2, NextFits, ClientFacts DEF Doing
  <2>3. PICK s : s = [Next1(c) EXCEPT !.yad = Difference(u, q)]
    OBVIOUS
  <2>4. s.user = u /\ s.qty = q /\ s.yad = Price(q) - Price(Active(u))
    BY <2>2, <2>3 DEF Request, Difference
  <2>5. /\ req' = [req EXCEPT ![c] = s] /\ UNCHANGED <<db, redeemed, bought, lapsed>>
    BY <1>3, <2>3 DEF Pass, GoOn, rowVars, tableVars
  <2>6. s.yad \in Nat
    <3>1. req'[c] = s
      BY <2>5 DEF EconomyInv, TypeOK
    <3>2. req'[c] \in Request
      BY <1>3, InvQuote DEF EconomyInv, TypeOK
    <3> QED
      BY <3>1, <3>2 DEF Request
  <2>7. FairlyPriced(s)
    <3>1. db[Slots(u)] = 0 => Active(u) = 0
      BY DEF Active
    <3>2. Price(q) \in Nat /\ Price(0) = 0
      BY ClientFacts, ConstantTypes DEF Price
    <3> QED
      BY <2>4, <3>1, <3>2 DEF FairlyPriced
  <2> QED
    BY <2>4, <2>5, <2>6, <2>7, SweptShrinks, PurseForgets, ClientFacts
<1>4. CASE Reclaim(c) /\ Pass(c, [req[c] EXCEPT !.at = @ + 2])
  <2>1. req[c].op = "revert"
    BY <1>4, AtMeans, ClientFacts DEF Reclaim, Doing
  <2>2. PICK s : s = [req[c] EXCEPT !.at = @ + 2]
    OBVIOUS
  <2>3. s.op = "revert" /\ s.user \in Users /\ s.qty \in 1..2 /\ s.yad \in Nat
    BY <2>1, <2>2, ClientFacts DEF Request
  <2>4. FairlyPriced(s)
    BY <2>3 DEF FairlyPriced
  <2>5. /\ req' = [req EXCEPT ![c] = s] /\ UNCHANGED <<db, redeemed, bought, lapsed>>
    BY <1>4, <2>2 DEF Pass, GoOn, rowVars, tableVars
  <2> QED
    BY <2>3, <2>4, <2>5, SweptShrinks, PurseForgets
<1>5. CASE LockUserForUpdate(c) \/ Credit(c) \/ Debit(c) \/ UsePromoCode(c)
  BY <1>1, <1>2, <1>5
     DEF LockUserForUpdate, Credit, Debit, UsePromoCode, Write, tableVars
<1>6. CASE BuyShopItem(c) \/ CreateReferralReward(c) \/ DeleteDeviceExpansion(c) \/ Clawback(c)
  BY <1>1, <1>2, <1>6
     DEF BuyShopItem, CreateReferralReward, DeleteDeviceExpansion, Clawback, Write, Pass,
         rowVars, tableVars
<1>7. CASE Upsert(c)
  BY <1>2, <1>7 DEF Upsert, tableVars
<1>8. CASE Quote(c)
  BY <1>1, <1>3, <1>8 DEF Quote
<1>9. CASE Reclaim(c)
  BY <1>2, <1>4, <1>9 DEF Reclaim, Write, tableVars
<1> QED
  BY <1>5, <1>6, <1>7, <1>8, <1>9 DEF Statement

\* A commit of one client cheapens no upgrade of another.
LEMMA SweptCommits ==
    ASSUME EconomyInv, NEW c \in Clients, Commit(c)
    PROVE  Swept' \subseteq Swept
<1> SUFFICES ASSUME NEW u \in Swept' PROVE u \in Swept
  OBVIOUS
<1>1. PICK d \in Clients : /\ req'[d].op = "slots" /\ req'[d].user = u /\ req'[d].at > 2
                           /\ db'[Slots(u)] = 0 /\ req'[d].yad < Price(req'[d].qty)
  BY DEF Swept, Slots, Price
<1>2. u \in Users
  BY DEF Swept
<1>3. d # c /\ req'[d] = req[d]
  <2>1. req'[c] = Idle /\ \A e \in Clients \ {c} : req'[e] = req[e]
    BY CommitRows DEF Undisturbed
  <2> QED
    BY <1>1, <2>1 DEF Idle
<1>4. OwnSlots(d) \notin Held(c) /\ OwnSlots(d) \in Rows /\ OwnSlots(d) = Slots(u)
  <2>1. req[d].op = "slots" /\ req[d].at > 1 /\ AtCommit(c)
    BY <1>1, <1>3, CommitRows, ClientFacts
  <2> QED
    BY <1>1, <1>3, <2>1, CommitApart, ClientFacts DEF OwnSlots
<1>5. db[Slots(u)] = 0
  BY <1>1, <1>4, CommitRows
<1> QED
  BY <1>1, <1>2, <1>3, <1>5 DEF Swept

\* One balance changes, or none.
LEMMA BalanceCommits ==
    ASSUME EconomyInv, NEW c \in Clients, Commit(c), NEW v \in Users, NEW y,
           \A w \in Users : Balance(w) \in Held(c) => w = v,
           y = IF Balance(v) \in Held(c) THEN newest[Balance(v)] ELSE db[Balance(v)]
    PROVE  Balances' = [Balances EXCEPT ![v] = y]
<1>1. \A w \in Users : Balance(w) \in Rows
  BY RowsApart
<1>2. \A w \in Users : db'[Balance(w)] = IF w = v THEN y ELSE db[Balance(w)]
  BY <1>1, CommitRows
<1>3. \A w \in Users : Balances[w] = db[Balance(w)] /\ Balances'[w] = db'[Balance(w)]
  BY DEF Balances, Balance
<1> QED
  BY <1>2, <1>3 DEF Balances

\* Likewise the slots, which only their user's transaction can have locked.
LEMMA SlotsCommit ==
    ASSUME EconomyInv, NEW c \in Clients, Commit(c), NEW y,
           y = IF OwnSlots(c) \in Held(c) THEN newest[OwnSlots(c)] ELSE db[OwnSlots(c)]
    PROVE  SlotRows' = [SlotRows EXCEPT ![req[c].user] = y]
<1>1. \A w \in Users : Slots(w) \in Rows
  BY RowsApart
<1>2. AtCommit(c) /\ OwnSlots(c) = Slots(req[c].user)
  BY CommitRows DEF OwnSlots
<1>3. \A w \in Users : db'[Slots(w)] = IF w = req[c].user THEN y ELSE db[Slots(w)]
  BY <1>1, <1>2, CommitRows, CommitHolds
<1>4. \A w \in Users : SlotRows[w] = db[Slots(w)] /\ SlotRows'[w] = db'[Slots(w)]
  BY DEF SlotRows, Slots
<1> QED
  BY <1>3, <1>4 DEF SlotRows

\* What a commit leaves alone when it holds neither slots, nor the code, nor
\* the reward.
LEMMA PlainCommit ==
    ASSUME EconomyInv, NEW c \in Clients, Commit(c)
    PROVE  /\ req[c].op \notin {"slots", "paid", "revert"} => SlotRows' = SlotRows /\ lapsed' = lapsed
           /\ req[c].op # "promo" => db'[Uses] = db[Uses] /\ redeemed' = redeemed
           /\ Reward \notin Held(c) => db'[Reward] = db[Reward]
<1>1. AtCommit(c) /\ Uses \in Rows /\ Reward \in Rows
  BY CommitRows, RowsApart
<1>2. ASSUME req[c].op \notin {"slots", "paid", "revert"}
      PROVE  SlotRows' = SlotRows /\ lapsed' = lapsed
  <2>1. \A w \in Users : Slots(w) \notin Held(c) /\ Slots(w) \in Rows
    BY <1>1, <1>2, CommitHolds, RowsApart
  <2>2. \A w \in Users : db'[Slots(w)] = db[Slots(w)]
    BY <2>1, CommitRows
  <2>3. SlotRows' = SlotRows
    BY <2>2 DEF SlotRows, Slots
  <2>4. lapsed' = lapsed
    BY <2>1, CommitRows, ClientFacts DEF OwnSlots
  <2> QED
    BY <2>3, <2>4
<1>3. req[c].op # "promo" => db'[Uses] = db[Uses] /\ redeemed' = redeemed
  BY <1>1, CommitHolds, CommitRows
<1>4. Reward \notin Held(c) => db'[Reward] = db[Reward]
  BY <1>1, CommitRows
<1> QED
  BY <1>2, <1>3, <1>4

LEMMA PurseDeals ==
    ASSUME Promised!Deal, Swept' \subseteq Swept
    PROVE  Promised!Next
BY DEF Promised!Next

\* The transactions that touch the user's balance and neither slots nor the
\* reward.
LEMMA PursePays ==
    ASSUME EconomyInv, NEW c \in Clients, Commit(c),
           req[c].op \in {"promo", "shop", "plan", "gift", "fine"}
    PROVE  Promised!Deal
<1> DEFINE u == req[c].user
           b == Own(c)
<1>1. /\ AtCommit(c) /\ u \in Users /\ b = Balance(u) /\ b \in Rows
      /\ db[b] \in Nat /\ b # Uses /\ b # Stock
  BY CommitRows, ClientFacts, RowsApart DEF Own
<1>2. \/ Doing(c, "promo", 3) \/ Doing(c, "shop", 3) \/ Doing(c, "plan", 3)
      \/ Doing(c, "gift", 2) \/ Doing(c, "fine", 2)
  BY <1>1, AtMeans, ClientFacts DEF Doing
<1>3. b \in Held(c) /\ Held(c) \subseteq {Uses, Stock, b}
  BY <1>2, ClientFacts DEF Locked, PromoLocks, ShopLocks, PlanLocks, AdminLocks
<1>4. /\ \A w \in Users : Balance(w) \in Held(c) => w = u
      /\ Reward \notin Held(c)
  BY <1>1, <1>3, RowsApart
<1>5. Balances' = [Balances EXCEPT ![u] = newest[b]] /\ Balances[u] = db[b]
  BY <1>1, <1>3, <1>4, BalanceCommits DEF Balances
<1>6. SlotRows' = SlotRows /\ lapsed' = lapsed /\ db'[Reward] = db[Reward]
  BY <1>4, PlainCommit
<1>7. CASE Doing(c, "promo", 3)
  <2>1. /\ newest[b] = db[b] + PromoYAD /\ db'[Uses] = db[Uses] + 1 /\ db[Uses] < MaxUses
    BY <1>1, <1>7, CommitHolds, CommitRows, ClientFacts
       DEF Locked, PromoLocks, More, Doing
  <2>2. u \notin redeemed /\ redeemed' = redeemed \cup {u} /\ bought' = bought
    <3>1. req[c].op = "promo" /\ req[c].at > 1
      BY <1>7 DEF Doing
    <3>2. u \notin redeemed
      BY <3>1, ClientFacts DEF Knows
    <3> QED
      BY <3>1, <3>2, CommitRows, BoughtType
  <2>3. Cardinality(redeemed) < MaxUses
    BY <2>1 DEF EconomyInv, UsesCounted
  <2>4. Promised!Earn(u, PromoYAD)
    BY <1>5, <2>1 DEF Promised!Earn, Balances
  <2>5. Promised!Redeem(u)
    BY <1>6, <2>1, <2>2, <2>3, <2>4, OneCardinality DEF Promised!Redeem, SlotRows, Uses, Reward
  <2> QED
    BY <1>1, <2>5 DEF Promised!Deal
<1>8. CASE req[c].op # "promo"
  <2>1. db'[Uses] = db[Uses] /\ redeemed' = redeemed
    BY <1>8, PlainCommit
  <2>2. CASE Doing(c, "shop", 3)
    <3>1. newest[b] = db[b] - ItemPrice /\ db[b] >= ItemPrice
      BY <2>2, ClientFacts DEF Locked, ShopLocks, Less
    <3>2. bought' = [bought EXCEPT ![u].items = @ + 1]
      BY <2>2, BoughtType DEF Doing
    <3>3. Promised!Order(u)
      BY <1>5, <1>6, <2>1, <3>1, <3>2
         DEF Promised!Order, Promised!Pay, Balances, SlotRows, Uses, Reward
    <3> QED
      BY <1>1, <3>3 DEF Promised!Deal
  <2>3. CASE Doing(c, "plan", 3)
    <3>1. newest[b] = db[b] - PlanPrice /\ db[b] >= PlanPrice
      BY <2>3, ClientFacts DEF Locked, PlanLocks, Less
    <3>2. bought' = [bought EXCEPT ![u].plans = @ + 1]
      BY <2>3, BoughtType DEF Doing
    <3>3. Promised!Subscribe(u)
      BY <1>5, <1>6, <2>1, <3>1, <3>2
         DEF Promised!Subscribe, Promised!Pay, Balances, SlotRows, Uses, Reward
    <3> QED
      BY <1>1, <3>3 DEF Promised!Deal
  <2>4. CASE Doing(c, "gift", 2) \/ Doing(c, "fine", 2)
    <3>1. \/ newest[b] = db[b] + AdminYAD
          \/ newest[b] = db[b] - AdminYAD /\ db[b] >= AdminYAD
      BY <2>4, ClientFacts DEF Locked, AdminLocks, Less, More
    <3>2. bought' = bought
      BY <2>4, BoughtType DEF Doing
    <3>3. Promised!Adjust(u)
      BY <1>5, <1>6, <2>1, <3>1, <3>2
         DEF Promised!Adjust, Promised!Pay, Promised!Earn, Balances, SlotRows, Uses, Reward
    <3> QED
      BY <1>1, <3>3 DEF Promised!Deal
  <2> QED
    BY <1>2, <1>8, <2>2, <2>3, <2>4 DEF Doing
<1> QED
  BY <1>2, <1>7, <1>8 DEF Doing

\* An upgrade, at the difference of the prices, or paid for in money.
LEMMA PurseUpgrades ==
    ASSUME EconomyInv, NEW c \in Clients, Commit(c), req[c].op \in {"slots", "paid"}
    PROVE  Promised!Deal
<1> DEFINE u == req[c].user
           q == req[c].qty
           b == Own(c)
           r == OwnSlots(c)
<1>1. /\ AtCommit(c) /\ u \in Users /\ b = Balance(u) /\ r = Slots(u) /\ b \in Rows
      /\ db[b] \in Nat /\ q \in 1..2
  BY CommitRows, ClientFacts DEF Own, OwnSlots
<1>2. Doing(c, "slots", 5) \/ Doing(c, "paid", 3)
  BY <1>1, AtMeans, ClientFacts DEF Doing
<1>3. Held(c) = {b, r} /\ Grown(r, q)
  BY <1>2, ClientFacts DEF Locked, SlotsLocks, PaidLocks
<1>4. /\ \A w \in Users : Balance(w) \in Held(c) => w = u
      /\ Reward \notin Held(c)
  BY <1>1, <1>3, RowsApart
<1>5. Balances' = [Balances EXCEPT ![u] = newest[b]] /\ Balances[u] = db[b]
  BY <1>1, <1>3, <1>4, BalanceCommits DEF Balances
<1>6. SlotRows' = [SlotRows EXCEPT ![u] = newest[r]] /\ SlotRows[u] = db[r]
  BY <1>1, <1>3, SlotsCommit DEF SlotRows
<1>7. /\ db'[Uses] = db[Uses] /\ redeemed' = redeemed /\ db'[Reward] = db[Reward]
      /\ bought' = bought /\ lapsed' = lapsed \ {u}
  BY <1>3, <1>4, PlainCommit, BoughtType, CommitRows
<1>8. Promised!Grow(u, q)
  BY <1>3, <1>6, <1>7 DEF Promised!Grow, SlotRows, Grown, Uses, Reward
<1>9. DOMAIN SlotPrice = 1..2
  BY ConstantTypes
<1>10. CASE Doing(c, "paid", 3)
  <2>1. Balances' = Balances
    <3>1. newest[b] = db[b]
      BY <1>10, ClientFacts DEF Locked, PaidLocks, Same
    <3> QED
      BY <1>5, <3>1 DEF Balances
  <2>2. Promised!PaidUpgrade(u, q)
    BY <1>8, <2>1 DEF Promised!PaidUpgrade, Balances
  <2> QED
    BY <1>1, <1>9, <2>2 DEF Promised!Deal
<1>11. CASE Doing(c, "slots", 5)
  <2>1. newest[b] = db[b] - req[c].yad /\ db[b] >= req[c].yad /\ Priced(c)
    BY <1>11, ClientFacts DEF Locked, SlotsLocks, Less, Knows, Doing
  <2>2. PICK e \in 0..1 :
          /\ e < q
          /\ req[c].yad = Price(q) - Price(e)
          /\ \/ e = db[r]
             \/ e = 0 /\ u \in lapsed
             \/ db[r] = 0 /\ req[c].yad < Price(q)
    BY <2>1 DEF Priced
  <2>3. req[c].yad = SlotPrice[q] - IF e = 0 THEN 0 ELSE SlotPrice[e]
    BY <1>1, <2>2 DEF Price
  <2>4. e \in Promised!Discounts(u)
    <3>1. CASE e = db[r]
      BY <1>6, <3>1 DEF Promised!Discounts, SlotRows
    <3>2. CASE e = 0 /\ u \in lapsed
      BY <3>2 DEF Promised!Discounts
    <3>3. CASE db[r] = 0 /\ req[c].yad < Price(q) /\ e # 0
      <4>1. u \in Swept
        BY <1>1, <1>11, <3>3 DEF Swept, Doing
      <4>2. e \in DOMAIN SlotPrice
        BY <1>9, <2>2, <3>3
      <4> QED
        BY <4>1, <4>2 DEF Promised!Discounts
    <3> QED
      BY <2>2, <3>1, <3>2, <3>3
  <2>5. Promised!Pay(u, SlotPrice[q] - IF e = 0 THEN 0 ELSE SlotPrice[e])
    BY <1>5, <2>1, <2>3 DEF Promised!Pay, Balances
  <2>6. Promised!Upgrade(u, q)
    BY <1>8, <2>2, <2>4, <2>5 DEF Promised!Upgrade
  <2> QED
    BY <1>1, <1>9, <2>6 DEF Promised!Deal
<1> QED
  BY <1>2, <1>10, <1>11

\* The reward is paid with its row, once.
LEMMA PursePaysReward ==
    ASSUME EconomyInv, NEW c \in Clients, Commit(c), req[c].op = "reward"
    PROVE  Promised!Deal
<1> DEFINE b == Balance(Referrer)
<1>1. /\ AtCommit(c) /\ Referrer \in Users /\ b \in Rows /\ Reward \in Rows
  BY CommitRows, ConstantTypes, RowsApart
<1>2. Doing(c, "reward", 3)
  BY <1>1, AtMeans, ClientFacts DEF Doing
<1>3. /\ Held(c) = {Reward, b} /\ newest[Reward] = Immediate
      /\ newest[b] = db[b] + RewardYAD /\ db[Reward] = NoReward
  BY <1>2, ClientFacts DEF Locked, RewardLocks, More, Knows, Doing
<1>4. \A w \in Users : Balance(w) \in Held(c) => w = Referrer
  BY <1>1, <1>3, RowsApart
<1>5. Balances' = [Balances EXCEPT ![Referrer] = newest[b]] /\ Balances[Referrer] = db[b]
  BY <1>1, <1>3, <1>4, BalanceCommits DEF Balances
<1>6. /\ SlotRows' = SlotRows /\ lapsed' = lapsed /\ bought' = bought
      /\ db'[Uses] = db[Uses] /\ redeemed' = redeemed
  BY PlainCommit, BoughtType
<1>7. db'[Reward] = Immediate
  BY <1>3, CommitRows
<1>8. Promised!Earn(Referrer, RewardYAD)
  BY <1>3, <1>5 DEF Promised!Earn, Balances
<1>9. Promised!PayReward
  BY <1>3, <1>6, <1>7, <1>8
     DEF Promised!PayReward, Promised!NoReward, Promised!Immediate, NoReward, Immediate,
         SlotRows, Uses, Reward
<1> QED
  BY <1>9 DEF Promised!Deal

\* The payment is returned: with its reward, if that was paid when the
\* transaction began.
LEMMA PurseReturns ==
    ASSUME EconomyInv, NEW c \in Clients, Commit(c), req[c].op = "revert"
    PROVE  Promised!Deal
<1> DEFINE p == Balance(Payer)
           b == Balance(Referrer)
           r == Slots(Payer)
<1>1. /\ AtCommit(c) /\ req[c].user = Payer /\ Own(c) = p /\ OwnSlots(c) = r
      /\ Payer \in Users /\ Referrer \in Users /\ p \in Rows /\ b \in Rows /\ Reward \in Rows
      /\ \A w \in Users : Balance(w) \in Rows /\ Balance(w) # r /\ Balance(w) # Reward
      /\ r # Reward
  BY CommitRows, ClientFacts, ConstantTypes, RowsApart DEF Bearing, Jobs, Own, OwnSlots
<1>2. Doing(c, "revert", 5)
  BY <1>1, AtMeans, ClientFacts DEF Doing
<1>3. /\ newest[r] = 0
      /\ \/ Held(c) = {p, r} /\ newest[p] = db[p]
         \/ /\ Held(c) = {p, r, Reward, b}
            /\ db[Reward] = Immediate /\ newest[Reward] = Reverted
            /\ newest[b] = Clamped(db[b])
            /\ p # b => newest[p] = db[p]
  BY <1>1, <1>2, ClientFacts DEF Locked, RevertLocks, TakesBack, Same
<1>4. SlotRows' = [SlotRows EXCEPT ![Payer] = 0] /\ lapsed' = lapsed \ {Payer}
  BY <1>1, <1>3, SlotsCommit, CommitRows
<1>5. bought' = bought /\ db'[Uses] = db[Uses] /\ redeemed' = redeemed
  BY PlainCommit, BoughtType
<1>6. \A w \in Users : Balances[w] = db[Balance(w)] /\ Balances'[w] = db'[Balance(w)]
  BY DEF Balances, Balance
<1>7. CASE Held(c) = {p, r} /\ newest[p] = db[p]
  <2>1. Reward \notin Held(c)
    BY <1>1, <1>7
  <2>2. \A w \in Users : db'[Balance(w)] = db[Balance(w)]
    BY <1>1, <1>7, CommitRows
  <2>3. Balances' = Balances /\ db'[Reward] = db[Reward]
    BY <1>1, <1>6, <2>1, <2>2, CommitRows DEF Balances
  <2>4. Promised!Return
    BY <1>4, <1>5, <2>3 DEF Promised!Return, Balances, SlotRows, Uses, Reward
  <2> QED
    BY <2>4 DEF Promised!Deal
<1>8. CASE /\ Held(c) = {p, r, Reward, b}
           /\ db[Reward] = Immediate /\ newest[Reward] = Reverted
           /\ newest[b] = Clamped(db[b])
           /\ p # b => newest[p] = db[p]
  <2>1. db'[Reward] = Reverted
    BY <1>8, CommitRows
  <2>2. \A w \in Users : db'[Balance(w)] = IF w = Referrer THEN Clamped(db[b]) ELSE db[Balance(w)]
    <3>1. SUFFICES ASSUME NEW w \in Users
                   PROVE  db'[Balance(w)] = IF w = Referrer THEN Clamped(db[b]) ELSE db[Balance(w)]
      OBVIOUS
    <3>2. CASE w = Referrer
      BY <1>8, <3>2, CommitRows
    <3>3. CASE w # Referrer /\ w = Payer
      BY <1>1, <1>8, <3>3, CommitRows, RowsApart
    <3>4. CASE w # Referrer /\ w # Payer
      <4>1. Balance(w) \notin Held(c)
        BY <1>1, <1>8, <3>4, RowsApart
      <4> QED
        BY <1>1, <3>4, <4>1, CommitRows
    <3> QED
      BY <3>2, <3>3, <3>4
  <2>3. Balances' = [Balances EXCEPT ![Referrer] = IF @ >= RewardYAD THEN @ - RewardYAD ELSE 0]
    <3>1. Clamped(db[b]) = IF Balances[Referrer] >= RewardYAD THEN Balances[Referrer] - RewardYAD ELSE 0
      BY <1>1, <1>6 DEF Clamped
    <3>2. Balances' = [Balances EXCEPT ![Referrer] = Clamped(db[b])]
      BY <1>1, <1>6, <2>2 DEF Balances
    <3> QED
      BY <3>1, <3>2
  <2>4. Promised!Return
    BY <1>4, <1>5, <1>8, <2>1, <2>3
       DEF Promised!Return, Promised!Immediate, Promised!Reverted, Immediate, Reverted,
           Balances, SlotRows, Uses, Reward
  <2> QED
    BY <2>4 DEF Promised!Deal
<1> QED
  BY <1>3, <1>7, <1>8

LEMMA PurseCommit ==
    ASSUME EconomyInv, NEW c \in Clients, Commit(c)
    PROVE  Promised!Next
<1>1. req[c].op \in OpNames \ {"none"}
  BY CommitHolds, CommitRows, ClientFacts, Programs
<1>2. Promised!Deal
  BY <1>1, PursePays, PurseUpgrades, PursePaysReward, PurseReturns DEF OpNames
<1> QED
  BY <1>2, SweptCommits, PurseDeals

\* Slots run out.
LEMMA PurseRunOut ==
    ASSUME EconomyInv, NEW u \in Users, RunOut(u)
    PROVE  Promised!Next
<1>1. /\ lapsed' = lapsed \cup {u}
      /\ UNCHANGED <<db, req, redeemed, bought>>
  BY DEF RunOut, rowVars
<1>2. /\ Balances' = Balances /\ SlotRows' = SlotRows /\ Swept' = Swept
      /\ db[Uses]' = db[Uses] /\ db[Reward]' = db[Reward]
  BY <1>1 DEF Balances, SlotRows, Swept, Balance, Slots, Price, Uses, Reward
<1>3. Promised!RunOut(u)
  BY <1>1, <1>2 DEF Promised!RunOut, Balances, SlotRows
<1> QED
  BY <1>2, <1>3, PurseDeals DEF Promised!Deal

\* The sweep removes the slots of one user, and what an upgrade of them
\* discounts is remembered.
LEMMA PurseRemoves ==
    ASSUME EconomyInv, NEW u \in Users, DeleteExpiredDeviceExpansions(u)
    PROVE  Promised!Next
<1> DEFINE r == Slots(u)
<1>1. /\ db' = [db EXCEPT ![r] = 0] /\ u \in lapsed /\ lapsed' = lapsed \ {u}
      /\ UNCHANGED <<req, redeemed, bought>>
  BY DEF DeleteExpiredDeviceExpansions
<1>2. /\ r \in Rows /\ db \in [Rows -> Nat] /\ Uses \in Rows /\ Reward \in Rows
      /\ r # Uses /\ r # Reward
      /\ \A w \in Users : Balance(w) \in Rows /\ Slots(w) \in Rows /\ Balance(w) # r
      /\ \A w \in Users : Slots(w) = r => w = u
  BY RowsApart DEF EconomyInv, TypeOK
<1>3. \A s \in Rows : db'[s] = IF s = r THEN 0 ELSE db[s]
  BY <1>1, <1>2
<1>4. Balances' = Balances
  <2>1. \A w \in Users : db'[Balance(w)] = db[Balance(w)]
    BY <1>2, <1>3
  <2> QED
    BY <2>1 DEF Balances, Balance
<1>5. SlotRows' = [SlotRows EXCEPT ![u] = 0]
  <2>1. \A w \in Users : db'[Slots(w)] = IF w = u THEN 0 ELSE db[Slots(w)]
    BY <1>2, <1>3
  <2> QED
    BY <2>1 DEF SlotRows, Slots
<1>6. db[Uses]' = db[Uses] /\ db[Reward]' = db[Reward]
  BY <1>2, <1>3 DEF Uses, Reward
<1>7. Swept' \subseteq Swept \cup {u}
  <2> SUFFICES ASSUME NEW v \in Swept', v # u PROVE v \in Swept
    OBVIOUS
  <2>1. v \in Users
    BY DEF Swept
  <2>2. PICK d \in Clients : /\ req[d].op = "slots" /\ req[d].user = v /\ req[d].at > 2
                             /\ db'[Slots(v)] = 0 /\ req[d].yad < Price(req[d].qty)
    BY <1>1 DEF Swept, Slots, Price
  <2>3. db[Slots(v)] = 0
    BY <1>2, <1>3, <2>1, <2>2
  <2> QED
    BY <2>1, <2>2, <2>3 DEF Swept
<1>8. Promised!Remove(u)
  BY <1>1, <1>4, <1>5, <1>6 DEF Promised!Remove, Balances, SlotRows
<1> QED
  BY <1>7, <1>8 DEF Promised!Next

LEMMA PurseNext == EconomyInv /\ [Next]_vars => [Promised!Next]_(Promised!vars)
<1> SUFFICES ASSUME EconomyInv, [Next]_vars
             PROVE  Promised!Next \/ UNCHANGED Promised!vars
  OBVIOUS
<1>1. ASSUME NEW c \in Clients, Arrive(c)
      PROVE  Promised!Next \/ UNCHANGED Promised!vars
  <2>1. \E op : \E u \in Users, q \in 1..2, y \in Nat : Asks(c, op, u, q, y)
    <3>1. 1 \in 1..2 /\ 0 \in Nat
      OBVIOUS
    <3> QED
      BY <1>1, <3>1, ConstantTypes
         DEF Arrive, EnterPromo, OrderItem, BuySubscriptionWithYAD, BuyDeviceExpansion,
             AdjustUserYAD, AdjustYAD, HandleDeviceExpansionActivate, HandleReferralReward,
             ProcessRevertedPayment, Requested, Job
  <2> QED
    BY <2>1, PurseArrive
<1>2. ASSUME NEW c \in Clients, BeginTx(c)
      PROVE  Promised!Next \/ UNCHANGED Promised!vars
  <2>1. PICK s : s = Next1(c)
    OBVIOUS
  <2>2. /\ req[c].at = 0 /\ req' = [req EXCEPT ![c] = s]
        /\ UNCHANGED <<db, redeemed, bought, lapsed>>
    BY <1>2, <2>1 DEF BeginTx, GoOn, rowVars, tableVars
  <2>3. s.at = 1 /\ s.user \in Users /\ s.qty \in 1..2 /\ s.yad \in Nat
    BY <2>1, <2>2, ClientFacts DEF Next1, Request
  <2>4. FairlyPriced(s)
    BY <2>3 DEF FairlyPriced
  <2> QED
    BY <2>2, <2>3, <2>4, SweptShrinks, PurseForgets
<1>3. ASSUME NEW c \in Clients, Serve(c) \/ TransactionFails(c)
      PROVE  Promised!Next \/ UNCHANGED Promised!vars
  BY <1>2, <1>3, PurseStatement, PurseCommit, PurseFails DEF Serve, TransactionFails
<1>4. ASSUME NEW u \in Users, RunOut(u) \/ DeleteExpiredDeviceExpansions(u)
      PROVE  Promised!Next
  BY <1>4, PurseRunOut, PurseRemoves
<1>5. CASE UNCHANGED vars
  <2>1. UNCHANGED <<db, req, redeemed, bought, lapsed>>
    BY <1>5 DEF vars, rowVars, tableVars
  <2>2. Swept' = Swept
    BY <2>1 DEF Swept, Slots, Price
  <2> QED
    BY <2>1, <2>2, PurseForgets
<1> QED
  BY <1>1, <1>3, <1>4, <1>5 DEF Next

\* Under every interleaving of statements, lock waits, 40001 retries and
\* failures, what commits is a sequence of whole deals: each paid for in the
\* same instant at the right price, no balance below zero, a promo code used
\* once per user and never beyond its limit, a clawback no larger than the
\* reward or the balance.
THEOREM EconomyKeepsPromises == Spec => ImplementsPurse
<1>1. Spec => []EconomyInv
  BY InvInit, InvNext, PTL DEF Spec
<1> QED
  BY <1>1, PurseInit, PurseNext, PTL DEF Spec, ImplementsPurse, Promised!Spec
=============================================================================
