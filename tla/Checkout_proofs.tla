--------------------------- MODULE Checkout_proofs ---------------------------
(***************************************************************************)
(* The checkout, for any plans, codes, limit, requests and faults: every   *)
(* state is well typed, and every step is a step of the promise of Till or *)
(* changes nothing of it.                                                  *)
(*                                                                         *)
(* Whether a purchase may record, show or announce its payment is decided  *)
(* many calls before it does so.  CheckoutInv says what each purchase can  *)
(* rely on meanwhile: an identity that is its own, a row that is still its *)
(* own to insert, a code that was redeemed for good.                       *)
(***************************************************************************)
EXTENDS CheckoutProperties, TLAPS

LEMMA ConstantTypes ==
    /\ Slots \subseteq Plans /\ Free \subseteq Codes
    /\ None \notin Transactions /\ None \notin Plans /\ None \notin Codes
    /\ Limit \in Nat \ {0} /\ MaxAsked \in Nat
BY CheckoutAssumption

-----------------------------------------------------------------------------
(* What a request relies on between its calls.                             *)

Buying  == {"count", "expire", "find", "price", "gateway", "insert", "winner", "clear", "push"}
Holding == {"insert", "winner", "clear", "push"}

Fits(r) ==
    /\ r.at \in Buying => r.plan \in Plans
    /\ r.at \in {"use", "set"} => r.code \in Codes
    /\ r.at = "set" => r.code \in redeemed
    /\ r.at \in {"count", "expire", "find", "gateway", "insert"} => r.code \in redeemed \cup {None}
    /\ r.at \in Holding => r.tx \in issued /\ r.tx \notin queue
    /\ r.at = "insert" => payments[r.tx] = NoRow
    /\ r.at \in {"clear", "push"} => payments[r.tx] # NoRow /\ payments[r.tx].code = r.code
    /\ r.at = "push" => r.code \in Free

\* No two requests deal with one payment that is not settled between them.
Apart ==
    \A c \in Requests, d \in Requests :
        c # d /\ req[c].at \in Holding /\ req[d].at \in Holding => req[c].tx # req[d].tx

\* What is on record and what was said of it.
OnRecord ==
    /\ discount \in redeemed \cup {None}
    /\ \A t \in Transactions : payments[t] # NoRow => t \in issued
    /\ \A t \in shown : payments[t] # NoRow
    /\ queue \subseteq issued

CheckoutInv ==
    /\ TypeOK
    /\ \A c \in Requests : Fits(req[c])
    /\ Apart
    /\ OnRecord

LEMMA InvInit == Init => CheckoutInv
<1> SUFFICES ASSUME Init PROVE CheckoutInv
  OBVIOUS
<1>1. Idle \in Request /\ NoKey \in Key
  BY DEF Idle, Request, Points, NoKey, Key
<1>2. TypeOK
  BY <1>1, ConstantTypes DEF Init, TypeOK
<1>3. \A c \in Requests : req[c].at = "idle"
  BY DEF Init, Idle
<1>4. \A c \in Requests : Fits(req[c])
  BY <1>3 DEF Fits, Buying, Holding
<1>5. Apart
  BY <1>3 DEF Apart, Holding
<1>6. OnRecord
  BY DEF Init, OnRecord
<1> QED
  BY <1>2, <1>4, <1>5, <1>6 DEF CheckoutInv

\* A row or no row, and a row has a plan.
LEMMA RowType ==
    ASSUME TypeOK, NEW t \in Transactions
    PROVE  /\ payments[t] = NoRow \/ payments[t] \in Row
           /\ payments[t] = NoRow <=> payments[t].status = "none"
           /\ payments[t] = NoRow <=> payments[t].plan = None
           /\ payments[t] = NoRow => payments[t].code = None
           /\ payments[t].code \in Codes \cup {None}
<1>1. payments[t] = NoRow \/ payments[t] \in Row
  BY DEF TypeOK
<1>2. CASE payments[t] = NoRow
  BY <1>2 DEF NoRow
<1>3. CASE payments[t] \in Row
  BY <1>3, ConstantTypes DEF NoRow, Row, Status
<1> QED
  BY <1>1, <1>2, <1>3

LEMMA GoesTo ==
    ASSUME TypeOK, NEW c \in Requests, NEW point \in Points, Goes(c, point)
    PROVE  \E s \in Request : /\ req' = [req EXCEPT ![c] = s]
                              /\ s.at = point /\ s.plan = req[c].plan
                              /\ s.code = req[c].code /\ s.tx = req[c].tx
<1>1. req[c] \in Request
  BY DEF TypeOK
<1>2. [req[c] EXCEPT !.at = point] \in Request
  BY <1>1 DEF Request
<1> WITNESS [req[c] EXCEPT !.at = point] \in Request
<1> QED
  BY <1>1 DEF Goes, Request

LEMMA IdleFits ==
    /\ Idle \in Request /\ Idle.at = "idle"
    /\ Fits(Idle)'
BY DEF Idle, Request, Points, Fits, Buying, Holding

\* The payment that a request deals with.
Mine(c) == IF req[c].at \in Holding THEN {req[c].tx} ELSE {}

\* A row may lapse and be settled, nothing else.
Kept(t) ==
    /\ payments'[t] = NoRow <=> payments[t] = NoRow
    /\ payments'[t].code = payments[t].code

\* One request moves on; what the others rely on stays as it is.
LEMMA FitsMovesOn ==
    ASSUME CheckoutInv, NEW c \in Requests, NEW s \in Request,
           req' = [req EXCEPT ![c] = s], Fits(s)',
           s.at \in Holding => s.tx \in Mine(c) \/ s.tx \notin issued,
           redeemed \subseteq redeemed', issued \subseteq issued',
           queue' \subseteq queue \cup Mine(c),
           \A t \in Transactions \ Mine(c) : Kept(t)
    PROVE  /\ req' \in [Requests -> Request]
           /\ \A d \in Requests : Fits(req[d])'
           /\ Apart'
<1>1. /\ req \in [Requests -> Request] /\ issued \subseteq Transactions
      /\ req' \in [Requests -> Request] /\ req'[c] = s
      /\ \A d \in Requests \ {c} : req'[d] = req[d]
  BY DEF CheckoutInv, TypeOK
<1>2. ASSUME NEW d \in Requests \ {c} PROVE Fits(req[d])'
  <2>1. Fits(req[d])
    BY DEF CheckoutInv
  <2>2. req[d].at \in Holding => req[d].tx \in issued /\ req[d].tx \notin Mine(c)
    BY <2>1 DEF CheckoutInv, Apart, Mine, Fits
  <2>3. req[d].at \in Holding => req[d].tx \notin queue' /\ Kept(req[d].tx)
    BY <1>1, <2>1, <2>2 DEF Fits
  <2> QED
    BY <1>1, <2>1, <2>2, <2>3 DEF Fits, Kept, Holding
<1>3. Apart'
  <2>1. ASSUME NEW d \in Requests \ {c}, s.at \in Holding, req[d].at \in Holding
        PROVE  s.tx # req[d].tx
    <3>1. req[d].tx \in issued
      BY <2>1 DEF CheckoutInv, Fits
    <3>2. req[c].at \in Holding => req[c].tx # req[d].tx
      BY <2>1 DEF CheckoutInv, Apart
    <3> QED
      BY <2>1, <3>1, <3>2 DEF Mine
  <2> QED
    BY <1>1, <2>1 DEF Apart, CheckoutInv
<1>4. Fits(req[c])'
  BY <1>1
<1> QED
  BY <1>1, <1>2, <1>3, <1>4

\* Nobody moves.
LEMMA FitsStands ==
    ASSUME CheckoutInv, UNCHANGED <<req, redeemed, issued, queue, shown, discount>>,
           \A t \in Transactions : Kept(t)
    PROVE  /\ \A d \in Requests : Fits(req[d])'
           /\ Apart' /\ OnRecord'
<1>1. issued \subseteq Transactions /\ shown \subseteq Transactions
  BY DEF CheckoutInv, TypeOK
<1>2. ASSUME NEW d \in Requests PROVE Fits(req[d])'
  <2>1. Fits(req[d])
    BY DEF CheckoutInv
  <2>2. req[d].at \in Holding => Kept(req[d].tx)
    BY <1>1, <2>1 DEF Fits
  <2> QED
    BY <2>1, <2>2 DEF Fits, Kept, Holding
<1>3. Apart'
  BY DEF CheckoutInv, Apart
<1>4. OnRecord'
  BY <1>1 DEF CheckoutInv, OnRecord, Kept
<1> QED
  BY <1>2, <1>3, <1>4

-----------------------------------------------------------------------------
(* Every action keeps the invariant.                                       *)

\* A request moves on and at most shows a payment that is on record.
LEMMA Quiet ==
    ASSUME CheckoutInv, NEW c \in Requests, NEW s \in Request,
           req' = [req EXCEPT ![c] = s], Fits(s)', s.at \in Holding => s.tx \in Mine(c),
           UNCHANGED <<payments, discount, redeemed, queue, issued>>,
           limiter' \in [Kinds -> Key], asked' \in 0..MaxAsked,
           shown' \subseteq Transactions, \A t \in shown' : payments[t] # NoRow
    PROVE  CheckoutInv'
<1>1. /\ req' \in [Requests -> Request]
      /\ \A d \in Requests : Fits(req[d])'
      /\ Apart'
  BY FitsMovesOn DEF Kept
<1>2. TypeOK'
  BY <1>1 DEF CheckoutInv, TypeOK
<1>3. OnRecord'
  BY DEF CheckoutInv, OnRecord
<1> QED
  BY <1>1, <1>2, <1>3 DEF CheckoutInv

LEMMA LimiterType ==
    ASSUME TypeOK, NEW k \in Kinds, NEW e \in BOOLEAN
    PROVE  [limiter EXCEPT ![k].count = @ + 1, ![k].expires = e] \in [Kinds -> Key]
<1>1. limiter \in [Kinds -> Key] /\ limiter[k].count + 1 \in Nat
  BY DEF TypeOK, Key
<1>2. [limiter[k] EXCEPT !.count = @ + 1, !.expires = e] \in Key
  BY <1>1 DEF Key
<1> QED
  BY <1>1, <1>2

LEMMA LiveRows ==
    ASSUME TypeOK, NEW p, NEW t \in Live(p)
    PROVE  t \in Transactions /\ payments[t] # NoRow
BY DEF Live, Pending, NoRow

\* What all of the lemmas below need of the invariant.
LEMMA InvParts ==
    ASSUME CheckoutInv, NEW c \in Requests
    PROVE  /\ TypeOK /\ OnRecord /\ Fits(req[c])
           /\ limiter \in [Kinds -> Key] /\ asked \in 0..MaxAsked
           /\ shown \subseteq Transactions /\ \A t \in shown : payments[t] # NoRow
BY DEF CheckoutInv, TypeOK, OnRecord

LEMMA InvEnds ==
    ASSUME CheckoutInv, NEW c \in Requests, Ends(c),
           UNCHANGED <<payments, discount, redeemed, queue, issued>>,
           limiter' \in [Kinds -> Key], asked' \in 0..MaxAsked,
           shown' \subseteq Transactions, \A t \in shown' : payments[t] # NoRow
    PROVE  CheckoutInv'
<1>1. req' = [req EXCEPT ![c] = Idle] /\ Idle.at \notin Holding
  BY IdleFits DEF Ends, Holding
<1> QED
  BY <1>1, IdleFits, Quiet

\* A request that arrives holds what was checked of its input.
LEMMA InvArrives ==
    ASSUME CheckoutInv, NEW c \in Requests, NEW s \in Request,
           Arrives(c), req' = [req EXCEPT ![c] = s],
           UNCHANGED <<payments, discount, redeemed, limiter, queue, shown, issued>>,
           \/ s.at = "count" /\ s.plan \in Plans /\ s.code = None
           \/ s.at = "use" /\ s.code \in Codes
    PROVE  CheckoutInv'
<1>1. Fits(s)' /\ s.at \notin Holding
  BY DEF Fits, Buying, Holding
<1>2. asked' \in 0..MaxAsked
  BY ConstantTypes, InvParts DEF Arrives
<1> QED
  BY <1>1, <1>2, InvParts, Quiet

LEMMA InvInitiate ==
    ASSUME CheckoutInv, NEW c \in Requests, NEW p \in Plans,
           InitiatePayment(c, p) \/ InitiateDeviceExpansionPayment(c, p)
    PROVE  CheckoutInv'
<1> DEFINE s == [Idle EXCEPT !.at = "count", !.plan = p]
<1>1. s \in Request /\ s.at = "count" /\ s.plan = p /\ s.code = None
  BY DEF Idle, Request, Points
<1> HIDE DEF s
<1>2. CASE req' = [req EXCEPT ![c] = s] /\ UNCHANGED shown
  BY <1>1, <1>2, InvArrives DEF InitiatePayment, InitiateDeviceExpansionPayment
<1>3. ASSUME NEW t \in Live(p), shown' = shown \cup {t}, UNCHANGED req, InitiatePayment(c, p)
      PROVE  CheckoutInv'
  <2>1. t \in Transactions /\ payments[t] # NoRow
    BY InvParts, LiveRows
  <2>2. asked' \in 0..MaxAsked
    BY <1>3, ConstantTypes, InvParts DEF InitiatePayment, Arrives
  <2>3. UNCHANGED <<req, payments, discount, redeemed, limiter, queue, issued>>
    BY <1>3 DEF InitiatePayment
  <2>4. (\A d \in Requests : Fits(req[d])') /\ Apart'
    BY <2>3 DEF CheckoutInv, Fits, Apart
  <2>5. TypeOK'
    BY <1>3, <2>1, <2>2, <2>3 DEF CheckoutInv, TypeOK
  <2>6. OnRecord'
    BY <1>3, <2>1, <2>3 DEF CheckoutInv, OnRecord
  <2> QED
    BY <2>4, <2>5, <2>6 DEF CheckoutInv
<1> QED
  BY <1>2, <1>3 DEF InitiatePayment, InitiateDeviceExpansionPayment, s

LEMMA InvRedeemCode ==
    ASSUME CheckoutInv, NEW c \in Requests, NEW k \in Codes, RedeemCode(c, k)
    PROVE  CheckoutInv'
<1> DEFINE s == [Idle EXCEPT !.at = "use", !.code = k]
<1>1. s \in Request /\ s.at = "use" /\ s.code = k
  BY DEF Idle, Request, Points
<1>2. req' = [req EXCEPT ![c] = s]
  BY DEF RedeemCode
<1> HIDE DEF s
<1> QED
  BY <1>1, <1>2, InvArrives DEF RedeemCode

\* A purchase goes from one point to the next.
LEMMA InvGoes ==
    ASSUME CheckoutInv, NEW c \in Requests, NEW point \in {"expire", "find", "price", "gateway"},
           Goes(c, point), req[c].at \in {"count", "expire", "find"},
           UNCHANGED <<payments, discount, redeemed, queue, issued, shown, asked>>,
           limiter' \in [Kinds -> Key]
    PROVE  CheckoutInv'
<1>1. point \in Points
  BY DEF Points
<1>2. PICK s \in Request : /\ req' = [req EXCEPT ![c] = s]
                           /\ s.at = point /\ s.plan = req[c].plan
                           /\ s.code = req[c].code /\ s.tx = req[c].tx
  BY <1>1, GoesTo, InvParts
<1>3. Fits(s)' /\ s.at \notin Holding
  BY <1>2, InvParts DEF Fits, Buying, Holding
<1> QED
  BY <1>2, <1>3, InvParts, Quiet

LEMMA InvCheckAPIRateLimit ==
    ASSUME CheckoutInv, NEW c \in Requests, CheckAPIRateLimit(c)
    PROVE  CheckoutInv'
<1>1. /\ At(c, "count") /\ UNCHANGED <<payments, discount, redeemed, queue, shown, issued, asked>>
      /\ Goes(c, "price") \/ Ends(c)
  BY DEF CheckAPIRateLimit
<1>2. limiter' \in [Kinds -> Key]
  <2>1. CASE Increment("subscription")
    <3>1. "subscription" \in Kinds /\ limiter["subscription"].expires \in BOOLEAN
      BY InvParts DEF Kinds, Key
    <3>2. (limiter["subscription"].expires \/ limiter["subscription"].count = 0) \in BOOLEAN
      BY <3>1
    <3> QED
      BY <2>1, <3>1, <3>2, InvParts, LimiterType DEF Increment
  <2>2. CASE UNCHANGED limiter
    BY <2>2, InvParts
  <2> QED
    BY <2>1, <2>2 DEF CheckAPIRateLimit
<1> QED
  BY <1>1, <1>2, InvGoes, InvEnds, InvParts DEF At

LEMMA InvCountSlots ==
    ASSUME CheckoutInv, NEW c \in Requests, CountSlots(c)
    PROVE  CheckoutInv'
<1>1. /\ At(c, "count") /\ UNCHANGED <<payments, discount, redeemed, queue, shown, issued, asked>>
      /\ Goes(c, "expire") \/ Goes(c, "find") \/ Ends(c)
  BY DEF CountSlots
<1>2. limiter' \in [Kinds -> Key]
  <2>1. CASE limiter' = [limiter EXCEPT !["slots"].count = @ + 1]
    <3>1. limiter["slots"] \in Key /\ "slots" \in Kinds
      BY InvParts DEF Kinds
    <3>2. [limiter["slots"] EXCEPT !.count = @ + 1] \in Key
      BY <3>1 DEF Key
    <3> QED
      BY <2>1, <3>1, <3>2, InvParts
  <2>2. CASE UNCHANGED limiter
    BY <2>2, InvParts
  <2> QED
    BY <2>1, <2>2 DEF CountSlots
<1> QED
  BY <1>1, <1>2, InvGoes, InvEnds, InvParts DEF At

LEMMA InvExpireSlots ==
    ASSUME CheckoutInv, NEW c \in Requests, ExpireSlots(c)
    PROVE  CheckoutInv'
<1>1. limiter' \in [Kinds -> Key]
  <2>1. limiter["slots"] \in Key /\ "slots" \in Kinds
    BY InvParts DEF Kinds
  <2>2. (limiter["slots"].count > 0) \in BOOLEAN
    OBVIOUS
  <2>3. \A e \in BOOLEAN : [limiter["slots"] EXCEPT !.expires = e] \in Key
    BY <2>1 DEF Key
  <2>4. [limiter["slots"] EXCEPT !.expires = limiter["slots"].count > 0] \in Key
    BY <2>2, <2>3
  <2> QED
    BY <2>1, <2>4, InvParts DEF ExpireSlots
<1> QED
  BY <1>1, InvGoes DEF ExpireSlots, At

\* A payment that is on record is shown.
LEMMA InvShows ==
    ASSUME CheckoutInv, NEW c \in Requests, NEW t \in Transactions, Shows(c, t),
           payments[t] # NoRow,
           UNCHANGED <<payments, discount, redeemed, limiter, queue, issued, asked>>
    PROVE  CheckoutInv'
<1>1. /\ shown' \subseteq Transactions /\ Ends(c)
      /\ \A u \in shown' : payments[u] # NoRow
  BY InvParts DEF Shows
<1> QED
  BY <1>1, InvParts, InvEnds

LEMMA InvFindPending ==
    ASSUME CheckoutInv, NEW c \in Requests, FindPending(c)
    PROVE  CheckoutInv'
<1>1. CASE \E t \in Live(req[c].plan) : Shows(c, t)
  <2>1. PICK t \in Live(req[c].plan) : Shows(c, t)
    BY <1>1
  <2>2. t \in Transactions /\ payments[t] # NoRow
    BY InvParts, LiveRows
  <2> QED
    BY <2>1, <2>2, InvShows DEF FindPending
<1>2. CASE Goes(c, "gateway") /\ UNCHANGED shown
  BY <1>2, InvGoes, InvParts DEF FindPending, At
<1> QED
  BY <1>1, <1>2 DEF FindPending

LEMMA InvShowWinner ==
    ASSUME CheckoutInv, NEW c \in Requests, ShowWinner(c)
    PROVE  CheckoutInv'
<1>1. CASE \E t \in Live(req[c].plan) : Shows(c, t)
  <2>1. PICK t \in Live(req[c].plan) : Shows(c, t)
    BY <1>1
  <2>2. t \in Transactions /\ payments[t] # NoRow
    BY InvParts, LiveRows
  <2> QED
    BY <2>1, <2>2, InvShows DEF ShowWinner
<1>2. CASE Ends(c) /\ UNCHANGED shown
  BY <1>2, InvEnds, InvParts DEF ShowWinner
<1> QED
  BY <1>1, <1>2 DEF ShowWinner

\* An identity that was never given out belongs to no row, request or job.
LEMMA FreshIsFresh ==
    ASSUME CheckoutInv, issued # Transactions
    PROVE  /\ Fresh \in Transactions /\ Fresh \notin issued /\ Fresh \notin queue
           /\ payments[Fresh] = NoRow
<1>1. Fresh \in Transactions \ issued
  BY DEF Fresh, CheckoutInv, TypeOK
<1> QED
  BY <1>1 DEF CheckoutInv, OnRecord

\* A request that takes a new identity is about to insert its row.
LEMMA InvTakes ==
    ASSUME CheckoutInv, NEW c \in Requests, NEW s \in Request, issued # Transactions,
           req' = [req EXCEPT ![c] = s], issued' = issued \cup {Fresh},
           s.at = "insert", s.tx = Fresh, s.plan \in Plans, s.code \in redeemed \cup {None},
           UNCHANGED <<payments, discount, redeemed, limiter, queue, shown, asked>>
    PROVE  CheckoutInv'
<1>1. /\ Fresh \in Transactions /\ Fresh \notin issued /\ Fresh \notin queue
      /\ payments[Fresh] = NoRow
  BY FreshIsFresh
<1>2. Fits(s)'
  <2> DEFINE f == Fresh
  <2>1. s.tx = f /\ f \in issued' /\ f \notin queue' /\ payments'[f] = NoRow
    BY <1>1
  <2> HIDE DEF f
  <2> QED
    BY <2>1 DEF Fits, Buying, Holding
<1>3. /\ req' \in [Requests -> Request]
      /\ \A d \in Requests : Fits(req[d])'
      /\ Apart'
  BY <1>1, <1>2, FitsMovesOn DEF Kept
<1>4. TypeOK'
  BY <1>1, <1>3 DEF CheckoutInv, TypeOK
<1>5. OnRecord'
  BY DEF CheckoutInv, OnRecord
<1> QED
  BY <1>3, <1>4, <1>5 DEF CheckoutInv

LEMMA InvActiveDiscount ==
    ASSUME CheckoutInv, NEW c \in Requests, ActiveDiscount(c)
    PROVE  CheckoutInv'
<1>1. PICK k \in {discount, None} :
        IF k \in Free
        THEN /\ issued # Transactions
             /\ req' = [req EXCEPT ![c].at = "insert", ![c].code = k, ![c].tx = Fresh]
             /\ issued' = issued \cup {Fresh}
        ELSE /\ req' = [req EXCEPT ![c].at = "gateway", ![c].code = k]
             /\ UNCHANGED issued
  BY DEF ActiveDiscount
<1>2. /\ req[c] \in Request /\ req[c].plan \in Plans
      /\ k \in redeemed \cup {None} /\ k \in Codes \cup {None}
      /\ UNCHANGED <<payments, discount, redeemed, limiter, queue, shown, asked>>
  BY InvParts DEF ActiveDiscount, At, TypeOK, Fits, Buying, OnRecord
<1>3. CASE k \in Free
  <2> DEFINE s == [req[c] EXCEPT !.at = "insert", !.code = k, !.tx = Fresh]
  <2>1. Fresh \in Transactions
    BY <1>1, <1>3, FreshIsFresh
  <2>2. s \in Request /\ s.at = "insert" /\ s.code = k /\ s.tx = Fresh /\ s.plan = req[c].plan
    BY <1>2, <2>1 DEF Request, Points
  <2>3. req' = [req EXCEPT ![c] = s]
    BY <1>1, <1>3, InvParts DEF TypeOK
  <2> HIDE DEF s
  <2> QED
    BY <1>1, <1>2, <1>3, <2>2, <2>3, InvTakes
<1>4. CASE k \notin Free
  <2>1. PICK s : s = [req[c] EXCEPT !.at = "gateway", !.code = k]
    OBVIOUS
  <2>2. req' = [req EXCEPT ![c] = s] /\ UNCHANGED issued
    BY <1>1, <1>4, <2>1, InvParts DEF TypeOK
  <2>3. s \in Request /\ s.at = "gateway" /\ s.code = k /\ s.plan = req[c].plan
    BY <1>2, <2>1 DEF Request, Points
  <2>4. Fits(s)' /\ s.at \notin Holding
    BY <1>2, <2>3 DEF Fits, Buying, Holding
  <2> QED
    BY <1>2, <2>2, <2>3, <2>4, InvParts, Quiet
<1> QED
  BY <1>3, <1>4

LEMMA InvCreateAtGateway ==
    ASSUME CheckoutInv, NEW c \in Requests, CreateAtGateway(c)
    PROVE  CheckoutInv'
<1>1. CASE /\ issued # Transactions
           /\ req' = [req EXCEPT ![c].at = "insert", ![c].tx = Fresh]
           /\ issued' = issued \cup {Fresh}
  <2> DEFINE s == [req[c] EXCEPT !.at = "insert", !.tx = Fresh]
  <2>1. /\ Fresh \in Transactions /\ req[c] \in Request
        /\ req[c].plan \in Plans /\ req[c].code \in redeemed \cup {None}
    BY <1>1, FreshIsFresh, InvParts DEF TypeOK, CreateAtGateway, At, Fits, Buying
  <2>2. /\ s \in Request /\ s.at = "insert" /\ s.tx = Fresh
        /\ s.code = req[c].code /\ s.plan = req[c].plan
    BY <2>1 DEF Request, Points
  <2>3. req' = [req EXCEPT ![c] = s]
    BY <1>1, InvParts DEF TypeOK
  <2> HIDE DEF s
  <2> QED
    BY <1>1, <2>1, <2>2, <2>3, InvTakes DEF CreateAtGateway
<1>2. CASE Ends(c) /\ UNCHANGED issued
  BY <1>2, InvEnds, InvParts DEF CreateAtGateway
<1> QED
  BY <1>1, <1>2 DEF CreateAtGateway

\* The row that a request inserts is its own, and nobody else's insert or
\* announcement can be of it.
LEMMA InvCreatePayment ==
    ASSUME CheckoutInv, NEW c \in Requests, CreatePayment(c)
    PROVE  CheckoutInv'
<1> DEFINE r == req[c]
<1>1. /\ r \in Request /\ r.at = "insert" /\ r.plan \in Plans
      /\ r.code \in redeemed \cup {None} /\ r.code \in Codes \cup {None}
      /\ r.tx \in issued /\ r.tx \notin queue /\ r.tx \in Transactions
      /\ payments[r.tx] = NoRow /\ Mine(c) = {r.tx}
      /\ UNCHANGED <<discount, redeemed, limiter, queue, shown, issued, asked>>
  BY DEF CreatePayment, At, CheckoutInv, TypeOK, Request, OnRecord, Fits, Buying, Holding, Mine
<1>2. CASE payments' = [payments EXCEPT ![r.tx] = NewRow(r)] /\ Goes(c, "clear")
  <2>1. PICK t, k : t = r.tx /\ k = r.code
    OBVIOUS
  <2>2. /\ NewRow(r) \in Row /\ NewRow(r) # NoRow /\ NewRow(r).code = k
    <3>1. (IF r.code \in Free THEN "SETTLED" ELSE "PENDING") \in Status
      BY DEF Status
    <3> QED
      BY <1>1, <2>1, <3>1, ConstantTypes DEF NewRow, Row, NoRow
  <2>3. /\ payments' \in [Transactions -> Row \cup {NoRow}]
        /\ payments'[t] # NoRow /\ payments'[t].code = k
        /\ \A u \in Transactions \ {t} : payments'[u] = payments[u]
    BY <1>1, <1>2, <2>1, <2>2, InvParts DEF TypeOK
  <2>4. PICK s \in Request : /\ req' = [req EXCEPT ![c] = s]
                             /\ s.at = "clear" /\ s.plan = req[c].plan
                             /\ s.code = req[c].code /\ s.tx = req[c].tx
    BY <1>2, GoesTo, InvParts DEF Points
  <2>5. Fits(s)'
    BY <1>1, <2>1, <2>3, <2>4 DEF Fits, Buying, Holding
  <2>6. /\ req' \in [Requests -> Request]
        /\ \A d \in Requests : Fits(req[d])'
        /\ Apart'
    BY <1>1, <2>1, <2>3, <2>4, <2>5, FitsMovesOn DEF Kept
  <2>7. TypeOK'
    BY <1>1, <2>3, <2>6 DEF CheckoutInv, TypeOK
  <2>8. OnRecord'
    BY <1>1, <2>1, <2>3, InvParts DEF OnRecord
  <2> QED
    BY <2>6, <2>7, <2>8 DEF CheckoutInv
<1>3. CASE Goes(c, "winner") /\ UNCHANGED payments
  <2>1. PICK s \in Request : /\ req' = [req EXCEPT ![c] = s]
                             /\ s.at = "winner" /\ s.plan = req[c].plan
                             /\ s.code = req[c].code /\ s.tx = req[c].tx
    BY <1>3, GoesTo, InvParts DEF Points
  <2>2. Fits(s)' /\ s.tx \in Mine(c)
    BY <1>1, <2>1 DEF Fits, Buying, Holding
  <2> QED
    BY <1>1, <1>3, <2>1, <2>2, InvParts, Quiet
<1>4. CASE Ends(c) /\ UNCHANGED payments
  BY <1>1, <1>4, InvEnds, InvParts
<1> QED
  BY <1>2, <1>3, <1>4 DEF CreatePayment

LEMMA InvClearActiveDiscount ==
    ASSUME CheckoutInv, NEW c \in Requests, ClearActiveDiscount(c)
    PROVE  CheckoutInv'
<1> DEFINE r == req[c]
<1>1. /\ r \in Request /\ r.at = "clear" /\ r.plan \in Plans
      /\ r.tx \in issued /\ r.tx \notin queue /\ r.tx \in Transactions
      /\ payments[r.tx] # NoRow /\ payments[r.tx].code = r.code /\ Mine(c) = {r.tx}
      /\ UNCHANGED <<payments, redeemed, limiter, queue, issued, asked>>
      /\ discount' \in {None, discount}
  BY DEF ClearActiveDiscount, At, CheckoutInv, TypeOK, Request, Fits, Buying, Holding, Mine
<1>2. PICK s \in Request : /\ req' = [req EXCEPT ![c] = s] /\ Fits(s)'
                           /\ s.at \in Holding => s.tx \in Mine(c)
  <2>1. CASE Shows(c, r.tx)
    BY <2>1, IdleFits DEF Shows, Ends, Holding
  <2>2. CASE r.code \in Free /\ Goes(c, "push")
    <3>1. PICK s \in Request : /\ req' = [req EXCEPT ![c] = s]
                               /\ s.at = "push" /\ s.plan = req[c].plan
                               /\ s.code = req[c].code /\ s.tx = req[c].tx
      BY <2>2, GoesTo, InvParts DEF Points
    <3>2. Fits(s)' /\ s.tx \in Mine(c)
      BY <1>1, <2>2, <3>1 DEF Fits, Buying, Holding
    <3> QED
      BY <3>1, <3>2
  <2> QED
    BY <2>1, <2>2 DEF ClearActiveDiscount
<1>3. /\ req' \in [Requests -> Request]
      /\ \A d \in Requests : Fits(req[d])'
      /\ Apart'
  BY <1>1, <1>2, FitsMovesOn DEF Kept
<1>4. shown' \subseteq shown \cup {r.tx}
  BY DEF ClearActiveDiscount, Shows
<1>5. TypeOK'
  BY <1>1, <1>3, <1>4 DEF CheckoutInv, TypeOK
<1>6. OnRecord'
  BY <1>1, <1>4 DEF CheckoutInv, OnRecord
<1> QED
  BY <1>3, <1>5, <1>6 DEF CheckoutInv

\* A free payment is announced by the request that put it on record, and then
\* the request is over.
LEMMA InvPushFree ==
    ASSUME CheckoutInv, NEW c \in Requests, PushFree(c)
    PROVE  CheckoutInv'
<1>1. /\ req[c].tx \in issued /\ Mine(c) = {req[c].tx}
      /\ UNCHANGED <<payments, discount, redeemed, limiter, shown, issued, asked>>
      /\ queue' \subseteq queue \cup {req[c].tx}
      /\ req' = [req EXCEPT ![c] = Idle]
  BY InvParts DEF PushFree, Ends, At, Fits, Holding, Mine
<1>2. /\ req' \in [Requests -> Request]
      /\ \A d \in Requests : Fits(req[d])'
      /\ Apart'
  BY <1>1, IdleFits, FitsMovesOn DEF Kept, Holding
<1>3. TypeOK'
  BY <1>1, <1>2 DEF CheckoutInv, TypeOK
<1>4. OnRecord'
  BY <1>1 DEF CheckoutInv, OnRecord
<1> QED
  BY <1>2, <1>3, <1>4 DEF CheckoutInv

LEMMA InvUsePromoCode ==
    ASSUME CheckoutInv, NEW c \in Requests, UsePromoCode(c)
    PROVE  CheckoutInv'
<1> DEFINE k == req[c].code
<1>1. /\ At(c, "use") /\ k \in Codes
      /\ UNCHANGED <<payments, discount, limiter, queue, shown, issued, asked>>
  BY InvParts DEF UsePromoCode, At, Fits
<1>2. CASE redeemed' = redeemed \cup {k} /\ Goes(c, "set")
  <2>1. PICK s \in Request : /\ req' = [req EXCEPT ![c] = s]
                             /\ s.at = "set" /\ s.plan = req[c].plan
                             /\ s.code = req[c].code /\ s.tx = req[c].tx
    BY <1>2, GoesTo, InvParts DEF Points
  <2>2. s.code \in Codes /\ s.code \in redeemed'
    BY <1>1, <1>2, <2>1
  <2>3. Fits(s)' /\ s.at \notin Holding
    BY <2>1, <2>2 DEF Fits, Buying, Holding
  <2>4. /\ req' \in [Requests -> Request]
        /\ \A d \in Requests : Fits(req[d])'
        /\ Apart'
    BY <1>1, <1>2, <2>1, <2>3, FitsMovesOn DEF Kept
  <2>5. TypeOK'
    BY <1>1, <1>2, <2>4 DEF CheckoutInv, TypeOK
  <2>6. OnRecord'
    BY <1>1, <1>2 DEF CheckoutInv, OnRecord
  <2> QED
    BY <2>4, <2>5, <2>6 DEF CheckoutInv
<1>3. CASE Ends(c) /\ UNCHANGED redeemed
  BY <1>1, <1>3, InvEnds, InvParts
<1> QED
  BY <1>2, <1>3 DEF UsePromoCode

LEMMA InvSetActiveDiscount ==
    ASSUME CheckoutInv, NEW c \in Requests, SetActiveDiscount(c)
    PROVE  CheckoutInv'
<1>1. /\ discount' \in redeemed \cup {None} /\ discount' \in Codes \cup {None}
      /\ UNCHANGED <<payments, redeemed, limiter, queue, shown, issued, asked>>
      /\ req' = [req EXCEPT ![c] = Idle]
  BY InvParts DEF SetActiveDiscount, Ends, At, Fits, OnRecord, TypeOK
<1>2. /\ req' \in [Requests -> Request]
      /\ \A d \in Requests : Fits(req[d])'
      /\ Apart'
  BY <1>1, IdleFits, FitsMovesOn DEF Kept, Holding
<1>3. TypeOK'
  BY <1>1, <1>2 DEF CheckoutInv, TypeOK
<1>4. OnRecord'
  BY <1>1 DEF CheckoutInv, OnRecord
<1> QED
  BY <1>2, <1>3, <1>4 DEF CheckoutInv

\* What happens to the rows and to the limiters while nobody moves.
LEMMA RowSettles ==
    ASSUME NEW row \in Row
    PROVE  /\ Settled(row) \in Row /\ Settled(row).code = row.code
           /\ Settled(row).plan = row.plan /\ Settled(row).status = "SETTLED"
BY DEF Settled, Row, Status

LEMMA InvRows ==
    ASSUME CheckoutInv, payments' \in [Transactions -> Row \cup {NoRow}],
           \A t \in Transactions : Kept(t),
           UNCHANGED <<discount, redeemed, queue, shown, issued, req>>,
           limiter' \in [Kinds -> Key], asked' \in 0..MaxAsked
    PROVE  CheckoutInv'
<1>1. (\A d \in Requests : Fits(req[d])') /\ Apart' /\ OnRecord'
  BY FitsStands
<1>2. TypeOK'
  BY DEF CheckoutInv, TypeOK
<1> QED
  BY <1>1, <1>2 DEF CheckoutInv

LEMMA InvLimiter ==
    ASSUME CheckoutInv, (\E k \in Kinds : WindowEnds(k)) \/ ResetPaymentLimit
    PROVE  CheckoutInv'
<1>1. limiter' \in [Kinds -> Key]
  <2>1. NoKey \in Key /\ limiter \in [Kinds -> Key]
    BY DEF NoKey, Key, CheckoutInv, TypeOK
  <2> QED
    BY <2>1 DEF WindowEnds, ResetPaymentLimit
<1>2. payments \in [Transactions -> Row \cup {NoRow}] /\ asked \in 0..MaxAsked
  BY DEF CheckoutInv, TypeOK
<1> QED
  BY <1>1, <1>2, InvRows DEF WindowEnds, ResetPaymentLimit, Kept

\* One row changes.
LEMMA InvRow ==
    ASSUME CheckoutInv, NEW t \in Transactions, NEW row \in Row,
           payments[t] \in Row, row.code = payments[t].code,
           payments' = [payments EXCEPT ![t] = row],
           UNCHANGED <<discount, redeemed, limiter, queue, shown, issued, req>>,
           asked' \in 0..MaxAsked
    PROVE  CheckoutInv'
<1>1. NoRow \notin Row
  BY DEF NoRow, Row, Status
<1>2. payments' \in [Transactions -> Row \cup {NoRow}] /\ limiter \in [Kinds -> Key]
  BY DEF CheckoutInv, TypeOK
<1>3. ASSUME NEW u \in Transactions PROVE Kept(u)
  <2>1. CASE u = t
    BY <1>1, <2>1 DEF CheckoutInv, TypeOK, Kept
  <2>2. CASE u # t
    BY <2>2 DEF CheckoutInv, TypeOK, Kept
  <2> QED
    BY <2>1, <2>2
<1> QED
  BY <1>2, <1>3, InvRows

LEMMA InvOneRow ==
    ASSUME CheckoutInv, NEW t \in Transactions, Lapse(t) \/ TouchPayment(t) \/ Settle(t)
    PROVE  CheckoutInv'
<1>1. payments[t].status = "PENDING" /\ payments[t] \in Row
  BY InvParts, RowType DEF CheckoutInv, Lapse, TouchPayment, Settle, NoRow
<1>2. asked' \in 0..MaxAsked
  <2>1. asked \in 0..MaxAsked
    BY DEF CheckoutInv, TypeOK
  <2> QED
    BY <2>1, ConstantTypes DEF Lapse, TouchPayment, Settle, Sets
<1>3. CASE Lapse(t)
  <2>1. [payments[t] EXCEPT !.lapsed = TRUE] \in Row
    BY <1>1 DEF Row
  <2>2. [payments[t] EXCEPT !.lapsed = TRUE].code = payments[t].code
    BY <1>1 DEF Row
  <2> QED
    BY <1>1, <1>2, <1>3, <2>1, <2>2, InvRow DEF Lapse, Sets
<1>4. CASE TouchPayment(t)
  <2>1. [payments[t] EXCEPT !.lapsed = FALSE] \in Row
    BY <1>1 DEF Row
  <2>2. [payments[t] EXCEPT !.lapsed = FALSE].code = payments[t].code
    BY <1>1 DEF Row
  <2>3. payments' = [payments EXCEPT ![t] = [payments[t] EXCEPT !.lapsed = FALSE]]
    BY <1>4, <1>1 DEF TouchPayment, CheckoutInv, TypeOK
  <2> QED
    BY <1>1, <1>2, <1>4, <2>1, <2>2, <2>3, InvRow DEF TouchPayment
<1>5. CASE Settle(t)
  BY <1>1, <1>2, <1>5, RowSettles, InvRow DEF Settle, Sets
<1> QED
  BY <1>3, <1>4, <1>5

LEMMA InvMarkExpiredPayments ==
    ASSUME CheckoutInv, MarkExpiredPayments
    PROVE  CheckoutInv'
<1>1. NoRow \notin Row /\ ~NoRow.lapsed
  BY DEF NoRow, Row, Status
<1>2. ASSUME NEW t \in Transactions
      PROVE  payments'[t] \in Row \cup {NoRow} /\ Kept(t)
  <2>1. payments'[t] = IF payments[t].lapsed THEN Settled(payments[t]) ELSE payments[t]
    BY DEF MarkExpiredPayments
  <2>2. payments[t] = NoRow \/ payments[t] \in Row
    BY DEF CheckoutInv, TypeOK
  <2>3. CASE payments[t] = NoRow
    BY <1>1, <2>1, <2>3 DEF Kept
  <2>4. CASE payments[t] \in Row
    BY <1>1, <2>1, <2>4, RowSettles DEF Kept
  <2> QED
    BY <2>2, <2>3, <2>4
<1>3. payments' \in [Transactions -> Row \cup {NoRow}]
  BY <1>2 DEF MarkExpiredPayments
<1>4. limiter \in [Kinds -> Key] /\ asked \in 0..MaxAsked
  BY DEF CheckoutInv, TypeOK
<1> QED
  BY <1>2, <1>3, <1>4, InvRows DEF MarkExpiredPayments

LEMMA InvNext == CheckoutInv /\ [Next]_vars => CheckoutInv'
<1> SUFFICES ASSUME CheckoutInv, [Next]_vars PROVE CheckoutInv'
  OBVIOUS
<1>1. ASSUME NEW c \in Requests, NEW p \in Plans,
             InitiatePayment(c, p) \/ InitiateDeviceExpansionPayment(c, p)
      PROVE  CheckoutInv'
  BY <1>1, InvInitiate
<1>2. ASSUME NEW c \in Requests, NEW k \in Codes, RedeemCode(c, k) PROVE CheckoutInv'
  BY <1>2, InvRedeemCode
<1>3. ASSUME NEW c \in Requests, Serve(c) PROVE CheckoutInv'
  BY <1>3, InvCheckAPIRateLimit, InvCountSlots, InvExpireSlots, InvFindPending,
     InvActiveDiscount, InvCreateAtGateway, InvCreatePayment, InvShowWinner,
     InvClearActiveDiscount, InvPushFree, InvUsePromoCode, InvSetActiveDiscount DEF Serve
<1>4. ASSUME NEW c \in Requests, Crash(c) PROVE CheckoutInv'
  BY <1>4, InvEnds, InvParts DEF Crash
<1>5. CASE UNCHANGED vars
  <2>1. limiter \in [Kinds -> Key] /\ asked \in 0..MaxAsked
        /\ payments \in [Transactions -> Row \cup {NoRow}]
    BY DEF CheckoutInv, TypeOK
  <2> QED
    BY <1>5, <2>1, InvRows DEF vars, Kept
<1> QED
  BY <1>1, <1>2, <1>3, <1>4, <1>5, InvLimiter, InvOneRow, InvMarkExpiredPayments DEF Next

\* Every state of the checkout is well typed, whatever fails and however the
\* purchases of one user interleave.
THEOREM CheckoutTypes == Spec => []TypeOK
<1>1. CheckoutInv => TypeOK
  BY DEF CheckoutInv
<1> QED
  BY <1>1, InvInit, InvNext, PTL DEF Spec

-----------------------------------------------------------------------------
(* The checkout implements Till.                                           *)

Rows == [t \in Transactions |-> payments[t].plan]
Paid == [t \in Transactions |-> payments[t].code]
OpenOnes == {t \in Transactions : payments[t].status = "PENDING"}
Freed    == {t \in Transactions : payments[t].code \in Free}

\* What no promise is about.
Silent == UNCHANGED <<redeemed, shown, queue, Rows, Paid, OpenOnes, Freed>>

LEMMA SilentStep ==
    ASSUME UNCHANGED <<redeemed, shown, queue, payments>>
    PROVE  Silent
BY DEF Silent, Rows, Paid, OpenOnes, Freed

LEMMA SilentStutters == Silent => UNCHANGED T!vars
BY DEF Silent, T!vars, Rows, Paid, OpenOnes, Freed

LEMMA TillInit == Init => T!Init
<1> SUFFICES ASSUME Init PROVE T!Init
  OBVIOUS
<1>1. \A t \in Transactions : /\ payments[t].plan = None /\ payments[t].code = None
                              /\ payments[t].status # "PENDING"
  BY DEF Init, NoRow
<1>2. redeemed \subseteq Codes /\ shown = {} /\ queue = {}
  BY DEF Init
<1> QED
  BY <1>1, <1>2, ConstantTypes DEF T!Init

\* A payment that is shown is on record.
LEMMA TillShows ==
    ASSUME CheckoutInv, NEW t \in Transactions, payments[t] # NoRow,
           shown' = shown \cup {t}, UNCHANGED <<redeemed, queue, payments>>
    PROVE  T!Next
<1>1. payments[t].plan # None
  BY RowType DEF CheckoutInv
<1>2. T!Show(t)
  BY <1>1 DEF T!Show
<1> QED
  BY <1>2 DEF T!Next

LEMMA TillShowsLive ==
    ASSUME CheckoutInv, NEW p, NEW t \in Live(p),
           shown' = shown \cup {t}, UNCHANGED <<redeemed, queue, payments>>
    PROVE  T!Next
<1>1. t \in Transactions /\ payments[t] # NoRow
  BY LiveRows DEF CheckoutInv
<1> QED
  BY <1>1, TillShows

\* The insert makes an offer, or grants what is free.
LEMMA TillCreatePayment ==
    ASSUME CheckoutInv, NEW c \in Requests, CreatePayment(c)
    PROVE  T!Next \/ UNCHANGED T!vars
<1> DEFINE r == req[c]
<1>1. /\ r.plan \in Plans /\ r.code \in redeemed \cup {None} /\ r.code \in Codes \cup {None}
      /\ r.tx \in Transactions /\ payments[r.tx] = NoRow /\ TypeOK
      /\ UNCHANGED <<redeemed, queue, shown>>
  BY DEF CreatePayment, At, CheckoutInv, TypeOK, Request, OnRecord, Fits, Buying, Holding
<1>2. CASE UNCHANGED payments
  BY <1>1, <1>2, SilentStep, SilentStutters
<1>3. CASE /\ payments' = [payments EXCEPT ![r.tx] = NewRow(r)]
           /\ ~(NewRow(r).status = "PENDING" /\ Pending(r.plan) # {})
  <2>1. PICK t, p, k : t = r.tx /\ p = r.plan /\ k = r.code
    OBVIOUS
  <2>2. /\ NewRow(r).plan = p /\ NewRow(r).code = k
        /\ NewRow(r).status = IF k \in Free THEN "SETTLED" ELSE "PENDING"
    BY <2>1 DEF NewRow
  <2>3. /\ payments'[t].plan = p /\ payments'[t].code = k
        /\ payments'[t].status = IF k \in Free THEN "SETTLED" ELSE "PENDING"
        /\ \A u \in Transactions \ {t} : payments'[u] = payments[u]
    BY <1>1, <1>3, <2>1, <2>2 DEF TypeOK
  <2>4. /\ payments[t].plan = None /\ payments[t].code = None
        /\ payments[t].status # "PENDING"
    BY <1>1, <2>1 DEF NoRow
  <2>5. /\ Rows' = [Rows EXCEPT ![t] = p] /\ Paid' = [Paid EXCEPT ![t] = k]
        /\ Rows[t] = None
    BY <1>1, <2>1, <2>3, <2>4 DEF Rows, Paid
  <2>6. CASE k \in Free
    <3>1. OpenOnes' = OpenOnes /\ Freed' = Freed \cup {t}
      BY <1>1, <2>1, <2>3, <2>4, <2>6, ConstantTypes DEF OpenOnes, Freed
    <3>2. k \in redeemed \cap Free
      BY <1>1, <2>1, <2>6, ConstantTypes
    <3>3. T!Grant(t, p, k)
      BY <1>1, <2>5, <3>1, <3>2 DEF T!Grant, T!Records, Rows, Paid, OpenOnes, Freed
    <3> QED
      BY <1>1, <2>1, <3>3 DEF T!Next
  <2>7. CASE k \notin Free
    <3>1. OpenOnes' = OpenOnes \cup {t} /\ Freed' = Freed
      BY <1>1, <2>1, <2>3, <2>4, <2>7, ConstantTypes DEF OpenOnes, Freed
    <3>2. Pending(p) = {}
      BY <1>3, <2>1, <2>2, <2>7
    <3>3. \A other \in OpenOnes : Rows[other] # p
      BY <3>2 DEF OpenOnes, Rows, Pending
    <3>4. T!Offer(t, p, k)
      BY <1>1, <2>1, <2>5, <2>7, <3>1, <3>3
         DEF T!Offer, T!Records, Rows, Paid, OpenOnes, Freed
    <3> QED
      BY <1>1, <2>1, <3>4 DEF T!Next
  <2> QED
    BY <2>6, <2>7
<1> QED
  BY <1>2, <1>3 DEF CreatePayment

\* The worker hears of a free payment that is on record, once.
LEMMA TillPushFree ==
    ASSUME CheckoutInv, NEW c \in Requests, PushFree(c)
    PROVE  T!Next \/ UNCHANGED T!vars
<1> DEFINE t == req[c].tx
<1>1. /\ t \in Transactions /\ t \notin queue /\ payments[t].code \in Free
      /\ UNCHANGED <<redeemed, shown, payments>> /\ queue' \in {queue \cup {t}, queue}
  BY DEF PushFree, At, CheckoutInv, TypeOK, Fits, Holding
<1>2. CASE queue' = queue
  BY <1>1, <1>2, SilentStep, SilentStutters
<1>3. CASE queue' = queue \cup {t}
  <2>1. T!Announce(t)
    BY <1>1, <1>3 DEF T!Announce
  <2> QED
    BY <1>1, <2>1 DEF T!Next
<1> QED
  BY <1>1, <1>2, <1>3

LEMMA TillUsePromoCode ==
    ASSUME CheckoutInv, NEW c \in Requests, UsePromoCode(c)
    PROVE  T!Next \/ UNCHANGED T!vars
<1> DEFINE k == req[c].code
<1>1. k \in Codes /\ UNCHANGED <<shown, queue, payments>>
  BY InvParts DEF UsePromoCode, At, Fits
<1>2. CASE k \notin redeemed /\ redeemed' = redeemed \cup {k}
  <2>1. T!Redeem(k)
    BY <1>1, <1>2 DEF T!Redeem
  <2> QED
    BY <1>1, <2>1 DEF T!Next
<1>3. CASE UNCHANGED redeemed
  BY <1>1, <1>3, SilentStep, SilentStutters
<1> QED
  BY <1>2, <1>3 DEF UsePromoCode

\* An offer is settled, or lapses, which no promise is about.
LEMMA TillRows ==
    ASSUME CheckoutInv, UNCHANGED <<redeemed, shown, queue>>,
           \A t \in Transactions :
                \/ payments'[t] = payments[t]
                \/ /\ payments'[t].plan = payments[t].plan
                   /\ payments'[t].code = payments[t].code
                   /\ payments'[t].status \in {payments[t].status, "SETTLED"}
    PROVE  T!Next
<1>1. OpenOnes' \in SUBSET OpenOnes
  BY DEF OpenOnes
<1>2. Rows' = Rows /\ Paid' = Paid /\ Freed' = Freed
  BY DEF Rows, Paid, Freed
<1>3. T!Close
  BY <1>1, <1>2 DEF T!Close, OpenOnes, Rows, Paid, Freed
<1> QED
  BY <1>3 DEF T!Next

LEMMA TillOneRow ==
    ASSUME CheckoutInv, NEW t \in Transactions, Lapse(t) \/ TouchPayment(t) \/ Settle(t)
    PROVE  T!Next
<1>1. /\ payments[t] \in Row /\ payments \in [Transactions -> Row \cup {NoRow}]
      /\ UNCHANGED <<redeemed, shown, queue>>
  BY RowType DEF CheckoutInv, TypeOK, Lapse, TouchPayment, Settle, Sets, NoRow
<1>2. \/ payments' = [payments EXCEPT ![t] = [payments[t] EXCEPT !.lapsed = TRUE]]
      \/ payments' = [payments EXCEPT ![t] = [payments[t] EXCEPT !.lapsed = FALSE]]
      \/ payments' = [payments EXCEPT ![t] = Settled(payments[t])]
  BY <1>1 DEF Lapse, TouchPayment, Settle, Sets
<1>3. \A row \in {[payments[t] EXCEPT !.lapsed = TRUE], [payments[t] EXCEPT !.lapsed = FALSE],
                  Settled(payments[t])} :
        /\ row.plan = payments[t].plan /\ row.code = payments[t].code
        /\ row.status \in {payments[t].status, "SETTLED"}
  BY <1>1, RowSettles DEF Row
<1> QED
  BY <1>1, <1>2, <1>3, TillRows

LEMMA TillMarkExpiredPayments ==
    ASSUME CheckoutInv, MarkExpiredPayments
    PROVE  T!Next
<1>1. ~NoRow.lapsed
  BY DEF NoRow
<1>2. ASSUME NEW t \in Transactions
      PROVE  \/ payments'[t] = payments[t]
             \/ /\ payments'[t].plan = payments[t].plan
                /\ payments'[t].code = payments[t].code
                /\ payments'[t].status \in {payments[t].status, "SETTLED"}
  <2>1. payments'[t] = IF payments[t].lapsed THEN Settled(payments[t]) ELSE payments[t]
    BY DEF MarkExpiredPayments
  <2>2. payments[t].lapsed => payments[t] \in Row
    BY <1>1 DEF CheckoutInv, TypeOK
  <2> QED
    BY <2>1, <2>2, RowSettles
<1> QED
  BY <1>2, TillRows DEF MarkExpiredPayments

LEMMA TillServe ==
    ASSUME CheckoutInv, NEW c \in Requests, Serve(c)
    PROVE  T!Next \/ UNCHANGED T!vars
<1>1. CASE \/ CheckAPIRateLimit(c) \/ CountSlots(c) \/ ExpireSlots(c) \/ ActiveDiscount(c)
           \/ CreateAtGateway(c) \/ SetActiveDiscount(c)
  BY <1>1, SilentStep, SilentStutters
     DEF CheckAPIRateLimit, CountSlots, ExpireSlots, ActiveDiscount, CreateAtGateway,
         SetActiveDiscount
<1>2. CASE FindPending(c) \/ ShowWinner(c)
  <2>1. CASE UNCHANGED shown
    BY <1>2, <2>1, SilentStep, SilentStutters DEF FindPending, ShowWinner
  <2>2. CASE \E t \in Live(req[c].plan) : Shows(c, t)
    BY <1>2, <2>2, TillShowsLive DEF FindPending, ShowWinner, Shows
  <2> QED
    BY <1>2, <2>1, <2>2 DEF FindPending, ShowWinner
<1>3. CASE ClearActiveDiscount(c)
  <2>1. /\ req[c].tx \in Transactions /\ payments[req[c].tx] # NoRow
        /\ UNCHANGED <<redeemed, queue, payments>>
    BY <1>3 DEF ClearActiveDiscount, At, CheckoutInv, TypeOK, Fits, Holding
  <2>2. CASE UNCHANGED shown
    BY <2>1, <2>2, SilentStep, SilentStutters
  <2>3. CASE Shows(c, req[c].tx)
    BY <2>1, <2>3, TillShows DEF Shows
  <2> QED
    BY <1>3, <2>2, <2>3 DEF ClearActiveDiscount
<1> QED
  BY <1>1, <1>2, <1>3, TillCreatePayment, TillPushFree, TillUsePromoCode DEF Serve

LEMMA TillNext == CheckoutInv /\ [Next]_vars => [T!Next]_(T!vars)
<1> SUFFICES ASSUME CheckoutInv, [Next]_vars PROVE T!Next \/ UNCHANGED T!vars
  OBVIOUS
<1>1. ASSUME NEW c \in Requests, NEW p \in Plans, InitiatePayment(c, p)
      PROVE  T!Next \/ UNCHANGED T!vars
  <2>1. CASE UNCHANGED shown
    BY <1>1, <2>1, SilentStep, SilentStutters DEF InitiatePayment
  <2>2. CASE \E t \in Live(p) : shown' = shown \cup {t}
    BY <1>1, <2>2, TillShowsLive DEF InitiatePayment
  <2> QED
    BY <1>1, <2>1, <2>2 DEF InitiatePayment
<1>2. ASSUME NEW c \in Requests,
             \/ \E p \in Plans : InitiateDeviceExpansionPayment(c, p)
             \/ \E k \in Codes : RedeemCode(c, k)
             \/ Crash(c)
      PROVE  T!Next \/ UNCHANGED T!vars
  BY <1>2, SilentStep, SilentStutters DEF InitiateDeviceExpansionPayment, RedeemCode, Crash
<1>3. CASE UNCHANGED vars \/ (\E k \in Kinds : WindowEnds(k)) \/ ResetPaymentLimit
  BY <1>3, SilentStep, SilentStutters DEF vars, WindowEnds, ResetPaymentLimit
<1> QED
  BY <1>1, <1>2, <1>3, TillServe, TillOneRow, TillMarkExpiredPayments DEF Next

\* However purchases of one plan race each other, lapse and fail: one open
\* offer per plan, none shown that is not on record, no discount without a
\* code that is used up, and what is free is on record before the worker hears
\* of it, once.
THEOREM CheckoutKeepsPromises == Spec => ImplementsTill
<1>1. Spec => []CheckoutInv
  BY InvInit, InvNext, PTL DEF Spec
<1> QED
  BY <1>1, TillInit, TillNext, PTL DEF Spec, ImplementsTill, T!Spec
=============================================================================
