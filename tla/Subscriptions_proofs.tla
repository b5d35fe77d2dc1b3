------------------------ MODULE Subscriptions_proofs ------------------------
(***************************************************************************)
(* The subscription rows, for any plans, any retry limit, any requesters   *)
(* and any faults: every state is well typed, the panel is never ahead of  *)
(* the database, and the rows implement the account of Entitlement.        *)
(***************************************************************************)
EXTENDS SubscriptionProperties, SequenceTheorems, TLAPS

-----------------------------------------------------------------------------
(* Type correctness.                                                       *)

LEMMA ConstantTypes ==
    /\ Plans \subseteq Nat
    /\ TrialDays \in Nat /\ MaxJobRetries \in Nat /\ Horizon \in Nat
    /\ MaxPayments \in Nat
BY SubscriptionAssumption

\* The panel's account is well typed after each of its calls.
LEMMA PanelType ==
    ASSUME TypeOK, NEW e \in Int
    PROVE  /\ Renewed(e) \in Account /\ Granted(e) \in Account
           /\ Disabled \in Account /\ NewAccount(e) \in Account
           /\ [panel EXCEPT !.enabled = TRUE] \in Account
           /\ UpdateEnableAnyway(e) => panel' \in Account
           /\ UpdateAndEnable(e) => panel' \in Account
           /\ UpdateFails(e) => panel' \in Account
<1>1. /\ Renewed(e) \in Account /\ Granted(e) \in Account
      /\ Disabled \in Account /\ NewAccount(e) \in Account
      /\ [panel EXCEPT !.enabled = TRUE] \in Account
  BY DEF TypeOK, Account, Renewed, Granted, Disabled, NewAccount
<1>2. panel \in Account
  BY DEF TypeOK
<1> QED
  BY <1>1, <1>2 DEF UpdateEnableAnyway, UpdateAndEnable, UpdateFails

\* ... and so are the account and the link to it, however a request that knows
\* of no account ends.
LEMMA LinkType ==
    ASSUME TypeOK, NEW e \in Int,
           \/ CreateAccount(e) \/ RecoverAccount(e) \/ AccountFails(e)
    PROVE  panel' \in Account /\ linked' \in BOOLEAN
<1>1. panel \in Account /\ linked \in BOOLEAN
  BY DEF TypeOK
<1>2. CASE CreateAccount(e)
  BY <1>1, <1>2, PanelType DEF CreateAccount, Link
<1>3. CASE RecoverAccount(e)
  BY <1>1, <1>3, PanelType DEF RecoverAccount, Link
<1>4. CASE AccountFails(e)
  BY <1>1, <1>4, PanelType DEF AccountFails
<1> QED
  BY <1>2, <1>3, <1>4

\* Requests are records over the requesters.
LEMMA RequestType ==
    ASSUME TypeOK, NEW x, NEW r \in Request
    PROVE  [req EXCEPT ![x] = r] \in [Requesters -> Request]
BY DEF TypeOK

LEMMA IdleType == Idle \in Request
BY DEF Idle, Request


LEMMA BeginType ==
    ASSUME TypeOK, NEW x, NEW date \in Int, Begin(x, date)
    PROVE  req' \in [Requesters -> Request]
<1>1. [pc |-> "tx", linked |-> linked, date |-> date] \in Request
  BY DEF TypeOK, Request
<1> QED
  BY <1>1, RequestType DEF Begin, Advance

LEMMA FinishType ==
    ASSUME TypeOK, NEW x, Finish(x)
    PROVE  req' \in [Requesters -> Request]
BY RequestType, IdleType DEF Finish, Advance

LEMMA CommittedType ==
    ASSUME TypeOK, NEW x \in Requesters, NEW e \in Int, Committed(x, e)
    PROVE  req' \in [Requesters -> Request]
<1>1. [req[x] EXCEPT !.pc = "panel", !.date = e] \in Request
  BY DEF TypeOK, Request
<1> QED
  BY <1>1, RequestType DEF Committed, Advance

LEMMA StoreType ==
    ASSUME TypeOK, NEW newRows \in Seq(Row), NEW e \in Int, Store(newRows, e)
    PROVE  rows' \in Seq(Row) /\ peak' \in Int
BY DEF TypeOK, Store, Later

LEMMA RowType ==
    ASSUME TypeOK, NEW i \in DOMAIN rows
    PROVE  /\ rows[i] \in Row
           /\ rows[i].expires \in Int /\ rows[i].status \in RowStatus
           /\ day \in Int
<1>1. rows[i] \in Row
  BY DEF TypeOK
<1> QED
  BY <1>1 DEF Row, TypeOK

LEMMA ReplaceType ==
    ASSUME TypeOK, NEW i \in DOMAIN rows, NEW r \in Row
    PROVE  [rows EXCEPT ![i] = r] \in Seq(Row)
BY DEF TypeOK

LEMMA RetryType ==
    ASSUME TypeOK, NEW b, RetryJob(b) \/ EndJob(b) \/ Again
    PROVE  job' \in [days : Plans \cup {0}, tries : 0..MaxJobRetries]
<1>1. NoJob \in [days : Plans \cup {0}, tries : 0..MaxJobRetries]
  BY ConstantTypes DEF NoJob
<1>2. job.tries < MaxJobRetries =>
        [job EXCEPT !.tries = @ + 1] \in [days : Plans \cup {0}, tries : 0..MaxJobRetries]
  <2>1. job \in [days : Plans \cup {0}, tries : 0..MaxJobRetries]
    BY DEF TypeOK
  <2>2. job.tries < MaxJobRetries => job.tries + 1 \in 0..MaxJobRetries
    BY <2>1, ConstantTypes
  <2> QED
    BY <2>1, <2>2
<1> QED
  BY <1>1, <1>2 DEF RetryJob, EndJob, Again, TypeOK

LEMMA ConfirmType ==
    ASSUME TypeOK, NEW d \in Plans, Confirm(d)
    PROVE  TypeOK'
<1>1. paid' \in [Plans -> 0..MaxPayments]
  BY ConstantTypes DEF TypeOK, Confirm
<1>2. job' \in [days : Plans \cup {0}, tries : 0..MaxJobRetries]
  BY ConstantTypes DEF Confirm
<1> QED
  BY <1>1, <1>2 DEF TypeOK, Confirm, accountVars, history

LEMMA ReadUserType ==
    ASSUME TypeOK, NEW b, ReadUser(b)
    PROVE  TypeOK'
<1>1. day \in Int
  BY DEF TypeOK
<1>2. req' \in [Requesters -> Request]
  BY <1>1, BeginType DEF ReadUser
<1> QED
  BY <1>2 DEF TypeOK, ReadUser, accountVars, paymentVars, history

LEMMA ExtendOrCreateType ==
    ASSUME TypeOK, NEW now \in Int, NEW d \in Plans, NEW e, ExtendOrCreateSub(now, d, e)
    PROVE  e \in Int /\ rows' \in Seq(Row) /\ peak' \in Int
<1>1. CASE \E i \in DOMAIN rows : ExtendRow(i, d, e)
  <2>1. PICK i \in DOMAIN rows : ExtendRow(i, d, e)
    BY <1>1
  <2>2. e \in Int
    BY <2>1, RowType, ConstantTypes DEF ExtendRow, Extended, Later
  <2>3. [status |-> "active", expires |-> e] \in Row
    BY <2>2 DEF Row, RowStatus
  <2> QED
    BY <2>1, <2>2, <2>3, ReplaceType, StoreType DEF ExtendRow
<1>2. CASE CreateRow(now, d, e)
  <2>1. e \in Int
    BY <1>2, ConstantTypes DEF CreateRow
  <2>2. <<[status |-> "active", expires |-> e]>> \in Seq(Row)
    BY <2>1 DEF Row, RowStatus
  <2> QED
    BY <1>2, <2>1, <2>2, StoreType DEF CreateRow
<1> QED
  BY <1>1, <1>2 DEF ExtendOrCreateSub

LEMMA PurchaseType ==
    ASSUME TypeOK, NEW b \in Buyers, NEW d \in Plans, NEW e, Purchase(b, d, e)
    PROVE  TypeOK'
<1>1. b \in Requesters
  BY DEF Requesters
<1>2. req[b].date \in Int
  BY <1>1 DEF TypeOK, Request
<1>3. e \in Int /\ rows' \in Seq(Row) /\ peak' \in Int
  BY <1>2, ExtendOrCreateType DEF Purchase
<1>4. req' \in [Requesters -> Request]
  BY <1>1, <1>3, CommittedType DEF Purchase
<1> QED
  BY <1>3, <1>4 DEF TypeOK, Purchase, accountVars, paymentVars

LEMMA PurchaseFailsType ==
    ASSUME TypeOK, NEW b, PurchaseFails(b)
    PROVE  TypeOK'
BY FinishType, RetryType DEF TypeOK, PurchaseFails, accountVars, paymentVars, history

LEMMA PurchasePanelType ==
    ASSUME TypeOK, NEW b, PurchaseReachesPanel(b) \/ PurchaseMissesPanel(b)
    PROVE  TypeOK'
<1>1. b \in Buyers /\ b \in Requesters
  BY DEF PurchaseReachesPanel, PurchaseMissesPanel, Requesters
<1>2. req[b].date \in Int /\ linked \in BOOLEAN
  BY <1>1 DEF TypeOK, Request
<1>3. panel' \in Account /\ linked' \in BOOLEAN
  BY <1>2, PanelType, LinkType DEF PurchaseReachesPanel, PurchaseMissesPanel
<1>4. req' \in [Requesters -> Request]
  BY FinishType DEF PurchaseReachesPanel, PurchaseMissesPanel
<1>5. job' \in [days : Plans \cup {0}, tries : 0..MaxJobRetries]
  BY RetryType DEF PurchaseReachesPanel, PurchaseMissesPanel
<1> QED
  BY <1>3, <1>4, <1>5
     DEF TypeOK, PurchaseReachesPanel, PurchaseMissesPanel, paymentVars, history

LEMMA ReadTrialUserType ==
    ASSUME TypeOK, NEW t, ReadTrialUser(t)
    PROVE  TypeOK'
<1>1. day + TrialDays \in Int
  BY ConstantTypes DEF TypeOK
<1>2. req' \in [Requesters -> Request]
  BY <1>1, BeginType DEF ReadTrialUser
<1> QED
  BY <1>2 DEF TypeOK, ReadTrialUser, accountVars, paymentVars, history

LEMMA ActivateTrialType ==
    ASSUME TypeOK, NEW t, ActivateTrial(t)
    PROVE  TypeOK'
<1> DEFINE e == req[t].date
<1>1. t \in Requesters
  BY DEF ActivateTrial, Requesters
<1>2. e \in Int
  BY <1>1 DEF TypeOK, Request
<1>3. [status |-> "trial", expires |-> e] \in Row
  BY <1>2 DEF Row, RowStatus
<1>4. Append(rows, [status |-> "trial", expires |-> e]) \in Seq(Row)
  BY <1>3 DEF TypeOK
<1>5. /\ rows' \in Seq(Row) /\ peak' \in Int /\ trialUsed' \in BOOLEAN
      /\ req' \in [Requesters -> Request] /\ bought' \in Nat
  <2>1. CASE TrialUnclaimed /\ Committed(t, e)
             /\ Store(Append(rows, [status |-> "trial", expires |-> e]), e)
             /\ trialUsed' = TRUE /\ UNCHANGED bought
    BY <2>1, <1>1, <1>2, <1>4, StoreType, CommittedType DEF TypeOK
  <2>2. CASE Refused(t) /\ UNCHANGED <<rows, trialUsed, history>>
    BY <2>2, FinishType DEF TypeOK, Refused, history
  <2> QED
    BY <2>1, <2>2 DEF ActivateTrial
<1> QED
  BY <1>5 DEF TypeOK, ActivateTrial, paymentVars

LEMMA TrialPanelType ==
    ASSUME TypeOK, NEW t, TrialPanel(t)
    PROVE  TypeOK'
<1>1. t \in Requesters
  BY DEF TrialPanel, Requesters
<1>2. req[t].date \in Int /\ linked \in BOOLEAN
  BY <1>1 DEF TypeOK, Request
<1>3. panel' \in Account /\ linked' \in BOOLEAN
  BY <1>2, PanelType, LinkType DEF TrialPanel
<1> QED
  BY <1>3, FinishType DEF TypeOK, TrialPanel, paymentVars, history

LEMMA GetConnectionType ==
    ASSUME TypeOK, GetConnection
    PROVE  TypeOK'
<1>1. PICK i \in DOMAIN rows : Begin("repair", rows[i].expires)
  BY DEF GetConnection
<1>2. req' \in [Requesters -> Request]
  BY <1>1, RowType, BeginType
<1> QED
  BY <1>2 DEF TypeOK, GetConnection, accountVars, paymentVars, history

LEMMA LazyRepairType ==
    ASSUME TypeOK, LazyRepair
    PROVE  TypeOK'
<1>1. req["repair"].date \in Int
  BY DEF TypeOK, Request, Requesters
<1>2. panel' \in Account /\ linked' \in BOOLEAN
  BY <1>1, LinkType DEF LazyRepair, Link, TypeOK
<1> QED
  BY <1>2, FinishType DEF TypeOK, LazyRepair, paymentVars, history

LEMMA RevertType ==
    ASSUME TypeOK, NEW d \in Plans, Revert(d)
    PROVE  TypeOK'
<1>1. returned' \in [Plans -> 0..MaxPayments]
  BY ConstantTypes DEF TypeOK, Revert
<1>2. rows' \in Seq(Row) /\ undo' \in BOOLEAN
  <2>1. CASE rows = <<>> /\ UNCHANGED <<rows, undo>>
    BY <2>1 DEF TypeOK
  <2>2. ASSUME NEW i \in DOMAIN rows, Contract(i, d)
        PROVE  rows' \in Seq(Row) /\ undo' \in BOOLEAN
    <3> DEFINE e == rows[i].expires - d
               r == [status |-> IF e <= day THEN "reverted" ELSE rows[i].status,
                     expires |-> e]
    <3>1. r \in Row
      BY RowType, ConstantTypes DEF Row, RowStatus
    <3>2. rows' = [rows EXCEPT ![i] = r] /\ undo' = (e <= day)
      BY <2>2 DEF Contract
    <3> QED
      BY <3>1, <3>2, ReplaceType
  <2> QED
    BY <2>1, <2>2 DEF Revert
<1> QED
  BY <1>1, <1>2 DEF TypeOK, Revert, accountVars, history


LEMMA DisableRevertedType ==
    ASSUME TypeOK, DisableReverted
    PROVE  TypeOK'
<1>1. panel' \in Account
  BY PanelType DEF DisableReverted, Disable, TypeOK
<1> QED
  BY <1>1 DEF TypeOK, DisableReverted, accountVars, paymentVars, history

LEMMA SweepType ==
    ASSUME TypeOK, Sweep
    PROVE  TypeOK'
<1>1. CASE ListExpired
  <2>1. sweep' \in [pc : {"idle", "mark", "disable"}, listed : BOOLEAN]
    <3>1. CASE sweep' = [pc |-> "mark", listed |-> \E i \in DOMAIN rows : Lapsed(rows[i])]
      <4>1. (\E i \in DOMAIN rows : Lapsed(rows[i])) \in BOOLEAN
        OBVIOUS
      <4> QED
        BY <3>1, <4>1
    <3>2. CASE sweep' = [pc |-> "mark", listed |-> FALSE]
      BY <3>2
    <3> QED
      BY <1>1, <3>1, <3>2 DEF ListExpired
  <2> QED
    BY <1>1, <2>1 DEF TypeOK, ListExpired, accountVars, paymentVars, history
<1>2. CASE UpdateExpired
  <2>1. sweep' \in [pc : {"idle", "mark", "disable"}, listed : BOOLEAN]
    <3>1. /\ SweepDone \in [pc : {"idle", "mark", "disable"}, listed : BOOLEAN]
          /\ [sweep EXCEPT !.pc = "disable"]
                \in [pc : {"idle", "mark", "disable"}, listed : BOOLEAN]
      BY DEF TypeOK, SweepDone
    <3>2. sweep' \in {SweepDone, [sweep EXCEPT !.pc = "disable"]}
      BY <1>2 DEF UpdateExpired
    <3> QED
      BY <3>1, <3>2
  <2>2. [i \in DOMAIN rows |-> Marked(rows[i])] \in Seq(Row)
    <3>1. \A i \in DOMAIN rows : Marked(rows[i]) \in Row
      BY RowType DEF Row, Marked, RowStatus
    <3>2. DOMAIN rows = 1..Len(rows) /\ Len(rows) \in Nat
      BY DEF TypeOK
    <3> DEFINE newRows == [i \in DOMAIN rows |-> Marked(rows[i])]
    <3>3. newRows \in [1..Len(rows) -> Row]
      BY <3>1, <3>2
    <3> HIDE DEF newRows
    <3>4. newRows \in Seq(Row)
      BY <3>2, <3>3, SeqDef
    <3> QED
      BY <3>4 DEF newRows
  <2>3. rows' \in Seq(Row)
    BY <1>2, <2>2 DEF TypeOK, UpdateExpired
  <2> QED
    BY <1>2, <2>1, <2>3 DEF TypeOK, UpdateExpired, accountVars, paymentVars, history
<1>3. CASE DisableExpired
  <2>1. panel' \in Account
    BY <1>3, PanelType DEF DisableExpired, Disable, TypeOK
  <2> QED
    BY <1>3, <2>1 DEF TypeOK, DisableExpired, SweepDone, accountVars, paymentVars, history
<1> QED
  BY <1>1, <1>2, <1>3 DEF Sweep

LEMMA ReadRowType ==
    ASSUME TypeOK, NEW i \in DOMAIN rows, NEW s \in {"active", "expired", "canceled"},
           ReadRow(i, s)
    PROVE  TypeOK'
<1>1. i \in Nat
  BY DEF TypeOK
<1>2. edit' \in Edit
  BY <1>1, RowType DEF ReadRow, Edit, RowStatus
<1> QED
  BY <1>2 DEF TypeOK, ReadRow, accountVars, paymentVars, history

LEMMA NoEditType == NoEdit \in Edit
BY DEF NoEdit, Edit, RowStatus

LEMMA SetSubscriptionStatusType ==
    ASSUME TypeOK, SetSubscriptionStatus
    PROVE  TypeOK'
<1>1. edit \in Edit /\ rows \in Seq(Row)
  BY DEF TypeOK
<1>2. [edit EXCEPT !.pc = "panel"] \in Edit /\ edit.status \in RowStatus
  BY <1>1 DEF Edit
<1>3. edit' \in Edit
  BY <1>2, NoEditType DEF SetSubscriptionStatus
<1>4. rows' \in Seq(Row)
  <2>1. \A i \in DOMAIN rows : [rows[i] EXCEPT !.status = edit.status] \in Row
    BY <1>2, RowType DEF Row
  <2>2. [rows EXCEPT ![edit.row].status = edit.status] \in Seq(Row)
    <3>1. CASE edit.row \in DOMAIN rows
      <4>1. [rows[edit.row] EXCEPT !.status = edit.status] \in Row
        BY <2>1, <3>1
      <4> DEFINE r == [rows[edit.row] EXCEPT !.status = edit.status]
      <4>2. [rows EXCEPT ![edit.row] = r] \in Seq(Row)
        BY <3>1, <4>1, ReplaceType
      <4>3. [rows EXCEPT ![edit.row].status = edit.status] = [rows EXCEPT ![edit.row] = r]
        OBVIOUS
      <4> QED
        BY <4>2, <4>3
    <3>2. CASE edit.row \notin DOMAIN rows
      <4>1. rows \in [1..Len(rows) -> Row] /\ edit.row \notin 1..Len(rows)
        BY <1>1, <3>2
      <4>2. [rows EXCEPT ![edit.row].status = edit.status] = rows
        BY <4>1
      <4> QED
        BY <1>1, <4>2
    <3> QED
      BY <3>1, <3>2
  <2> QED
    BY <1>1, <2>2 DEF SetSubscriptionStatus
<1> QED
  BY <1>3, <1>4 DEF TypeOK, SetSubscriptionStatus, accountVars, paymentVars, history

LEMMA SetStatusPanelType ==
    ASSUME TypeOK, SetStatusPanel
    PROVE  TypeOK'
<1>1. edit.expires \in Int
  BY DEF TypeOK, Edit
<1>2. panel' \in Account
  BY <1>1, PanelType DEF SetStatusPanel, Disable, TypeOK
<1> QED
  BY <1>2, NoEditType DEF TypeOK, SetStatusPanel, accountVars, paymentVars, history

LEMMA ExtendSubscriptionType ==
    ASSUME TypeOK, NEW i \in DOMAIN rows, NEW d \in Plans, ExtendSubscription(i, d)
    PROVE  TypeOK'
<1> DEFINE e == Extended(rows[i].expires, d)
           s == rows[i].status
           r == [status |-> IF s \in {"expired", "canceled"} THEN "active" ELSE s,
                 expires |-> e]
<1>1. e \in Int
  BY RowType, ConstantTypes DEF Extended, Later
<1>2. r \in Row
  BY <1>1, RowType DEF Row, RowStatus
<1>3. Store([rows EXCEPT ![i] = r], e)
  BY DEF ExtendSubscription
<1>4. rows' \in Seq(Row) /\ peak' \in Int
  BY <1>1, <1>2, <1>3, ReplaceType, StoreType
<1> QED
  BY <1>4 DEF TypeOK, ExtendSubscription, accountVars, paymentVars, taskVars

LEMMA TickType ==
    ASSUME TypeOK, Tick
    PROVE  TypeOK'
<1>1. day' \in 0..Horizon
  BY ConstantTypes DEF TypeOK, Tick
<1> QED
  BY <1>1 DEF TypeOK, Tick, accountVars, paymentVars, taskVars, history

LEMMA CrashType ==
    ASSUME TypeOK, ApiCrash \/ WorkerCrash
    PROVE  TypeOK'
<1>1. CASE ApiCrash
  <2>1. req' \in [Requesters -> Request]
    BY <1>1, IdleType DEF TypeOK, ApiCrash
  <2> QED
    BY <1>1, <2>1, NoEditType DEF TypeOK, ApiCrash, accountVars, paymentVars, history
<1>2. CASE WorkerCrash
  <2>1. req' \in [Requesters -> Request]
    BY <1>2, RequestType, IdleType DEF WorkerCrash
  <2>2. job' \in [days : Plans \cup {0}, tries : 0..MaxJobRetries]
    <3>1. NoJob \in [days : Plans \cup {0}, tries : 0..MaxJobRetries]
      BY ConstantTypes DEF NoJob
    <3>2. job' = NoJob \/ job' = job
      BY <1>2 DEF WorkerCrash
    <3> QED
      BY <3>1, <3>2 DEF TypeOK
  <2> QED
    BY <1>2, <2>1, <2>2 DEF TypeOK, WorkerCrash, SweepDone, accountVars, paymentVars, history
<1> QED
  BY <1>1, <1>2

\* The steps of Next, one by one, for the proofs that go through them all.
LEMMA NextCases ==
    ASSUME Next
    PROVE  \/ \E d \in Plans : Confirm(d)
           \/ \E b \in Buyers : ReadUser(b)
           \/ \E b \in Buyers, d \in Plans, e \in 0..MaxExpiry : Purchase(b, d, e)
           \/ \E b \in Buyers : PurchaseFails(b)
           \/ \E b \in Buyers : PurchaseReachesPanel(b) \/ PurchaseMissesPanel(b)
           \/ \E t \in Trials : ReadTrialUser(t)
           \/ \E t \in Trials : ActivateTrial(t)
           \/ \E t \in Trials : TrialPanel(t)
           \/ GetConnection \/ LazyRepair
           \/ \E d \in Plans : Revert(d)
           \/ DisableReverted
           \/ Sweep
           \/ \E i \in DOMAIN rows, s \in {"active", "expired", "canceled"} : ReadRow(i, s)
           \/ SetSubscriptionStatus \/ SetStatusPanel
           \/ \E i \in DOMAIN rows, d \in Plans : ExtendSubscription(i, d)
           \/ Tick
           \/ ApiCrash \/ WorkerCrash
BY DEF Next, Serve, ServeTrial, SetStatus

LEMMA TypeStep ==
    ASSUME TypeOK, [Next]_vars
    PROVE  TypeOK'
<1>1. CASE UNCHANGED vars
  BY <1>1 DEF TypeOK, vars, accountVars, paymentVars, taskVars, history
<1>2. CASE Next
  BY <1>2, NextCases, ConfirmType, ReadUserType, PurchaseType, PurchaseFailsType,
     PurchasePanelType, ReadTrialUserType, ActivateTrialType, TrialPanelType,
     GetConnectionType, LazyRepairType, RevertType, DisableRevertedType, SweepType,
     ReadRowType, SetSubscriptionStatusType, SetStatusPanelType,
     ExtendSubscriptionType, TickType, CrashType
<1> QED
  BY <1>1, <1>2

LEMMA TypeInit == Init => TypeOK
<1> SUFFICES ASSUME Init PROVE TypeOK
  OBVIOUS
<1>1. NoJob \in [days : Plans \cup {0}, tries : 0..MaxJobRetries]
  BY ConstantTypes DEF NoJob
<1>2. paid \in [Plans -> 0..MaxPayments] /\ returned \in [Plans -> 0..MaxPayments]
  BY ConstantTypes DEF Init
<1>3. day \in 0..Horizon
  BY ConstantTypes DEF Init
<1>4. rows \in Seq(Row)
  BY DEF Init
<1>5. req \in [Requesters -> Request]
  BY IdleType DEF Init
<1>6. panel \in Account
  BY DEF Init, Account
<1>7. job \in [days : Plans \cup {0}, tries : 0..MaxJobRetries]
  BY <1>1 DEF Init
<1>8. sweep \in [pc : {"idle", "mark", "disable"}, listed : BOOLEAN]
  BY DEF Init
<1>9. edit \in Edit /\ peak \in Int /\ bought \in Nat
  BY NoEditType DEF Init
<1>10. trialUsed \in BOOLEAN /\ linked \in BOOLEAN /\ undo \in BOOLEAN
  BY DEF Init
<1> QED
  BY <1>2, <1>3, <1>4, <1>5, <1>6, <1>7, <1>8, <1>9, <1>10 DEF TypeOK

\* Every reachable state is well typed, whatever the plans, the retry limit,
\* the requesters and the failures: no request holds anything but a date, no
\* row anything but a status and a date, and an activation job is never tried
\* more often than the retry limit allows.
THEOREM SubscriptionTypes == Spec => []TypeOK
BY TypeInit, TypeStep, PTL DEF Spec

-----------------------------------------------------------------------------
(* PanelBacked.  The dates on their way to the panel are not its own: they  *)
(* sit in requests, in an administrator's edit and in the rows a lazy       *)
(* repair may read, so all of those are bounded too.                        *)

\* A request about to give its date to the panel; the repair does so at once.
Carries(x) == req[x].pc = "panel" \/ (x = "repair" /\ req[x].pc = "tx")

RowsBacked     == \A i \in DOMAIN rows : rows[i].expires <= peak
RequestsBacked == \A x \in Requesters : Carries(x) => req[x].date <= peak
EditBacked     == edit.pc # "idle" => edit.expires <= peak

DatesBacked == PanelBacked /\ RowsBacked /\ RequestsBacked /\ EditBacked

LEMMA DateTypes ==
    ASSUME TypeOK
    PROVE  /\ peak \in Int /\ panel \in Account /\ panel.expires \in Int
           /\ edit \in Edit /\ edit.expires \in Int
           /\ \A x \in Requesters : req[x] \in Request /\ req[x].date \in Int
           /\ \A i \in DOMAIN rows : rows[i].expires \in Int
BY RowType DEF TypeOK, Account, Edit, Request

\* No call leaves the account with a date later than the one it had or the one
\* it was given.
LEMMA PanelDate ==
    ASSUME TypeOK, NEW e \in Int, e <= peak, panel.expires <= peak,
           \/ UpdateEnableAnyway(e) \/ UpdateAndEnable(e) \/ UpdateFails(e)
           \/ CreateAccount(e) \/ RecoverAccount(e) \/ AccountFails(e)
           \/ Disable \/ UNCHANGED panel
    PROVE  panel'.expires <= peak
<1>1. /\ Renewed(e).expires = e /\ Granted(e).expires = e
      /\ NewAccount(e).expires = e /\ Disabled.expires = panel.expires
      /\ [panel EXCEPT !.enabled = TRUE].expires = panel.expires
  BY DateTypes DEF Account, Renewed, Granted, NewAccount, Disabled
<1>2. panel' \in {panel, Renewed(e), Granted(e), NewAccount(e), Disabled,
                  [panel EXCEPT !.enabled = TRUE]}
  BY DEF UpdateEnableAnyway, UpdateAndEnable, UpdateFails, CreateAccount,
         RecoverAccount, AccountFails, Disable
<1> QED
  BY <1>1, <1>2

\* One request moves on, and nothing it may give to the panel is ahead.
LEMMA AdvanceBacked ==
    ASSUME TypeOK, RequestsBacked, NEW x, NEW r \in Request, Advance(x, r),
           peak' \in Int, peak <= peak',
           r.pc = "panel" \/ (x = "repair" /\ r.pc = "tx") => r.date <= peak'
    PROVE  RequestsBacked'
<1> SUFFICES ASSUME NEW y \in Requesters, Carries(y)'
             PROVE  req'[y].date <= peak'
  BY DEF RequestsBacked
<1>1. CASE y = x
  <2>1. req'[y] = r
    BY <1>1 DEF TypeOK, Advance
  <2> QED
    BY <1>1, <2>1 DEF Carries
<1>2. CASE y # x
  <2>1. req'[y] = req[y]
    BY <1>2 DEF TypeOK, Advance
  <2>2. req[y].date <= peak
    BY <2>1 DEF RequestsBacked, Carries
  <2> QED
    BY <2>1, <2>2, DateTypes
<1> QED
  BY <1>1, <1>2

LEMMA FinishBacked ==
    ASSUME TypeOK, RequestsBacked, NEW x, Finish(x), UNCHANGED peak
    PROVE  RequestsBacked'
BY AdvanceBacked, IdleType, DateTypes DEF Finish, Idle

LEMMA BeginBacked ==
    ASSUME TypeOK, RequestsBacked, NEW x, NEW date \in Int, Begin(x, date),
           UNCHANGED peak, x = "repair" => date <= peak
    PROVE  RequestsBacked'
<1>1. [pc |-> "tx", linked |-> linked, date |-> date] \in Request
  BY DEF TypeOK, Request
<1> QED
  BY <1>1, AdvanceBacked, DateTypes DEF Begin

LEMMA CommittedBacked ==
    ASSUME TypeOK, RequestsBacked, NEW x \in Requesters, NEW e \in Int, Committed(x, e),
           peak' \in Int, peak <= peak', e <= peak'
    PROVE  RequestsBacked'
<1>1. [req[x] EXCEPT !.pc = "panel", !.date = e] \in Request
  BY DEF TypeOK, Request
<1>2. [req[x] EXCEPT !.pc = "panel", !.date = e].date = e
  BY DEF TypeOK, Request
<1> QED
  BY <1>1, <1>2, AdvanceBacked DEF Committed

\* A transaction that writes one row's date raises the mark it is measured by.
LEMMA StoreBacked ==
    ASSUME TypeOK, NEW newRows, NEW e \in Int, Store(newRows, e)
    PROVE  peak' \in Int /\ peak <= peak' /\ e <= peak' /\ rows' = newRows
BY DateTypes DEF Store, Later

LEMMA ReplaceBacked ==
    ASSUME TypeOK, RowsBacked, NEW i \in DOMAIN rows, NEW r \in Row,
           rows' = [rows EXCEPT ![i] = r],
           peak' \in Int, peak <= peak', r.expires <= peak'
    PROVE  RowsBacked'
<1>1. DOMAIN rows' = DOMAIN rows
  OBVIOUS
<1>2. \A k \in DOMAIN rows : rows'[k].expires = IF k = i THEN r.expires ELSE rows[k].expires
  OBVIOUS
<1> QED
  BY <1>1, <1>2, DateTypes DEF RowsBacked

LEMMA BackedInit == Init => DatesBacked
<1> SUFFICES ASSUME Init PROVE DatesBacked
  OBVIOUS
<1>1. PanelBacked /\ RowsBacked
  BY DEF Init, PanelBacked, RowsBacked
<1>2. RequestsBacked
  BY DEF Init, RequestsBacked, Carries, Idle
<1>3. EditBacked
  BY DEF Init, EditBacked, NoEdit
<1> QED
  BY <1>1, <1>2, <1>3 DEF DatesBacked

LEMMA PurchaseBacked ==
    ASSUME TypeOK, DatesBacked, NEW b \in Buyers, NEW d \in Plans, NEW e, Purchase(b, d, e)
    PROVE  DatesBacked'
<1>1. b \in Requesters
  BY DEF Requesters
<1>2. e \in Int
  BY <1>1, ExtendOrCreateType, DateTypes DEF Purchase
<1>3. CASE \E i \in DOMAIN rows : ExtendRow(i, d, e)
  <2>1. PICK i \in DOMAIN rows : ExtendRow(i, d, e)
    BY <1>3
  <2>2. [status |-> "active", expires |-> e] \in Row
    BY <1>2 DEF Row, RowStatus
  <2>3. /\ peak' \in Int /\ peak <= peak' /\ e <= peak'
        /\ rows' = [rows EXCEPT ![i] = [status |-> "active", expires |-> e]]
    BY <2>1, <1>2, StoreBacked DEF ExtendRow
  <2>4. RowsBacked'
    BY <2>2, <2>3, ReplaceBacked DEF DatesBacked
  <2>5. RequestsBacked'
    BY <1>1, <1>2, <2>3, CommittedBacked DEF Purchase, DatesBacked
  <2> QED
    BY <2>3, <2>4, <2>5, DateTypes DEF DatesBacked, PanelBacked, EditBacked, Purchase
<1>4. CASE CreateRow(req[b].date, d, e)
  <2>1. /\ peak' \in Int /\ peak <= peak' /\ e <= peak'
        /\ rows' = <<[status |-> "active", expires |-> e]>>
    BY <1>4, <1>2, StoreBacked DEF CreateRow
  <2>2. RowsBacked'
    BY <2>1 DEF RowsBacked
  <2>3. RequestsBacked'
    BY <1>1, <1>2, <2>1, CommittedBacked DEF Purchase, DatesBacked
  <2> QED
    BY <2>1, <2>2, <2>3, DateTypes DEF DatesBacked, PanelBacked, EditBacked, Purchase
<1> QED
  BY <1>3, <1>4 DEF Purchase, ExtendOrCreateSub

\* Purchases, the trial and the repair at the panel: the call carries the date
\* of the request, which is then over.
LEMMA RequestPanelBacked ==
    ASSUME TypeOK, DatesBacked, NEW x \in Requesters, Carries(x),
           \/ PurchaseReachesPanel(x) \/ PurchaseMissesPanel(x) \/ TrialPanel(x)
           \/ (x = "repair" /\ LazyRepair)
    PROVE  DatesBacked'
<1>1. req[x].date \in Int /\ req[x].date <= peak
  BY DateTypes DEF DatesBacked, RequestsBacked
<1>2. panel'.expires <= peak
  BY <1>1, PanelDate DEF DatesBacked, PanelBacked, PurchaseReachesPanel,
     PurchaseMissesPanel, TrialPanel, LazyRepair
<1>3. Finish(x) /\ UNCHANGED <<rows, peak, edit>>
  BY DEF PurchaseReachesPanel, PurchaseMissesPanel, TrialPanel, LazyRepair, history
<1>4. RequestsBacked'
  BY <1>3, FinishBacked DEF DatesBacked
<1> QED
  BY <1>2, <1>3, <1>4 DEF DatesBacked, PanelBacked, RowsBacked, EditBacked

LEMMA ActivateTrialBacked ==
    ASSUME TypeOK, DatesBacked, NEW t \in Trials, ActivateTrial(t)
    PROVE  DatesBacked'
<1> DEFINE e == req[t].date
           r == [status |-> "trial", expires |-> e]
<1>1. t \in Requesters /\ e \in Int
  BY DateTypes DEF Requesters
<1>2. CASE Store(Append(rows, r), e) /\ Committed(t, e)
  <2>1. peak' \in Int /\ peak <= peak' /\ e <= peak' /\ rows' = Append(rows, r)
    BY <1>1, <1>2, StoreBacked
  <2>2. \A i \in DOMAIN rows' : rows'[i] = r \/ (i \in DOMAIN rows /\ rows'[i] = rows[i])
    BY <2>1 DEF TypeOK
  <2>3. RowsBacked'
    BY <2>1, <2>2, DateTypes DEF RowsBacked, DatesBacked
  <2>4. RequestsBacked'
    BY <1>1, <1>2, <2>1, CommittedBacked DEF DatesBacked
  <2> QED
    BY <2>1, <2>3, <2>4, DateTypes DEF DatesBacked, PanelBacked, EditBacked, ActivateTrial
<1>3. CASE Finish(t) /\ UNCHANGED <<rows, trialUsed, history>>
  <2>1. RequestsBacked'
    BY <1>3, FinishBacked DEF DatesBacked, history
  <2> QED
    BY <1>3, <2>1 DEF DatesBacked, PanelBacked, RowsBacked, EditBacked, ActivateTrial, history
<1> QED
  BY <1>2, <1>3 DEF ActivateTrial, Refused

\* Requests that begin or give up.
LEMMA RequestBacked ==
    ASSUME TypeOK, DatesBacked,
           \/ \E b \in Buyers : ReadUser(b) \/ PurchaseFails(b)
           \/ \E t \in Trials : ReadTrialUser(t)
           \/ GetConnection
    PROVE  DatesBacked'
<1>1. UNCHANGED <<rows, panel, edit, peak>>
  BY DEF ReadUser, PurchaseFails, ReadTrialUser, GetConnection, history
<1>2. RequestsBacked'
  <2>1. CASE \E b \in Buyers : ReadUser(b)
    BY <1>1, <2>1, BeginBacked DEF TypeOK, ReadUser, DatesBacked, Buyers
  <2>2. CASE \E b \in Buyers : PurchaseFails(b)
    BY <1>1, <2>2, FinishBacked DEF PurchaseFails, DatesBacked
  <2>3. CASE \E t \in Trials : ReadTrialUser(t)
    <3>1. day + TrialDays \in Int
      BY ConstantTypes DEF TypeOK
    <3> QED
      BY <1>1, <2>3, <3>1, BeginBacked DEF ReadTrialUser, DatesBacked, Trials
  <2>4. CASE GetConnection
    <3>1. PICK i \in DOMAIN rows : Begin("repair", rows[i].expires)
      BY <2>4 DEF GetConnection
    <3>2. rows[i].expires \in Int /\ rows[i].expires <= peak
      BY DateTypes DEF DatesBacked, RowsBacked
    <3> QED
      BY <1>1, <3>1, <3>2, BeginBacked DEF DatesBacked
  <2> QED
    BY <2>1, <2>2, <2>3, <2>4
<1> QED
  BY <1>1, <1>2 DEF DatesBacked, PanelBacked, RowsBacked, EditBacked

\* Steps that touch the rows without granting anything.
LEMMA RowsKeepBacked ==
    ASSUME TypeOK, DatesBacked,
           (\E d \in Plans : Revert(d)) \/ UpdateExpired \/ SetSubscriptionStatus
    PROVE  DatesBacked'
<1>1. UNCHANGED <<req, panel, peak>>
  BY DEF Revert, UpdateExpired, SetSubscriptionStatus, history
<1>2. EditBacked'
  BY <1>1, DateTypes DEF DatesBacked, EditBacked, Revert, UpdateExpired,
     SetSubscriptionStatus, NoEdit, Edit
<1>3. RowsBacked'
  <2>1. ASSUME NEW d \in Plans, Revert(d) PROVE RowsBacked'
    <3>1. CASE UNCHANGED rows
      BY <1>1, <3>1 DEF DatesBacked, RowsBacked
    <3>2. ASSUME NEW i \in DOMAIN rows, Contract(i, d) PROVE RowsBacked'
      <4> DEFINE e == rows[i].expires - d
                 r == [status |-> IF e <= day THEN "reverted" ELSE rows[i].status,
                       expires |-> e]
      <4>1. e \in Int /\ e <= peak
        BY ConstantTypes, DateTypes DEF DatesBacked, RowsBacked
      <4>2. r \in Row
        BY <4>1, RowType DEF Row, RowStatus
      <4>3. rows' = [rows EXCEPT ![i] = r]
        BY <3>2 DEF Contract
      <4>4. r.expires <= peak' /\ peak' \in Int /\ peak <= peak'
        BY <1>1, <4>1, DateTypes
      <4>5. RowsBacked
        BY DEF DatesBacked
      <4> HIDE DEF r
      <4> QED
        BY <4>2, <4>3, <4>4, <4>5, ReplaceBacked
    <3> QED
      BY <2>1, <3>1, <3>2 DEF Revert
  <2>2. CASE UpdateExpired
    <3>1. CASE UNCHANGED rows
      BY <1>1, <3>1 DEF DatesBacked, RowsBacked
    <3>2. CASE rows' = [i \in DOMAIN rows |-> Marked(rows[i])]
      <4>1. \A i \in DOMAIN rows : Marked(rows[i]).expires = rows[i].expires
        BY RowType DEF Marked, Row
      <4> QED
        BY <1>1, <3>2, <4>1 DEF DatesBacked, RowsBacked
    <3> QED
      BY <2>2, <3>1, <3>2 DEF UpdateExpired
  <2>3. CASE SetSubscriptionStatus
    <3>1. DOMAIN rows' = DOMAIN rows
      BY <2>3 DEF SetSubscriptionStatus
    <3>2. \A i \in DOMAIN rows : rows'[i].expires = rows[i].expires
      <4>1. CASE UNCHANGED rows
        BY <4>1
      <4>2. CASE rows' = [rows EXCEPT ![edit.row].status = edit.status]
        <5> SUFFICES ASSUME NEW i \in DOMAIN rows
                     PROVE  rows'[i].expires = rows[i].expires
          OBVIOUS
        <5>1. rows'[i] = IF i = edit.row THEN [rows[i] EXCEPT !.status = edit.status]
                                         ELSE rows[i]
          BY <4>2
        <5>2. [rows[i] EXCEPT !.status = edit.status].expires = rows[i].expires
          BY RowType DEF Row
        <5> QED
          BY <5>1, <5>2
      <4> QED
        BY <2>3, <4>1, <4>2 DEF SetSubscriptionStatus
    <3> QED
      BY <1>1, <3>1, <3>2 DEF DatesBacked, RowsBacked
  <2> QED
    BY <2>1, <2>2, <2>3
<1> QED
  BY <1>1, <1>2, <1>3 DEF DatesBacked, PanelBacked, RequestsBacked, Carries

\* Steps that switch access off, and steps that change no date.
LEMMA PanelKeepsBacked ==
    ASSUME TypeOK, DatesBacked,
           \/ DisableReverted \/ ListExpired \/ DisableExpired \/ Tick
           \/ \E d \in Plans : Confirm(d)
           \/ UNCHANGED vars
    PROVE  DatesBacked'
<1>1. UNCHANGED <<rows, req, edit, peak>>
  BY DEF DisableReverted, ListExpired, DisableExpired, Tick, Confirm, taskVars, history, vars
<1>2. panel'.expires <= peak
  <2>1. Disable \/ UNCHANGED panel
    BY DEF DisableReverted, ListExpired, DisableExpired, Tick, Confirm, vars
  <2> QED
    BY <2>1, PanelDate, DateTypes DEF DatesBacked, PanelBacked
<1> QED
  BY <1>1, <1>2 DEF DatesBacked, PanelBacked, RowsBacked, RequestsBacked, EditBacked, Carries

LEMMA EditStepBacked ==
    ASSUME TypeOK, DatesBacked,
           \/ \E i \in DOMAIN rows, s \in {"active", "expired", "canceled"} : ReadRow(i, s)
           \/ SetStatusPanel
    PROVE  DatesBacked'
<1>1. CASE \E i \in DOMAIN rows, s \in {"active", "expired", "canceled"} : ReadRow(i, s)
  <2>1. PICK i \in DOMAIN rows, s \in {"active", "expired", "canceled"} : ReadRow(i, s)
    BY <1>1
  <2>2. EditBacked'
    BY <2>1 DEF EditBacked, ReadRow, DatesBacked, RowsBacked, history
  <2> QED
    BY <2>1, <2>2 DEF DatesBacked, PanelBacked, RowsBacked, RequestsBacked, Carries,
       ReadRow, history
<1>2. CASE SetStatusPanel
  <2>1. edit.expires \in Int /\ edit.expires <= peak /\ panel.expires <= peak
    BY <1>2, DateTypes DEF SetStatusPanel, DatesBacked, EditBacked, PanelBacked
  <2>2. panel'.expires <= peak
    BY <1>2, <2>1, PanelDate DEF SetStatusPanel
  <2>3. EditBacked'
    BY <1>2 DEF SetStatusPanel, EditBacked, NoEdit
  <2> QED
    BY <1>2, <2>2, <2>3 DEF DatesBacked, PanelBacked, RowsBacked, RequestsBacked, Carries,
       SetStatusPanel, history
<1> QED
  BY <1>1, <1>2

LEMMA ExtendSubscriptionBacked ==
    ASSUME TypeOK, DatesBacked, NEW i \in DOMAIN rows, NEW d \in Plans,
           ExtendSubscription(i, d)
    PROVE  DatesBacked'
<1> DEFINE e == Extended(rows[i].expires, d)
           s == rows[i].status
           r == [status |-> IF s \in {"expired", "canceled"} THEN "active" ELSE s,
                 expires |-> e]
<1>1. e \in Int
  BY RowType, ConstantTypes DEF Extended, Later
<1>2. r \in Row /\ r.expires = e
  BY <1>1, RowType DEF Row, RowStatus
<1>3. Store([rows EXCEPT ![i] = r], e)
  BY DEF ExtendSubscription
<1>4. peak' \in Int /\ peak <= peak' /\ e <= peak' /\ rows' = [rows EXCEPT ![i] = r]
  BY <1>1, <1>3, StoreBacked
<1>5. RowsBacked'
  BY <1>2, <1>4, ReplaceBacked DEF DatesBacked
<1>6. UNCHANGED <<panel, req, edit>>
  BY DEF ExtendSubscription, taskVars
<1>7. panel'.expires <= peak'
  BY <1>4, <1>6, DateTypes DEF DatesBacked, PanelBacked
<1>8. RequestsBacked'
  BY <1>4, <1>6, DateTypes DEF DatesBacked, RequestsBacked, Carries
<1>9. EditBacked'
  BY <1>4, <1>6, DateTypes DEF DatesBacked, EditBacked
<1> QED
  BY <1>5, <1>7, <1>8, <1>9 DEF DatesBacked, PanelBacked

LEMMA CrashBacked ==
    ASSUME TypeOK, DatesBacked, ApiCrash \/ WorkerCrash
    PROVE  DatesBacked'
<1>1. UNCHANGED <<rows, panel, peak>>
  BY DEF ApiCrash, WorkerCrash, history
<1>2. \A x \in Requesters : req'[x] = req[x] \/ req'[x] = Idle
  BY DEF ApiCrash, WorkerCrash, TypeOK
<1>3. edit' = edit \/ edit' = NoEdit
  BY DEF ApiCrash, WorkerCrash
<1>4. RequestsBacked'
  BY <1>1, <1>2 DEF DatesBacked, RequestsBacked, Carries, Idle
<1>5. EditBacked'
  BY <1>1, <1>3 DEF DatesBacked, EditBacked, NoEdit
<1> QED
  BY <1>1, <1>4, <1>5 DEF DatesBacked, PanelBacked, RowsBacked

LEMMA BackedStep ==
    ASSUME TypeOK, DatesBacked, [Next]_vars
    PROVE  DatesBacked'
<1>1. ASSUME NEW b \in Buyers, PurchaseReachesPanel(b) \/ PurchaseMissesPanel(b)
      PROVE  DatesBacked'
  BY <1>1, RequestPanelBacked
     DEF Carries, Requesters, PurchaseReachesPanel, PurchaseMissesPanel
<1>2. ASSUME NEW t \in Trials, TrialPanel(t)
      PROVE  DatesBacked'
  BY <1>2, RequestPanelBacked DEF Carries, Requesters, TrialPanel
<1>3. CASE LazyRepair
  BY <1>3, RequestPanelBacked DEF Carries, Requesters, LazyRepair
<1>4. CASE Sweep
  BY <1>4, PanelKeepsBacked, RowsKeepBacked DEF Sweep
<1> QED
  BY <1>1, <1>2, <1>3, <1>4, NextCases, PurchaseBacked, ActivateTrialBacked,
     RequestBacked, RowsKeepBacked, PanelKeepsBacked, EditStepBacked,
     ExtendSubscriptionBacked, CrashBacked

\* For any plans, requesters, clock and faults the panel holds no date that no
\* transaction has committed: what ActivateTrial's order (claim, row, panel) and
\* the post-commit calls of the purchases are for.  The panel itself is not
\* enough to show it: DatesBacked also bounds what is on its way there.
THEOREM PanelNeverAhead == Spec => []PanelBacked
<1>1. DatesBacked => PanelBacked
  BY DEF DatesBacked
<1> QED
  BY <1>1, BackedInit, BackedStep, SubscriptionTypes, PTL DEF Spec
-----------------------------------------------------------------------------
(* The invariants the refinement rests on: what a request that has begun    *)
(* may write, and that a user never has more than two rows.                 *)

BuyersBegan == \A b \in Buyers : req[b].pc = "tx" => req[b].date \in 0..day
TrialsBegan == \A t \in Trials : req[t].pc = "tx" => req[t].date \in 0..(day + TrialDays)
FewRows     == Len(rows) <= (IF trialUsed THEN 2 ELSE 1)

RowsInv == BuyersBegan /\ TrialsBegan /\ FewRows

LEMMA RowsInit == Init => RowsInv
BY DEF Init, RowsInv, BuyersBegan, TrialsBegan, FewRows, Idle, Buyers, Trials, Requesters

\* A request keeps what it began with while it waits for its transaction.
LEMMA BeganStays ==
    ASSUME TypeOK, BuyersBegan, TrialsBegan, day' \in Nat, day <= day',
           \A x \in Buyers \cup Trials : req'[x] = req[x] \/ req'[x].pc # "tx"
    PROVE  BuyersBegan' /\ TrialsBegan'
<1>1. day \in Nat /\ TrialDays \in Nat
  BY ConstantTypes DEF TypeOK
<1>2. \A x \in Buyers \cup Trials : req[x].date \in Int
  BY DEF TypeOK, Request, Requesters
<1> QED
  BY <1>1, <1>2 DEF BuyersBegan, TrialsBegan

LEMMA AdvanceOther ==
    ASSUME TypeOK, NEW x, NEW r, Advance(x, r)
    PROVE  \A y \in Requesters : req'[y] = IF y = x THEN r ELSE req[y]
BY DEF TypeOK, Advance

\* The steps after which no request has newly begun.
Continues ==
    \/ \E d \in Plans : Confirm(d)
    \/ \E b \in Buyers : PurchaseFails(b) \/ PurchaseReachesPanel(b) \/ PurchaseMissesPanel(b)
    \/ \E b \in Buyers, d \in Plans, e \in 0..MaxExpiry : Purchase(b, d, e)
    \/ \E t \in Trials : ActivateTrial(t) \/ TrialPanel(t)
    \/ GetConnection \/ LazyRepair
    \/ \E d \in Plans : Revert(d)
    \/ DisableReverted
    \/ Sweep
    \/ \E i \in DOMAIN rows, s \in {"active", "expired", "canceled"} : ReadRow(i, s)
    \/ SetSubscriptionStatus \/ SetStatusPanel
    \/ \E i \in DOMAIN rows, d \in Plans : ExtendSubscription(i, d)
    \/ Tick
    \/ ApiCrash \/ WorkerCrash

LEMMA ContinuesKeeps ==
    ASSUME TypeOK, Continues
    PROVE  /\ day' \in Nat /\ day <= day'
           /\ \A x \in Buyers \cup Trials : req'[x] = req[x] \/ req'[x].pc # "tx"
<1>1. day' \in Nat /\ day <= day'
  <2>1. day \in Nat
    BY ConstantTypes DEF TypeOK
  <2>2. CASE Tick
    BY <2>1, <2>2 DEF Tick
  <2>3. CASE ~Tick
    <3>1. UNCHANGED day
      BY <2>3 DEF Continues, Confirm, PurchaseFails, PurchaseReachesPanel,
         PurchaseMissesPanel, Purchase, ActivateTrial, TrialPanel, GetConnection, LazyRepair,
         Revert, DisableReverted, Sweep, ListExpired, UpdateExpired, DisableExpired,
         ReadRow, SetSubscriptionStatus, SetStatusPanel, ExtendSubscription,
         ApiCrash, WorkerCrash
    <3> QED
      BY <2>1, <3>1
  <2> QED
    BY <2>2, <2>3
<1>2. \A x \in Buyers \cup Trials : req'[x] = req[x] \/ req'[x].pc # "tx"
  <2> SUFFICES ASSUME NEW x \in Buyers \cup Trials
               PROVE  req'[x] = req[x] \/ req'[x].pc # "tx"
    OBVIOUS
  <2>1. x \in Requesters /\ x # "repair" /\ Idle.pc # "tx"
    BY DEF Requesters, Buyers, Trials, Idle
  <2>2. \A y, e : y \in Requesters => [req[y] EXCEPT !.pc = "panel", !.date = e].pc # "tx"
    BY DEF TypeOK, Request
  <2>3. CASE \E y : Finish(y)
    BY <2>1, <2>3, AdvanceOther DEF Finish
  <2>4. CASE \E y \in Requesters : \E e : Committed(y, e)
    <3>0. PICK y \in Requesters : \E e : Committed(y, e)
      BY <2>4
    <3>1. PICK e : Committed(y, e)
      BY <3>0
    <3>2. req'[x] = IF x = y THEN [req[y] EXCEPT !.pc = "panel", !.date = e] ELSE req[x]
      BY <2>1, <3>1, AdvanceOther DEF Committed
    <3> QED
      BY <2>2, <3>2
  <2>5. CASE \E date : Begin("repair", date)
    BY <2>1, <2>5, AdvanceOther DEF Begin
  <2>6. CASE UNCHANGED req
    BY <2>6
  <2>7. CASE ApiCrash \/ WorkerCrash
    BY <2>1, <2>7 DEF ApiCrash, WorkerCrash, TypeOK
  <2>8. Continues => \/ UNCHANGED req \/ ApiCrash \/ WorkerCrash
                     \/ \E y : Finish(y)
                     \/ \E y \in Requesters : \E e : Committed(y, e)
                     \/ \E date : Begin("repair", date)
    <3>1. ASSUME NEW t \in Trials, ActivateTrial(t)
          PROVE  Finish(t) \/ (t \in Requesters /\ Committed(t, req[t].date))
      BY <3>1 DEF ActivateTrial, Refused, Requesters
    <3>2. ASSUME NEW b \in Buyers, NEW d, NEW e, Purchase(b, d, e)
          PROVE  b \in Requesters /\ Committed(b, e)
      BY <3>2 DEF Purchase, Requesters
    <3>3. ASSUME NEW b, PurchaseFails(b) \/ PurchaseReachesPanel(b) \/ PurchaseMissesPanel(b)
          PROVE  Finish(b)
      BY <3>3 DEF PurchaseFails, PurchaseReachesPanel, PurchaseMissesPanel
    <3>4. ASSUME NEW t, TrialPanel(t) PROVE Finish(t)
      BY <3>4 DEF TrialPanel
    <3>5. GetConnection => \E date : Begin("repair", date)
      BY DEF GetConnection
    <3>6. LazyRepair => Finish("repair")
      BY DEF LazyRepair
    <3>7. \/ \E d \in Plans : Confirm(d) \/ Revert(d)
          \/ DisableReverted \/ Sweep \/ SetSubscriptionStatus \/ SetStatusPanel \/ Tick
          \/ \E i, s : ReadRow(i, s)
          \/ \E i, d : ExtendSubscription(i, d)
          => UNCHANGED req
      BY DEF Confirm, Revert, DisableReverted, Sweep, ListExpired, UpdateExpired,
         DisableExpired, ReadRow, SetSubscriptionStatus, SetStatusPanel,
         ExtendSubscription, Tick, taskVars
    <3> QED
      BY <3>1, <3>2, <3>3, <3>4, <3>5, <3>6, <3>7 DEF Continues
  <2> QED
    BY <2>3, <2>4, <2>5, <2>6, <2>7, <2>8
<1> QED
  BY <1>1, <1>2

LEMMA BeganStep ==
    ASSUME TypeOK, BuyersBegan, TrialsBegan, [Next]_vars
    PROVE  BuyersBegan' /\ TrialsBegan'
<1>1. CASE Continues
  BY <1>1, ContinuesKeeps, BeganStays
<1>2. CASE UNCHANGED vars
  BY <1>2 DEF vars, taskVars, BuyersBegan, TrialsBegan
<1>3. ASSUME NEW b \in Buyers, ReadUser(b)
      PROVE  BuyersBegan' /\ TrialsBegan'
  <2>1. /\ UNCHANGED day /\ day \in 0..day
        /\ \A y \in Requesters :
              req'[y] = IF y = b THEN [pc |-> "tx", linked |-> linked, date |-> day]
                        ELSE req[y]
    BY <1>3, AdvanceOther, ConstantTypes DEF ReadUser, Begin, TypeOK
  <2>2. \A y \in Buyers \cup Trials : y \in Requesters
    BY DEF Requesters
  <2>3. b \notin Trials
    BY DEF Buyers, Trials
  <2> QED
    BY <2>1, <2>2, <2>3 DEF BuyersBegan, TrialsBegan
<1>4. ASSUME NEW t \in Trials, ReadTrialUser(t)
      PROVE  BuyersBegan' /\ TrialsBegan'
  <2>1. /\ UNCHANGED day /\ day + TrialDays \in 0..(day + TrialDays)
        /\ \A y \in Requesters :
              req'[y] = IF y = t THEN [pc |-> "tx", linked |-> linked,
                                       date |-> day + TrialDays]
                        ELSE req[y]
    BY <1>4, AdvanceOther, ConstantTypes DEF ReadTrialUser, Begin, TypeOK
  <2>2. \A y \in Buyers \cup Trials : y \in Requesters
    BY DEF Requesters
  <2>3. t \notin Buyers
    BY DEF Buyers, Trials
  <2> QED
    BY <2>1, <2>2, <2>3 DEF BuyersBegan, TrialsBegan
<1> QED
  BY <1>1, <1>2, <1>3, <1>4, NextCases DEF Continues

-----------------------------------------------------------------------------
(* What the steps do to the dates of the rows.                             *)

SameDates ==
    /\ DOMAIN rows' = DOMAIN rows
    /\ \A k \in DOMAIN rows : rows'[k].expires = rows[k].expires

\* Row i is given the date e.
Redated(i, e) ==
    /\ DOMAIN rows' = DOMAIN rows
    /\ \A k \in DOMAIN rows :
           rows'[k].expires = IF k = i THEN e ELSE rows[k].expires

\* A row is added with the date e.
Added(e) ==
    /\ Len(rows') = Len(rows) + 1
    /\ \A k \in DOMAIN rows : k \in DOMAIN rows' /\ rows'[k].expires = rows[k].expires
    /\ \A k \in DOMAIN rows' : k \in DOMAIN rows \/ rows'[k].expires = e
    /\ rows'[Len(rows')].expires = e

LEMMA ReplaceDates ==
    ASSUME TypeOK, NEW i \in DOMAIN rows, NEW s, NEW e,
           rows' = [rows EXCEPT ![i] = [status |-> s, expires |-> e]]
    PROVE  Redated(i, e)
BY DEF Redated

LEMMA PurchaseDates ==
    ASSUME TypeOK, NEW b, NEW d, NEW e, Purchase(b, d, e)
    PROVE  \/ \E i \in DOMAIN rows : /\ IsLatest(i)
                                     /\ e = Extended(rows[i].expires, d)
                                     /\ Redated(i, e)
           \/ rows = <<>> /\ e = req[b].date + d /\ Added(e)
<1>1. ASSUME NEW i \in DOMAIN rows, ExtendRow(i, d, e)
      PROVE  IsLatest(i) /\ e = Extended(rows[i].expires, d) /\ Redated(i, e)
  BY <1>1, ReplaceDates DEF ExtendRow, Store
<1>2. CASE CreateRow(req[b].date, d, e)
  BY <1>2 DEF CreateRow, Store, Added
<1> QED
  BY <1>1, <1>2 DEF Purchase, ExtendOrCreateSub

LEMMA TrialDates ==
    ASSUME TypeOK, NEW t, ActivateTrial(t)
    PROVE  \/ ~trialUsed /\ trialUsed' = TRUE /\ Added(req[t].date)
           \/ UNCHANGED <<rows, trialUsed>>
<1> DEFINE r == [status |-> "trial", expires |-> req[t].date]
<1>1. CASE ~trialUsed /\ trialUsed' = TRUE /\ rows' = Append(rows, r)
  <2>1. rows \in Seq(Row) /\ r.expires = req[t].date
    BY DEF TypeOK
  <2>3. r \in Row
    <3>1. t \in Requesters
      BY DEF ActivateTrial, Requesters
    <3>2. req[t].date \in Int
      BY <3>1 DEF TypeOK, Request
    <3> QED
      BY <3>2 DEF Row, RowStatus
  <2> HIDE DEF r
  <2>4. /\ Len(rows) \in Nat /\ DOMAIN rows = 1..Len(rows)
    BY <2>1, LenProperties
  <2>5. /\ Len(rows') = Len(rows) + 1
        /\ \A k \in 1..Len(rows) : rows'[k] = rows[k]
        /\ rows'[Len(rows) + 1] = r
        /\ rows' \in Seq(Row)
    BY <1>1, <2>1, <2>3, AppendProperties
  <2>2. DOMAIN rows' = 1..(Len(rows) + 1)
    BY <2>5, LenProperties
  <2> QED
    <3>1. \A k \in DOMAIN rows : k \in DOMAIN rows' /\ rows'[k].expires = rows[k].expires
      BY <2>2, <2>4, <2>5
    <3>2. \A k \in DOMAIN rows' : k \in DOMAIN rows \/ rows'[k].expires = req[t].date
      <4>1. \A k \in DOMAIN rows' : k \in DOMAIN rows \/ k = Len(rows) + 1
        BY <2>2, <2>4
      <4> QED
        BY <2>1, <2>5, <4>1
    <3> QED
      BY <1>1, <2>1, <2>5, <3>1, <3>2 DEF Added
<1>2. CASE UNCHANGED <<rows, trialUsed>>
  BY <1>2
<1> QED
  BY <1>1, <1>2 DEF ActivateTrial, TrialUnclaimed, Store

LEMMA RevertDates ==
    ASSUME TypeOK, NEW d, Revert(d)
    PROVE  \/ rows = <<>> /\ UNCHANGED rows
           \/ \E i \in DOMAIN rows : IsLatest(i) /\ Redated(i, rows[i].expires - d)
<1>1. ASSUME NEW i \in DOMAIN rows, Contract(i, d)
      PROVE  IsLatest(i) /\ Redated(i, rows[i].expires - d)
  BY <1>1, ReplaceDates DEF Contract
<1> QED
  BY <1>1 DEF Revert, Contract

LEMMA ExtendDates ==
    ASSUME TypeOK, NEW i \in DOMAIN rows, NEW d, ExtendSubscription(i, d)
    PROVE  Redated(i, Extended(rows[i].expires, d))
BY ReplaceDates DEF ExtendSubscription, Store

LEMMA StatusDates ==
    ASSUME TypeOK, UpdateExpired \/ SetSubscriptionStatus
    PROVE  SameDates
<1>1. CASE UNCHANGED rows
  BY <1>1 DEF SameDates
<1>2. CASE rows' = [i \in DOMAIN rows |-> Marked(rows[i])]
  <2>1. \A i \in DOMAIN rows : Marked(rows[i]).expires = rows[i].expires
    BY RowType DEF Marked, Row
  <2> QED
    BY <1>2, <2>1 DEF SameDates
<1>3. CASE rows' = [rows EXCEPT ![edit.row].status = edit.status]
  <2>1. DOMAIN rows' = DOMAIN rows
    BY <1>3
  <2>2. ASSUME NEW i \in DOMAIN rows
        PROVE  rows'[i].expires = rows[i].expires
    <3>1. rows'[i] = IF i = edit.row THEN [rows[i] EXCEPT !.status = edit.status]
                                     ELSE rows[i]
      BY <1>3
    <3>2. [rows[i] EXCEPT !.status = edit.status].expires = rows[i].expires
      BY RowType DEF Row
    <3> QED
      BY <3>1, <3>2
  <2> QED
    BY <2>1, <2>2 DEF SameDates
<1> QED
  BY <1>1, <1>2, <1>3 DEF UpdateExpired, SetSubscriptionStatus

\* The steps that leave the rows alone altogether.
Untouched ==
    \/ UNCHANGED vars
    \/ \E b \in Buyers : \/ ReadUser(b) \/ PurchaseFails(b)
                         \/ PurchaseReachesPanel(b) \/ PurchaseMissesPanel(b)
    \/ \E t \in Trials : ReadTrialUser(t) \/ TrialPanel(t)
    \/ GetConnection \/ LazyRepair
    \/ DisableReverted \/ ListExpired \/ DisableExpired
    \/ \E i \in DOMAIN rows, s \in {"active", "expired", "canceled"} : ReadRow(i, s)
    \/ SetStatusPanel
    \/ ApiCrash \/ WorkerCrash

LEMMA UntouchedRows ==
    ASSUME Untouched
    PROVE  UNCHANGED <<day, rows, trialUsed, paid, returned, bought>>
BY DEF Untouched, vars, accountVars, paymentVars, history, ReadUser, PurchaseFails,
       PurchaseReachesPanel, PurchaseMissesPanel, ReadTrialUser, TrialPanel, GetConnection,
       LazyRepair, DisableReverted, ListExpired, DisableExpired, ReadRow, SetStatusPanel,
       ApiCrash, WorkerCrash

LEMMA FewRowsStep ==
    ASSUME TypeOK, TypeOK', FewRows, [Next]_vars
    PROVE  FewRows'
<1>1. rows \in Seq(Row) /\ rows' \in Seq(Row) /\ trialUsed \in BOOLEAN
  BY DEF TypeOK
<1>2. ASSUME DOMAIN rows' = DOMAIN rows PROVE Len(rows') = Len(rows)
  BY <1>1, <1>2
<1>3. CASE Untouched
  BY <1>3, UntouchedRows DEF FewRows
<1>4. ASSUME NEW b \in Buyers, NEW d \in Plans, NEW e, Purchase(b, d, e)
      PROVE  FewRows'
  <2>1. UNCHANGED trialUsed
    BY <1>4 DEF Purchase, accountVars
  <2>2. Len(rows') = Len(rows) \/ (rows = <<>> /\ Len(rows') = Len(rows) + 1)
    BY <1>2, <1>4, PurchaseDates DEF Redated, Added
  <2> QED
    BY <1>1, <2>1, <2>2 DEF FewRows
<1>5. ASSUME NEW t \in Trials, ActivateTrial(t)
      PROVE  FewRows'
  <2>1. CASE UNCHANGED <<rows, trialUsed>>
    BY <2>1 DEF FewRows
  <2>2. CASE ~trialUsed /\ trialUsed' = TRUE /\ Added(req[t].date)
    <3>1. Len(rows) \in Nat
      BY <1>1, LenProperties
    <3>2. Len(rows) <= 1 /\ Len(rows') = Len(rows) + 1
      BY <2>2 DEF FewRows, Added
    <3>3. Len(rows') <= 2
      BY <3>1, <3>2
    <3> QED
      BY <2>2, <3>3 DEF FewRows
  <2> QED
    BY <1>5, <2>1, <2>2, TrialDates
<1>6. ASSUME NEW d \in Plans, Revert(d) \/ Confirm(d)
      PROVE  FewRows'
  <2>1. UNCHANGED trialUsed
    BY <1>6 DEF Revert, Confirm, accountVars
  <2>2. Len(rows') = Len(rows)
    BY <1>2, <1>6, RevertDates DEF Redated, Confirm
  <2> QED
    BY <2>1, <2>2 DEF FewRows
<1>7. ASSUME NEW i \in DOMAIN rows, NEW d \in Plans, ExtendSubscription(i, d)
      PROVE  FewRows'
  <2>1. UNCHANGED trialUsed
    BY <1>7 DEF ExtendSubscription, accountVars
  <2> QED
    BY <1>2, <1>7, <2>1, ExtendDates DEF FewRows, Redated
<1>8. CASE UpdateExpired \/ SetSubscriptionStatus
  <2>1. UNCHANGED trialUsed
    BY <1>8 DEF UpdateExpired, SetSubscriptionStatus, accountVars
  <2> QED
    BY <1>2, <1>8, <2>1, StatusDates DEF FewRows, SameDates
<1>9. CASE Tick
  BY <1>9 DEF Tick, accountVars, FewRows
<1> QED
  BY <1>3, <1>4, <1>5, <1>6, <1>7, <1>8, <1>9, NextCases DEF Untouched, Sweep

LEMMA RowsStep ==
    ASSUME TypeOK, TypeOK', RowsInv, [Next]_vars
    PROVE  RowsInv'
BY BeganStep, FewRowsStep DEF RowsInv

-----------------------------------------------------------------------------
(* The end of the user's time, from the dates of the rows.                 *)

LEMMA MaxIs ==
    ASSUME NEW S \in SUBSET Int, NEW m \in S, \A y \in S : m >= y
    PROVE  Max(S) = m
<1> DEFINE Tops(x) == \A y \in S : x >= y
<1>1. Tops(m)
  OBVIOUS
<1>2. \A x \in S : Tops(x) => x = m
  OBVIOUS
<1>3. Max(S) = CHOOSE x \in S : Tops(x)
  BY Zenon DEF Max
<1> HIDE DEF Tops
<1>4. (CHOOSE x \in S : Tops(x)) \in S /\ Tops(CHOOSE x \in S : Tops(x))
  BY <1>1, Zenon
<1> QED
  BY <1>2, <1>3, <1>4

\* A sequence of at most two rows has a latest date.  It is FewRows that makes
\* the maximum exist without an induction on the sequence.
EndOf(s) == IF s = <<>> THEN 0 ELSE Max({s[i].expires : i \in DOMAIN s})

LEMMA EndIs ==
    ASSUME NEW s \in Seq(Row), Len(s) <= 2, s # <<>>
    PROVE  /\ EndOf(s) \in Int
           /\ \E i \in DOMAIN s : EndOf(s) = s[i].expires
           /\ \A i \in DOMAIN s : s[i].expires <= EndOf(s)
<1> DEFINE S == {s[i].expires : i \in DOMAIN s}
<1>1. \A i \in DOMAIN s : s[i].expires \in Int
  <2>1. \A i \in DOMAIN s : s[i] \in Row
    OBVIOUS
  <2> QED
    BY <2>1 DEF Row
<1>2. PICK i \in DOMAIN s : \A k \in DOMAIN s : s[k].expires <= s[i].expires
  <2>1. DOMAIN s = {1} \/ DOMAIN s = {1, 2}
    <3>1. Len(s) \in 1..2 /\ DOMAIN s = 1..Len(s)
      <4>1. Len(s) \in Nat \ {0}
        BY EmptySeq
      <4>2. DOMAIN s = 1..Len(s)
        BY LenProperties
      <4> QED
        BY <4>1, <4>2
    <3> QED
      BY <3>1
  <2>2. CASE DOMAIN s = {1}
    BY <1>1, <2>2
  <2>3. CASE DOMAIN s = {1, 2}
    <3>1. s[1].expires \in Int /\ s[2].expires \in Int
      BY <1>1, <2>3
    <3>2. CASE s[1].expires <= s[2].expires
      BY <2>3, <3>1, <3>2
    <3>3. CASE s[2].expires <= s[1].expires
      BY <2>3, <3>1, <3>3
    <3>4. s[1].expires <= s[2].expires \/ s[2].expires <= s[1].expires
      BY <3>1
    <3> QED
      BY <3>2, <3>3, <3>4, Zenon
  <2> QED
    BY <2>1, <2>2, <2>3
<1>3. S \in SUBSET Int /\ s[i].expires \in S /\ \A y \in S : s[i].expires >= y
  BY <1>1, <1>2
<1>4. Max(S) = s[i].expires
  BY <1>3, MaxIs
<1>5. EndOf(s) = s[i].expires
  BY <1>4 DEF EndOf
<1> QED
  BY <1>1, <1>2, <1>5

LEMMA EndTypes ==
    ASSUME TypeOK, FewRows
    PROVE  /\ End = EndOf(rows) /\ End \in Int
           /\ rows = <<>> => End = 0
           /\ rows # <<>> => \E i \in DOMAIN rows : End = rows[i].expires
           /\ \A i \in DOMAIN rows : rows[i].expires \in Int /\ rows[i].expires <= End
<1>1. rows \in Seq(Row) /\ Len(rows) <= 2
  BY DEF TypeOK, FewRows
<1>2. End = EndOf(rows)
  BY DEF End, EndOf
<1>3. CASE rows = <<>>
  BY <1>2, <1>3 DEF EndOf
<1>4. CASE rows # <<>>
  BY <1>1, <1>2, <1>4, EndIs, RowType
<1> QED
  BY <1>2, <1>3, <1>4

LEMMA EndTypesNext ==
    ASSUME TypeOK', FewRows'
    PROVE  /\ End' = EndOf(rows') /\ End' \in Int
           /\ rows' = <<>> => End' = 0
           /\ rows' # <<>> => \E i \in DOMAIN rows' : End' = rows'[i].expires
           /\ \A i \in DOMAIN rows' : rows'[i].expires \in Int /\ rows'[i].expires <= End'
<1>1. rows' \in Seq(Row) /\ Len(rows') <= 2
  BY DEF TypeOK, FewRows
<1>2. End' = EndOf(rows')
  BY DEF End, EndOf
<1>3. CASE rows' = <<>>
  BY <1>2, <1>3 DEF EndOf
<1>4. CASE rows' # <<>>
  <2>1. \A i \in DOMAIN rows' : rows'[i] \in Row
    BY <1>1
  <2>2. \A i \in DOMAIN rows' : rows'[i].expires \in Int
    BY <2>1 DEF Row
  <2>3. /\ EndOf(rows') \in Int
        /\ \E i \in DOMAIN rows' : EndOf(rows') = rows'[i].expires
        /\ \A i \in DOMAIN rows' : rows'[i].expires <= EndOf(rows')
    BY <1>1, <1>4, EndIs
  <2> QED
    BY <1>2, <1>4, <2>2, <2>3
<1> QED
  BY <1>2, <1>3, <1>4

LEMMA EndSame ==
    ASSUME TypeOK, FewRows, TypeOK', FewRows', SameDates
    PROVE  End' = End
<1>1. rows \in Seq(Row) /\ rows' \in Seq(Row)
  BY DEF TypeOK
<1>2. rows = <<>> <=> rows' = <<>>
  BY <1>1 DEF SameDates
<1> QED
  BY <1>1, <1>2, EndTypes, EndTypesNext DEF SameDates

\* One row is given another date: the end is that date, or one that was there.
LEMMA EndRedated ==
    ASSUME TypeOK, FewRows, TypeOK', FewRows', NEW i \in DOMAIN rows, NEW e, Redated(i, e)
    PROVE  /\ e <= End' /\ End' \in Int /\ e \in Int
           /\ End' = e \/ \E k \in DOMAIN rows \ {i} : End' = rows[k].expires
           /\ \A k \in DOMAIN rows \ {i} : rows[k].expires <= End'
<1>1. rows' # <<>>
  BY DEF TypeOK, Redated
<1>2. /\ \A k \in DOMAIN rows' : rows'[k].expires \in Int /\ rows'[k].expires <= End'
      /\ \E k \in DOMAIN rows' : End' = rows'[k].expires
      /\ End' \in Int
  BY <1>1, EndTypesNext
<1> QED
  BY <1>2 DEF Redated

LEMMA EndAdded ==
    ASSUME TypeOK, FewRows, TypeOK', FewRows', NEW e, Added(e)
    PROVE  /\ e <= End' /\ End' \in Int /\ e \in Int
           /\ rows # <<>> => End <= End'
           /\ End' = e \/ (rows # <<>> /\ End' = End)
<1>1. rows \in Seq(Row) /\ rows' \in Seq(Row)
  BY DEF TypeOK
<1>2. rows' # <<>> /\ Len(rows') \in DOMAIN rows'
  BY <1>1 DEF Added
<1>3. /\ \A k \in DOMAIN rows' : rows'[k].expires \in Int /\ rows'[k].expires <= End'
      /\ \E k \in DOMAIN rows' : End' = rows'[k].expires
      /\ End' \in Int
  BY <1>2, EndTypesNext
<1>4. e \in Int /\ e <= End'
  BY <1>2, <1>3 DEF Added
<1>5. rows # <<>> => End <= End'
  BY <1>3, EndTypes DEF Added
<1>6. End' = e \/ (rows # <<>> /\ End' = End)
  <2>1. PICK k \in DOMAIN rows' : End' = rows'[k].expires
    BY <1>3
  <2>2. CASE k \in DOMAIN rows
    <3>1. rows # <<>> /\ End' = rows[k].expires
      BY <1>1, <2>1, <2>2 DEF Added
    <3> QED
      BY <1>3, <1>5, <2>2, <3>1, EndTypes
  <2>3. CASE k \notin DOMAIN rows
    BY <2>1, <2>3 DEF Added
  <2> QED
    BY <2>2, <2>3
<1> QED
  BY <1>3, <1>4, <1>5, <1>6

-----------------------------------------------------------------------------
(* Step by step.  RowsNow says where the refinement starts from: both       *)
(* states are typed and hold at most two rows.                              *)

RowsNow == TypeOK /\ RowsInv /\ TypeOK' /\ RowsInv'

LEMMA FromTypes ==
    ASSUME RowsNow
    PROVE  /\ End \in Int /\ End' \in Int /\ day \in Nat /\ TrialDays \in Nat
           /\ Owed!From = (IF End >= day THEN End ELSE day) /\ Owed!From \in Int
           /\ RowsInv /\ FewRows /\ FewRows' /\ TypeOK /\ TypeOK'
<1>1. RowsInv /\ FewRows /\ FewRows' /\ TypeOK /\ TypeOK'
  BY DEF RowsNow, RowsInv
<1>2. End \in Int /\ End' \in Int
  BY <1>1, EndTypes, EndTypesNext
<1>3. day \in Nat /\ TrialDays \in Nat
  BY <1>1, ConstantTypes DEF TypeOK
<1>4. Owed!From = IF End >= day THEN End ELSE day
  BY DEF Owed!From
<1> QED
  BY <1>1, <1>2, <1>3, <1>4

LEMMA PurchaseRefines ==
    ASSUME RowsNow, NEW b \in Buyers, NEW d \in Plans, NEW e, Purchase(b, d, e)
    PROVE  Owed!Purchase(d)
<1>1. d \in Nat
  BY ConstantTypes
<1>2. End' \in (End + d)..(Owed!From + d)
  <2>1. ASSUME NEW i \in DOMAIN rows, IsLatest(i), e = Extended(rows[i].expires, d),
               Redated(i, e)
        PROVE  End' \in (End + d)..(Owed!From + d)
    <3>1. rows[i].expires \in Int /\ End = rows[i].expires
      <4>1. rows # <<>>
        OBVIOUS
      <4>2. PICK k \in DOMAIN rows : End = rows[k].expires
        BY <4>1, FromTypes, EndTypes
      <4>3. /\ rows[i].expires <= End /\ rows[k].expires <= rows[i].expires
            /\ rows[i].expires \in Int
        BY <2>1, FromTypes, EndTypes DEF IsLatest
      <4> QED
        BY <4>2, <4>3, FromTypes
    <3>2. e = Owed!From + d /\ e \in Int /\ End + d <= e
      BY <1>1, <2>1, <3>1, FromTypes DEF Extended, Later
    <3>3. e <= End' /\ (End' = e \/ \E k \in DOMAIN rows \ {i} : End' = rows[k].expires)
      BY <2>1, FromTypes, EndRedated
    <3>4. \A k \in DOMAIN rows : rows[k].expires <= End /\ rows[k].expires \in Int
      BY FromTypes, EndTypes
    <3>5. End' = e
      BY <1>1, <3>2, <3>3, <3>4, FromTypes
    <3> QED
      BY <3>2, <3>5, FromTypes
  <2>2. CASE rows = <<>> /\ e = req[b].date + d /\ Added(e)
    <3>1. End = 0 /\ End' = e
      BY <2>2, FromTypes, EndTypes, EndAdded
    <3>2. req[b].date \in 0..day
      BY FromTypes DEF RowsInv, BuyersBegan, Purchase
    <3> QED
      BY <1>1, <2>2, <3>1, <3>2, FromTypes
  <2> QED
    BY <2>1, <2>2, FromTypes, PurchaseDates
<1> QED
  BY <1>2 DEF Purchase, Owed!Purchase, accountVars, paymentVars

LEMMA TrialRefines ==
    ASSUME RowsNow, NEW t \in Trials, ActivateTrial(t)
    PROVE  Owed!Trial \/ UNCHANGED Owed!vars
<1> DEFINE e == req[t].date
<1>1. UNCHANGED <<day, bought, paid, returned>>
  BY DEF ActivateTrial, paymentVars, history
<1>2. CASE ~trialUsed /\ trialUsed' = TRUE /\ Added(e)
  <2>1. e \in 0..(day + TrialDays)
    BY FromTypes DEF RowsInv, TrialsBegan, ActivateTrial
  <2>2. End' \in {End} \cup (End..(day + TrialDays))
    <3>1. CASE rows = <<>>
      BY <1>2, <2>1, <3>1, FromTypes, EndTypes, EndAdded
    <3>2. CASE rows # <<>>
      BY <1>2, <2>1, <3>2, FromTypes, EndAdded
    <3> QED
      BY <3>1, <3>2
  <2> QED
    BY <1>1, <1>2, <2>2 DEF Owed!Trial
<1>3. CASE UNCHANGED <<rows, trialUsed>>
  BY <1>1, <1>3 DEF Owed!vars, End
<1> QED
  BY <1>2, <1>3, FromTypes, TrialDates

LEMMA RevertRefines ==
    ASSUME RowsNow, NEW d \in Plans, Revert(d)
    PROVE  Owed!Return(d)
<1>1. d \in Nat
  BY ConstantTypes
<1>2. End' \in (End - d)..End
  <2>1. CASE UNCHANGED rows
    <3>1. End' = End
      BY <2>1 DEF End
    <3> QED
      BY <1>1, <3>1, FromTypes
  <2>2. ASSUME NEW i \in DOMAIN rows, IsLatest(i), Redated(i, rows[i].expires - d)
        PROVE  End' \in (End - d)..End
    <3> DEFINE e == rows[i].expires - d
    <3>1. /\ e <= End' /\ e \in Int
          /\ End' = e \/ \E k \in DOMAIN rows \ {i} : End' = rows[k].expires
      BY <2>2, FromTypes, EndRedated
    <3>2. \A k \in DOMAIN rows : rows[k].expires <= End /\ rows[k].expires \in Int
      BY FromTypes, EndTypes
    <3>3. rows[i].expires = End
      <4>1. PICK k \in DOMAIN rows : End = rows[k].expires
        BY FromTypes, EndTypes
      <4> QED
        BY <2>2, <3>2, <4>1, FromTypes DEF IsLatest
    <3> QED
      BY <1>1, <3>1, <3>2, <3>3, FromTypes
  <2> QED
    BY <2>1, <2>2, FromTypes, RevertDates
<1> QED
  BY <1>2 DEF Revert, Owed!Return, accountVars, history

LEMMA ExtendRefines ==
    ASSUME RowsNow, NEW i \in DOMAIN rows, NEW d \in Plans, ExtendSubscription(i, d)
    PROVE  Owed!Goodwill(d)
<1> DEFINE e == Extended(rows[i].expires, d)
<1>1. d \in Nat
  BY ConstantTypes
<1>2. End' \in End..(Owed!From + d)
  <2>1. /\ e <= End' /\ e \in Int
        /\ End' = e \/ \E k \in DOMAIN rows \ {i} : End' = rows[k].expires
        /\ \A k \in DOMAIN rows \ {i} : rows[k].expires <= End'
    BY FromTypes, ExtendDates, EndRedated
  <2>2. \A k \in DOMAIN rows : rows[k].expires <= End /\ rows[k].expires \in Int
    BY FromTypes, EndTypes
  <2>3. rows[i].expires <= e /\ e <= Owed!From + d /\ End <= Owed!From + d
    BY <1>1, <2>2, FromTypes DEF Extended, Later
  <2>4. PICK k \in DOMAIN rows : End = rows[k].expires
    BY FromTypes, EndTypes
  <2>5. End <= End'
    BY <2>1, <2>2, <2>3, <2>4, FromTypes
  <2>6. End' <= Owed!From + d
    <3>1. CASE End' = e
      BY <2>3, <3>1
    <3>2. ASSUME NEW j \in DOMAIN rows, End' = rows[j].expires
          PROVE  End' <= Owed!From + d
      <4>1. rows[j].expires <= End /\ End <= Owed!From + d
        BY <2>2, <2>3
      <4>2. rows[j].expires \in Int /\ Owed!From + d \in Int
        BY <1>1, <2>2, FromTypes
      <4> QED
        BY <3>2, <4>1, <4>2, FromTypes
    <3> QED
      BY <2>1, <3>1, <3>2
  <2> QED
    BY <1>1, <2>5, <2>6, FromTypes
<1> QED
  BY <1>2 DEF ExtendSubscription, Owed!Goodwill, accountVars, paymentVars

LEMMA RefineInit == Init => Owed!Init
BY DEF Init, Owed!Init, End

LEMMA RefineStep ==
    ASSUME RowsNow, [Next]_vars
    PROVE  [Owed!Next]_(Owed!vars)
<1>1. ASSUME NEW d \in Plans, Confirm(d) PROVE Owed!Pay(d)
  BY <1>1 DEF Confirm, Owed!Pay, End, accountVars, history
<1>2. ASSUME Tick PROVE Owed!Tick
  BY <1>2 DEF Tick, Owed!Tick, End, accountVars, paymentVars, history
<1>3. ASSUME Untouched PROVE UNCHANGED Owed!vars
  BY <1>3, UntouchedRows DEF Owed!vars, End
<1>4. ASSUME UpdateExpired \/ SetSubscriptionStatus PROVE UNCHANGED Owed!vars
  <2>1. End' = End
    BY <1>4, FromTypes, StatusDates, EndSame
  <2> QED
    BY <1>4, <2>1 DEF UpdateExpired, SetSubscriptionStatus, Owed!vars,
       accountVars, paymentVars, history
<1>5. ASSUME NEW b \in Buyers, NEW d \in Plans, NEW e, Purchase(b, d, e)
      PROVE  Owed!Purchase(d)
  BY <1>5, PurchaseRefines
<1>6. ASSUME NEW t \in Trials, ActivateTrial(t)
      PROVE  Owed!Trial \/ UNCHANGED Owed!vars
  BY <1>6, TrialRefines
<1>7. ASSUME NEW d \in Plans, Revert(d) PROVE Owed!Return(d)
  BY <1>7, RevertRefines
<1>8. ASSUME NEW i \in DOMAIN rows, NEW d \in Plans, ExtendSubscription(i, d)
      PROVE  Owed!Goodwill(d)
  BY <1>8, ExtendRefines
<1>9. Next => \/ \E d \in Plans : Owed!Pay(d) \/ Owed!Purchase(d) \/ Owed!Return(d)
                                  \/ Owed!Goodwill(d)
              \/ Owed!Trial \/ Owed!Tick \/ UNCHANGED Owed!vars
  BY <1>1, <1>2, <1>3, <1>4, <1>5, <1>6, <1>7, <1>8, NextCases DEF Untouched, Sweep
<1> QED
  BY <1>3, <1>9 DEF Owed!Next, Untouched

\* For any plans, requesters, clock and faults, and however their steps fall
\* between each other: a purchase adds exactly its days to what was left, the
\* trial is given once, and a returned payment takes back no more than its own
\* days (ExtendSubscriptionByDuration, SetTrialUsedTx,
\* ContractSubscriptionByDuration).
THEOREM RowsImplementEntitlement == Spec => ImplementsEntitlement
<1>1. Spec => [](TypeOK /\ RowsInv)
  <2>1. TypeOK /\ TypeOK' /\ RowsInv /\ [Next]_vars => RowsInv'
    BY RowsStep
  <2> QED
    BY <2>1, RowsInit, SubscriptionTypes, PTL DEF Spec
<1>2. (TypeOK /\ RowsInv) /\ (TypeOK /\ RowsInv)' /\ [Next]_vars => [Owed!Next]_(Owed!vars)
  BY RefineStep DEF RowsNow
<1> QED
  BY <1>1, <1>2, RefineInit, PTL DEF Spec, ImplementsEntitlement, Owed!Spec
=============================================================================
