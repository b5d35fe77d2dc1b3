--------------------------- MODULE Subscriptions ---------------------------
(***************************************************************************)
(* One user's subscriptions: the rows of the table, with their dates, and  *)
(* the account at the Remnawave panel that decides whether the VPN works.  *)
(* Purchases, the trial, chargebacks, the administrator, the connection    *)
(* page and the worker's five-minute sweep each change the rows in a       *)
(* transaction of their own and call the panel afterwards, with what they  *)
(* read or computed before.                                                *)
(*                                                                         *)
(* A transaction is one step: extension and contraction are serializable   *)
(* and hold the user's row lock, the trial is one insert and one           *)
(* conditional update, and the other writes are single statements.  The    *)
(* two calls UpdateExpiry and EnableUser write different fields of the     *)
(* account and are one step with every outcome the pair can have.          *)
(***************************************************************************)
EXTENDS Integers, Sequences

CONSTANTS
    Actors,         \* the requests and background tasks that exist
    Plans,          \* PlanDurationDays of the plans on sale
    TrialDays,      \* 3 in the code
    MaxJobRetries,  \* how often the worker retries an activation job
    Horizon,        \* bound: the clock stops at this day
    MaxExpiry,      \* bound: nobody buys beyond this day
    MaxPayments,    \* bound: Platega payments of each plan
    Faults          \* what may fail, a subset of FaultKinds

Buyers     == {"worker", "yad", "admin"}
Trials     == {"trial1", "trial2"}
Requesters == Buyers \cup Trials \cup {"repair"}
FaultKinds == {"Database", "Remnawave", "Crash"}

ASSUME SubscriptionAssumption ==
    /\ Actors \subseteq Requesters
                        \cup {"chargeback", "sweep", "set_status", "extend_days"}
    /\ Plans \subseteq Nat \ {0}
    /\ {TrialDays, MaxJobRetries, Horizon, MaxExpiry, MaxPayments} \subseteq Nat
    /\ Faults \subseteq FaultKinds

VARIABLES
    day,        \* NOW()
    rows,       \* the rows of subscriptions, in the order they were inserted
    trialUsed,  \* users.trial_used
    linked,     \* users.remna_user_uuid is set
    panel,      \* the panel's account
    paid,       \* paid[d]: payments of the plan of d days confirmed so far
    returned,   \* returned[d]: how many of them were charged back
    job,        \* the activation job the worker has to do
    req,        \* req[x]: the request that x has under way
    undo,       \* a chargeback has retired the subscription, panel call due
    sweep,      \* the sweep under way: its next step, whether it listed the user
    edit,       \* SetSubscriptionStatus under way
    peak,       \* history: the latest expiry a transaction has ever committed
    bought      \* history: the purchases committed so far

accountVars == <<trialUsed, linked>>
paymentVars == <<paid, returned>>
taskVars    == <<job, req, undo, sweep, edit>>
history     == <<peak, bought>>
vars        == <<day, rows, accountVars, panel, paymentVars, taskVars, history>>

-----------------------------------------------------------------------------
RowStatus == {"active", "trial", "expired", "reverted", "canceled"}
Row       == [status : RowStatus, expires : Int]
Account   == [exists : BOOLEAN, enabled : BOOLEAN, expires : Int]

\* date: the clock when the request began, then the expiry it has committed.
Request == [pc : {"idle", "tx", "panel"}, linked : BOOLEAN, date : Int]
Idle    == [pc |-> "idle", linked |-> FALSE, date |-> 0]

NoJob == [days |-> 0, tries |-> 0]
Edit  == [pc : {"idle", "write", "panel"}, row : Nat, status : RowStatus,
          expires : Int]
NoEdit == [pc |-> "idle", row |-> 0, status |-> "active", expires |-> 0]

TypeOK ==
    /\ day \in 0..Horizon
    /\ rows \in Seq(Row)
    /\ trialUsed \in BOOLEAN
    /\ linked \in BOOLEAN
    /\ panel \in Account
    /\ paid \in [Plans -> 0..MaxPayments]
    /\ returned \in [Plans -> 0..MaxPayments]
    /\ job \in [days : Plans \cup {0}, tries : 0..MaxJobRetries]
    /\ req \in [Requesters -> Request]
    /\ undo \in BOOLEAN
    /\ sweep \in [pc : {"idle", "mark", "disable"}, listed : BOOLEAN]
    /\ edit \in Edit
    /\ peak \in Int
    /\ bought \in Nat

Init ==
    /\ day = 0
    /\ rows = <<>>
    /\ trialUsed = FALSE
    /\ linked = FALSE
    /\ panel = [exists |-> FALSE, enabled |-> FALSE, expires |-> 0]
    /\ paid = [d \in Plans |-> 0]
    /\ returned = [d \in Plans |-> 0]
    /\ job = NoJob
    /\ req = [x \in Requesters |-> Idle]
    /\ undo = FALSE
    /\ sweep = [pc |-> "idle", listed |-> FALSE]
    /\ edit = NoEdit
    /\ peak = 0
    /\ bought = 0

Later(a, b) == IF a >= b THEN a ELSE b

\* GREATEST(expires_at, NOW()) + days; ExtendedFromNow loses what is left.
ExtendedFromNow(expires, days) == day + days
Extended(expires, days) == Later(expires, day) + days

Lapsed(row) == row.status \in {"active", "trial"} /\ row.expires <= day
Live(row)   == row.status \in {"active", "trial"} /\ row.expires > day

\* ORDER BY expires_at DESC LIMIT 1, whatever the status; IsNewest is a mutant
\* that takes the row inserted last.
IsNewest(i) == i = Len(rows)
IsLatest(i) == \A k \in DOMAIN rows : rows[k].expires <= rows[i].expires

\* Every write of a date goes through here.
Store(newRows, e) ==
    /\ rows' = newRows
    /\ peak' = Later(peak, e)

-----------------------------------------------------------------------------
(* The panel.                                                              *)

Renewed(e)   == [panel EXCEPT !.expires = e]
Granted(e)   == [panel EXCEPT !.expires = e, !.enabled = TRUE]
Disabled     == [panel EXCEPT !.enabled = FALSE]
NewAccount(e) == [exists |-> TRUE, enabled |-> TRUE, expires |-> e]

\* A failed call may have reached the panel all the same.
PanelFails == "Remnawave" \in Faults

\* UpdateExpiry succeeds; a failure of EnableUser after it is only logged.
UpdateAndEnable(e) ==
    \/ panel' = Granted(e)
    \/ PanelFails /\ panel' = Renewed(e)

UpdateFails(e) ==
    /\ PanelFails
    /\ panel' \in {panel, Renewed(e)}

\* Both calls are made, whatever the first returns.
UpdateEnableAnyway(e) ==
    \/ UpdateAndEnable(e)
    \/ UpdateFails(e)
    \/ PanelFails /\ panel' = [panel EXCEPT !.enabled = TRUE]

Disable ==
    \/ panel' = Disabled
    \/ PanelFails /\ UNCHANGED panel

\* UpdateRemnaUUID, its error discarded.
Link ==
    \/ linked' = TRUE
    \/ "Database" \in Faults /\ UNCHANGED linked

\* CreateUser answers: the panel had no account of this name.
CreateAccount(e) ==
    /\ ~panel.exists
    /\ panel' = NewAccount(e)
    /\ Link

\* CreateUser fails and GetUserByUsername finds the account, whose expiry and
\* status are then set.
RecoverAccount(e) ==
    /\ panel.exists
    /\ UpdateEnableAnyway(e)
    /\ Link

\* Neither CreateUser nor the lookup answers, although the account may exist
\* by now.
AccountFails(e) ==
    /\ PanelFails
    /\ panel' \in {panel} \cup (IF panel.exists THEN {} ELSE {NewAccount(e)})
    /\ UNCHANGED linked

\* A request reads the clock and the user, remna_user_uuid included, first.
Advance(x, r)  == req' = [req EXCEPT ![x] = r]
Finish(x)      == Advance(x, Idle)
Begin(x, date) ==
    /\ x \in Actors
    /\ req[x] = Idle
    /\ Advance(x, [pc |-> "tx", linked |-> linked, date |-> date])
Committed(x, e) == Advance(x, [req[x] EXCEPT !.pc = "panel", !.date = e])

-----------------------------------------------------------------------------
(* Purchases: handleSubscriptionActivate of the worker, paid in YAD, or     *)
(* assigned by an administrator.  Each reads the user, extends the latest   *)
(* row or creates the first, and then brings the panel up to date.          *)

\* A payment was confirmed; the worker has one activation at a time to do.
Confirm(d) ==
    /\ "worker" \in Actors
    /\ paid[d] < MaxPayments
    /\ job = NoJob
    /\ paid' = [paid EXCEPT ![d] = @ + 1]
    /\ job' = [days |-> d, tries |-> 0]
    /\ UNCHANGED <<day, rows, accountVars, panel, returned, req, undo, sweep, edit, history>>

ReadUser(b) ==
    /\ b \in Buyers
    /\ b = "worker" => job # NoJob
    /\ Begin(b, day)
    /\ UNCHANGED <<day, rows, accountVars, panel, paymentVars, job, undo, sweep, edit, history>>

\* extendOrCreateSub, tryBuyWithYAD, assignSubInTx.
ExtendRow(i, d, e) ==
    /\ i \in DOMAIN rows
    /\ IsLatest(i)
    /\ e = Extended(rows[i].expires, d)
    /\ Store([rows EXCEPT ![i] = [status |-> "active", expires |-> e]], e)

CreateRow(now, d, e) ==
    /\ rows = <<>>
    /\ e = now + d
    /\ Store(<<[status |-> "active", expires |-> e]>>, e)

ExtendOrCreateSub(now, d, e) ==
    \/ \E i \in DOMAIN rows : ExtendRow(i, d, e)
    \/ CreateRow(now, d, e)

Purchase(b, d, e) ==
    /\ req[b].pc = "tx"
    /\ b = "worker" => d = job.days
    /\ ExtendOrCreateSub(req[b].date, d, e)
    /\ Committed(b, e)
    /\ bought' = bought + 1
    /\ UNCHANGED <<day, accountVars, panel, paymentVars, job, undo, sweep, edit>>

\* requeueOrDead as one job sees it; AgainUncapped never gives up.
AgainUncapped == job' = [job EXCEPT !.tries = @ + 1]
Again == job' = IF job.tries < MaxJobRetries
                THEN [job EXCEPT !.tries = @ + 1] ELSE NoJob

EndJob(b) == job' = IF b = "worker" THEN NoJob ELSE job

RetryJob(b) == \/ b = "worker" /\ Again
               \/ b # "worker" /\ UNCHANGED job

PurchaseFails(b) ==
    /\ "Database" \in Faults
    /\ b \in Buyers
    /\ req[b].pc = "tx"
    /\ Finish(b)
    /\ RetryJob(b)
    /\ UNCHANGED <<day, rows, accountVars, panel, paymentVars, undo, sweep, edit, history>>

\* The new expiry goes to the account the request knew of when it began.
PurchaseReachesPanel(b) ==
    LET e == req[b].date
    IN  /\ b \in Buyers
        /\ req[b].pc = "panel"
        /\ \/ req[b].linked /\ UpdateAndEnable(e) /\ UNCHANGED linked
           \/ ~req[b].linked /\ (CreateAccount(e) \/ RecoverAccount(e))
        /\ Finish(b)
        /\ EndJob(b)
        /\ UNCHANGED <<day, rows, trialUsed, paymentVars, undo, sweep, edit, history>>

\* The worker's job is tried again from the start; the others only log.
PurchaseMissesPanel(b) ==
    LET e == req[b].date
    IN  /\ b \in Buyers
        /\ req[b].pc = "panel"
        /\ \/ req[b].linked /\ UpdateFails(e) /\ UNCHANGED linked
           \/ ~req[b].linked /\ AccountFails(e)
        /\ Finish(b)
        /\ RetryJob(b)
        /\ UNCHANGED <<day, rows, trialUsed, paymentVars, undo, sweep, edit, history>>

-----------------------------------------------------------------------------
(* ActivateTrial.                                                          *)

ReadTrialUser(t) ==
    /\ t \in Trials
    /\ ~trialUsed
    /\ Begin(t, day + TrialDays)
    /\ UNCHANGED <<day, rows, accountVars, panel, paymentVars, job, undo, sweep, edit, history>>

\* UPDATE ... WHERE trial_used = FALSE: one transaction at most gets through.
\* TrialUnclaimedAlways drops the condition.
TrialUnclaimedAlways == TRUE
TrialUnclaimed == ~trialUsed

\* A failed transaction ends the request; RefusedButServed goes on to the panel.
RefusedButServed(t) == Committed(t, req[t].date)
Refused(t) == Finish(t)

\* The trial is a row of its own, whatever rows there are.
ActivateTrial(t) ==
    LET e == req[t].date
    IN  /\ t \in Trials
        /\ req[t].pc = "tx"
        /\ \/ /\ TrialUnclaimed
              /\ trialUsed' = TRUE
              /\ Store(Append(rows, [status |-> "trial", expires |-> e]), e)
              /\ Committed(t, e)
              /\ UNCHANGED bought
           \/ /\ ~TrialUnclaimed \/ "Database" \in Faults
              /\ Refused(t)
              /\ UNCHANGED <<rows, trialUsed, history>>
        /\ UNCHANGED <<day, linked, panel, paymentVars, job, undo, sweep, edit>>

TrialPanel(t) ==
    LET e == req[t].date
    IN  /\ t \in Trials
        /\ req[t].pc = "panel"
        /\ \/ req[t].linked /\ UpdateEnableAnyway(e) /\ UNCHANGED linked
           \/ ~req[t].linked /\ (CreateAccount(e) \/ RecoverAccount(e) \/ AccountFails(e))
        /\ Finish(t)
        /\ UNCHANGED <<day, rows, trialUsed, paymentVars, job, undo, sweep, edit, history>>

-----------------------------------------------------------------------------
(* The connection page of the site and the VPN link of the bot: for a user  *)
(* with a live row and no account on record, look the account up or create  *)
(* it with the row's date.                                                  *)

GetConnection ==
    \E i \in DOMAIN rows :
        /\ Live(rows[i])
        /\ \A k \in DOMAIN rows : Live(rows[k]) => rows[k].expires <= rows[i].expires
        /\ ~linked
        /\ Begin("repair", rows[i].expires)
        /\ UNCHANGED <<day, rows, accountVars, panel, paymentVars, job, undo, sweep, edit, history>>

LazyRepair ==
    /\ req["repair"].pc = "tx"
    /\ \/ panel.exists /\ Link /\ UNCHANGED panel
       \/ CreateAccount(req["repair"].date)
       \/ AccountFails(req["repair"].date)
    /\ Finish("repair")
    /\ UNCHANGED <<day, rows, trialUsed, paymentVars, job, undo, sweep, edit, history>>

-----------------------------------------------------------------------------
(* processRevertedPayment for a payment that was confirmed: the latest row  *)
(* loses the plan's days, and the panel is told only if nothing is left.    *)

\* ContractSubscriptionByDuration.
Contract(i, d) ==
    LET e == rows[i].expires - d
    IN  /\ i \in DOMAIN rows
        /\ IsLatest(i)
        /\ rows' = [rows EXCEPT ![i] =
                [status |-> IF e <= day THEN "reverted" ELSE @.status,
                 expires |-> e]]
        /\ undo' = (e <= day)

Revert(d) ==
    /\ "chargeback" \in Actors
    /\ ~undo
    /\ returned[d] < paid[d]
    /\ returned' = [returned EXCEPT ![d] = @ + 1]
    /\ \/ \E i \in DOMAIN rows : Contract(i, d)
       \/ rows = <<>> /\ UNCHANGED <<rows, undo>>
    /\ UNCHANGED <<day, accountVars, panel, paid, job, req, sweep, edit, history>>

DisableReverted ==
    /\ undo
    /\ undo' = FALSE
    /\ \/ linked /\ Disable
       \/ (~linked \/ "Database" \in Faults) /\ UNCHANGED panel
    /\ UNCHANGED <<day, rows, accountVars, paymentVars, job, req, sweep, edit, history>>

-----------------------------------------------------------------------------
(* periodicExpirySweep: list the users with a lapsed row, mark the rows,    *)
(* disable the listed users.                                                *)

SweepDone == [pc |-> "idle", listed |-> FALSE]

ListExpired ==
    /\ "sweep" \in Actors
    /\ sweep.pc = "idle"
    /\ \/ sweep' = [pc |-> "mark", listed |-> \E i \in DOMAIN rows : Lapsed(rows[i])]
       \/ "Database" \in Faults /\ sweep' = [pc |-> "mark", listed |-> FALSE]
    /\ UNCHANGED <<day, rows, accountVars, panel, paymentVars, job, req, undo, edit, history>>

\* MarkedToday misses what ran out before today.
MarkedToday(row) ==
    IF Lapsed(row) /\ row.expires = day THEN [row EXCEPT !.status = "expired"] ELSE row
Marked(row) ==
    IF Lapsed(row) THEN [row EXCEPT !.status = "expired"] ELSE row

UpdateExpired ==
    /\ sweep.pc = "mark"
    /\ \/ /\ rows' = [i \in DOMAIN rows |-> Marked(rows[i])]
          /\ sweep' = IF sweep.listed THEN [sweep EXCEPT !.pc = "disable"] ELSE SweepDone
       \/ /\ "Database" \in Faults
          /\ sweep' = SweepDone
          /\ UNCHANGED rows
    /\ UNCHANGED <<day, accountVars, panel, paymentVars, job, req, undo, edit, history>>

DisableExpired ==
    /\ sweep.pc = "disable"
    /\ sweep' = SweepDone
    /\ \/ linked /\ Disable
       \/ (~linked \/ "Database" \in Faults) /\ UNCHANGED panel
    /\ UNCHANGED <<day, rows, accountVars, paymentVars, job, req, undo, edit, history>>

-----------------------------------------------------------------------------
(* The administrator's edits of one row.                                    *)

ReadRow(i, s) ==
    /\ "set_status" \in Actors
    /\ edit = NoEdit
    /\ i \in DOMAIN rows
    /\ edit' = [pc |-> "write", row |-> i, status |-> s, expires |-> rows[i].expires]
    /\ UNCHANGED <<day, rows, accountVars, panel, paymentVars, job, req, undo, sweep, history>>

SetSubscriptionStatus ==
    /\ edit.pc = "write"
    /\ \/ /\ rows' = [rows EXCEPT ![edit.row].status = edit.status]
          /\ edit' = [edit EXCEPT !.pc = "panel"]
       \/ /\ "Database" \in Faults
          /\ edit' = NoEdit
          /\ UNCHANGED rows
    /\ UNCHANGED <<day, accountVars, panel, paymentVars, job, req, undo, sweep, history>>

SetStatusPanel ==
    /\ edit.pc = "panel"
    /\ edit' = NoEdit
    /\ \/ linked /\ edit.status = "active" /\ UpdateEnableAnyway(edit.expires)
       \/ linked /\ edit.status # "active" /\ Disable
       \/ (~linked \/ "Database" \in Faults) /\ UNCHANGED panel
    /\ UNCHANGED <<day, rows, accountVars, paymentVars, job, req, undo, sweep, history>>

\* ExtendSubscriptionByDays tells the panel nothing.
ExtendSubscription(i, d) ==
    LET e == Extended(rows[i].expires, d)
        s == rows[i].status
    IN  /\ "extend_days" \in Actors
        /\ e <= MaxExpiry
        /\ Store([rows EXCEPT ![i] =
                    [status |-> IF s \in {"expired", "canceled"} THEN "active" ELSE s,
                     expires |-> e]], e)
        /\ UNCHANGED <<day, accountVars, panel, paymentVars, taskVars, bought>>

-----------------------------------------------------------------------------
(* Time, and processes that stop: what a request held is gone, a waiting job *)
(* survives only in its Redis list.                                          *)

Tick ==
    /\ day < Horizon
    /\ day' = day + 1
    /\ UNCHANGED <<rows, accountVars, panel, paymentVars, taskVars, history>>

ApiCrash ==
    /\ "Crash" \in Faults
    /\ req' = [x \in Requesters |-> IF x = "worker" THEN req[x] ELSE Idle]
    /\ edit' = NoEdit
    /\ UNCHANGED <<day, rows, accountVars, panel, paymentVars, job, undo, sweep, history>>

WorkerCrash ==
    /\ "Crash" \in Faults
    /\ req' = [req EXCEPT !["worker"] = Idle]
    /\ job' \in {NoJob} \cup (IF req["worker"] = Idle THEN {job} ELSE {})
    /\ undo' = FALSE
    /\ sweep' = SweepDone
    /\ UNCHANGED <<day, rows, accountVars, panel, paymentVars, edit, history>>

-----------------------------------------------------------------------------
Serve(b) ==
    \/ \E d \in Plans, e \in 0..MaxExpiry : Purchase(b, d, e)
    \/ PurchaseFails(b)
    \/ PurchaseReachesPanel(b)
    \/ PurchaseMissesPanel(b)

ServeTrial(t) == ActivateTrial(t) \/ TrialPanel(t)

Sweep == ListExpired \/ UpdateExpired \/ DisableExpired

SetStatus ==
    \/ \E i \in DOMAIN rows, s \in {"active", "expired", "canceled"} : ReadRow(i, s)
    \/ SetSubscriptionStatus
    \/ SetStatusPanel

Next ==
    \/ \E d \in Plans : Confirm(d)
    \/ \E b \in Buyers : ReadUser(b) \/ Serve(b)
    \/ \E t \in Trials : ReadTrialUser(t) \/ ServeTrial(t)
    \/ GetConnection
    \/ LazyRepair
    \/ \E d \in Plans : Revert(d)
    \/ DisableReverted
    \/ Sweep
    \/ SetStatus
    \/ \E i \in DOMAIN rows, d \in Plans : ExtendSubscription(i, d)
    \/ Tick
    \/ ApiCrash
    \/ WorkerCrash

Spec == Init /\ [][Next]_vars

\* The sweep's ticker and the worker's loops keep running, and a request that
\* has begun goes on; nobody has to buy, to ask or to pay.
FairSpec ==
    /\ Spec
    /\ WF_vars(Sweep)
    /\ WF_vars(DisableReverted)
    /\ WF_vars(ReadUser("worker"))
    /\ \A b \in Buyers : WF_vars(Serve(b))
    /\ \A t \in Trials : WF_vars(ServeTrial(t))
    /\ WF_vars(LazyRepair)
    /\ WF_vars(SetSubscriptionStatus \/ SetStatusPanel)
=============================================================================
