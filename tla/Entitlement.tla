---------------------------- MODULE Entitlement ----------------------------
(***************************************************************************)
(* What the service owes one user in time: the date their access ends.     *)
(* Buying moves it by the days that were bought, the trial is given once,  *)
(* a payment that is returned takes back no more than its own days and     *)
(* does so once, and only an administrator gives days away.                *)
(***************************************************************************)
EXTENDS Integers

CONSTANTS
    Plans,      \* the days each plan buys
    TrialDays,
    Gifts       \* whether an administrator may give days away

VARIABLES
    day,        \* today
    end,        \* the date access ends, 0 before anything was granted
    trialUsed,
    bought,     \* purchases made
    paid,       \* payments confirmed, by the days they bought
    returned    \* those of them that were charged back

vars == <<day, end, trialUsed, bought, paid, returned>>

Init ==
    /\ day = 0
    /\ end = 0
    /\ trialUsed = FALSE
    /\ bought = 0
    /\ paid = [d \in Plans |-> 0]
    /\ returned = [d \in Plans |-> 0]

From == IF end >= day THEN end ELSE day

Pay(d) ==
    /\ paid' = [paid EXCEPT ![d] = @ + 1]
    /\ UNCHANGED <<day, end, trialUsed, bought, returned>>

\* No bought day is lost and none is added: the days follow what was left.
Purchase(d) ==
    /\ bought' = bought + 1
    /\ end' \in (end + d)..(From + d)
    /\ UNCHANGED <<day, trialUsed, paid, returned>>

Trial ==
    /\ ~trialUsed
    /\ trialUsed' = TRUE
    /\ end' \in {end} \cup (end..(day + TrialDays))
    /\ UNCHANGED <<day, bought, paid, returned>>

Return(d) ==
    /\ returned[d] < paid[d]
    /\ returned' = [returned EXCEPT ![d] = @ + 1]
    /\ end' \in (end - d)..end
    /\ UNCHANGED <<day, trialUsed, bought, paid>>

\* An administrator may extend any row, the last to end or another.
Goodwill(d) ==
    /\ Gifts
    /\ end' \in end..(From + d)
    /\ UNCHANGED <<day, trialUsed, bought, paid, returned>>

Tick ==
    /\ day' = day + 1
    /\ UNCHANGED <<end, trialUsed, bought, paid, returned>>

Next ==
    \/ \E d \in Plans :
           Pay(d) \/ Purchase(d) \/ Return(d) \/ Goodwill(d)
    \/ Trial
    \/ Tick

Spec == Init /\ [][Next]_vars
=============================================================================
