------------------------------ MODULE Holdings ------------------------------
(***************************************************************************)
(* What becomes of an account's possessions, with no transaction, lock or  *)
(* handler in sight: an account is opened empty and earns; a trial is used *)
(* once, by whoever owns it now; accounts are merged whole, in an instant, *)
(* with all they have and all they referred; only an account that has      *)
(* nothing may be dropped.                                                 *)
(*                                                                         *)
(* It does not promise that referrals form no circle: of two accounts that *)
(* referred each other through a third, a merge can close one.             *)
(***************************************************************************)
EXTENDS Integers

CONSTANTS Users, Nobody

VARIABLES
    open,       \* the accounts there are
    yad,        \* their balances
    tried,      \* those whose trial is used up
    invited,    \* who invited the account, as it is shown to both
    earnsFor    \* whom the account's payments earn a reward for

vars == <<open, yad, tried, invited, earnsFor>>

Init ==
    /\ open \in SUBSET Users
    /\ yad = [u \in Users |-> 0]
    /\ tried \in SUBSET open
    /\ invited \in [Users -> open \cup {Nobody}]
    /\ earnsFor = invited

Open(u, by) ==
    /\ u \notin open
    /\ by \in open \cup {Nobody}
    /\ open' = open \cup {u}
    /\ invited' = [invited EXCEPT ![u] = by]
    /\ UNCHANGED <<yad, tried, earnsFor>>

Enlist(u) ==
    /\ {u, invited[u]} \subseteq open
    /\ earnsFor' = [earnsFor EXCEPT ![u] = invited[u]]
    /\ UNCHANGED <<open, yad, tried, invited>>

Earn(u) ==
    /\ u \in open
    /\ yad' = [yad EXCEPT ![u] = @ + 1]
    /\ UNCHANGED <<open, tried, invited, earnsFor>>

Try(u) ==
    /\ u \in open \ tried
    /\ tried' = tried \cup {u}
    /\ UNCHANGED <<open, yad, invited, earnsFor>>

\* The guests of s are d's from now on, except d itself.
Inherited(host, s, d) ==
    [u \in Users |->
        CASE u = s -> Nobody
          [] u # s /\ host[u] = s -> IF u = d THEN Nobody ELSE d
          [] OTHER -> host[u]]

Merge(s, d) ==
    /\ {s, d} \subseteq open /\ s # d
    /\ open' = open \ {s}
    /\ yad' = [yad EXCEPT ![d] = @ + yad[s], ![s] = 0]
    /\ tried' = (IF s \in tried THEN tried \cup {d} ELSE tried) \ {s}
    /\ invited' = Inherited(invited, s, d)
    /\ earnsFor' = Inherited(earnsFor, s, d)

Drop(u) ==
    /\ u \in open \ tried
    /\ yad[u] = 0
    /\ \A v \in Users : u \notin {invited[v], earnsFor[v]}
    /\ open' = open \ {u}
    /\ invited' = [invited EXCEPT ![u] = Nobody]
    /\ earnsFor' = [earnsFor EXCEPT ![u] = Nobody]
    /\ UNCHANGED <<yad, tried>>

Next ==
    \/ \E u \in Users :
        \/ \E by \in Users \cup {Nobody} : Open(u, by)
        \/ Enlist(u) \/ Earn(u) \/ Try(u) \/ Drop(u)
    \/ \E s, d \in Users : Merge(s, d)

Spec == Init /\ [][Next]_vars
=============================================================================
