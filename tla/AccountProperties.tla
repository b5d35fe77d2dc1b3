------------------------- MODULE AccountProperties -------------------------
(***************************************************************************)
(* What accounts must satisfy, and the values of a cfg's constants.        *)
(***************************************************************************)
EXTENDS Accounts

\* A Telegram leads to no account but one that was opened for it or whose
\* owner's code it entered, and no two accounts share one (handleStart and
\* handleLink in bot.go; the comment at 352 tells of a former /start that
\* took over a stranger's account of the name it wanted).
TelegramAgreed ==
    \A u \in Users : users[u].telegram # Nobody =>
        /\ users[u].exists
        /\ <<users[u].telegram, u>> \in agreed
        /\ Of(users[u].telegram) = {u}

Kept == INSTANCE Holdings WITH
    open     <- {u \in Users : users[u].exists},
    yad      <- [u \in Users |-> users[u].yad],
    tried    <- {u \in Users : users[u].trial},
    invited  <- [u \in Users |-> users[u].referrer],
    earnsFor <- referral

\* Whatever is credited, tried or registered while MergeUsers runs, and
\* whatever two merges do to each other, an account's balance, trial and
\* referrals are lost in no merge and doubled by none (MergeUsers in
\* user_repo.go with its FOR UPDATE, its UPDATEs in place and the foreign
\* keys; Register with its late referral).
ImplementsHoldings == Kept!Spec

\* A handler that waits for a row gets it in the end: each path of MergeUsers
\* releases its rows, and of transactions that wait in a ring one is ended.
RequestsEnd == \A c \in Requests : req[c] # Idle ~> req[c] = Idle
=============================================================================
