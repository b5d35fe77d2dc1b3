------------------------------ MODULE Accounts ------------------------------
(***************************************************************************)
(* Accounts and the Telegram they belong to: registration on the site and  *)
(* with /start, the one-time codes that link and unlink a Telegram, the    *)
(* merge of two accounts that a link may bring with it, the switch of the  *)
(* two-factor check.  One action per statement or Redis call; MergeUsers   *)
(* is a transaction of three: the source row locked, the destination row   *)
(* written, the rest with its commit.                                      *)
(*                                                                         *)
(* A write of a row waits for the transaction that has it locked; so does  *)
(* an insert that refers to a row about to be deleted, by its foreign key. *)
(* What else an account owns (rows of payments, subscriptions, orders and  *)
(* so on) is one flag.  Refusals that change nothing are not actions; the  *)
(* limits on addresses, devices and codes only refuse and are left out, as *)
(* are the risk score and the first administrator's token.                 *)
(***************************************************************************)
EXTENDS Integers

CONSTANTS
    Users,          \* identities accounts may get, never used twice
    Telegrams,      \* Telegram identities
    Site, Bot,      \* accounts there at the start: of the site, of the bot
    Phone,          \* the Telegram of Bot
    Nobody,         \* no account, no Telegram, no request
    Requests,       \* handlers that may be under way at once
    Ops,            \* what is asked for, a subset of OpKinds
    MaxCodes,       \* bound: codes of a kind that an account may have
    MaxAsked,       \* bound: requests made in all
    Faults          \* calls that may fail, a subset of FaultKinds

OpKinds == {"register", "start", "link", "unlink", "tfa", "bot_tfa",
            "link_code", "unlink_code", "trial", "credit"}
FaultKinds == {"Insert", "Referral", "Bind", "Merge", "Clear", "Disable"}

ASSUME AccountAssumption ==
    /\ {Site, Bot} \subseteq Users /\ Site # Bot
    /\ Phone \in Telegrams
    /\ Nobody \notin Users \cup Telegrams \cup Requests
    /\ Ops \subseteq OpKinds
    /\ {MaxCodes, MaxAsked} \subseteq Nat
    /\ Faults \subseteq FaultKinds

VARIABLES
    users,      \* the users table
    referral,   \* the referrals table: the referrer, by referee
    holder,     \* the request whose transaction has the row locked
    links,      \* tg:link:<code> keys, how many lead to the account
    unlinks,    \* tg:unlink:<code> keys, how many lead to the account
    req,        \* what each request is doing
    asked,      \* bound: requests made so far
    opened,     \* history: identities that have been given out
    agreed      \* history: <<t, u>> if Telegram t entered a code of u, or
                \* u was opened for t

tables  == <<users, referral, holder>>
codes   == <<links, unlinks>>
history == <<opened, agreed>>
vars    == <<tables, codes, req, asked, history>>

-----------------------------------------------------------------------------
(* Names: of a Telegram ("tg<ID>"), or one that nobody else has.           *)

Unique == "unique"
Names  == Telegrams \cup {Unique}

\* owns: there are rows of other tables that refer to the account.
Account == [exists : BOOLEAN, name : Names, telegram : Telegrams \cup {Nobody},
            tfa : BOOLEAN, yad : Nat, trial : BOOLEAN, owns : BOOLEAN,
            referrer : Users \cup {Nobody}]

New(name, referrer) ==
    [exists |-> TRUE, name |-> name, telegram |-> Nobody, tfa |-> FALSE,
     yad |-> 0, trial |-> FALSE, owns |-> FALSE, referrer |-> referrer]
Absent == [New(Unique, Nobody) EXCEPT !.exists = FALSE]

Exists(u) == u \in Users /\ users[u].exists
Of(t)     == {u \in Users : users[u].exists /\ users[u].telegram = t}
Taken(n)  == n # Unique /\ \E u \in Users : users[u].exists /\ users[u].name = n

Points == {"idle", "insert", "refer", "find", "lock", "take", "move", "bind",
           "clear", "disable", "switch"}

\* user: the account that is opened, linked, unlinked or switched.
\* other: its referrer, or the account that is merged into it; yad, trial: of
\* that account, when it was locked.  again: /start's second attempt.
Request == [op : OpKinds \cup {"none"}, at : Points, telegram : Telegrams \cup {Nobody},
            user : Users \cup {Nobody}, other : Users \cup {Nobody}, name : Names,
            on : BOOLEAN, again : BOOLEAN, yad : Nat, trial : BOOLEAN]
Idle == [op |-> "none", at |-> "idle", telegram |-> Nobody, user |-> Nobody,
         other |-> Nobody, name |-> Unique, on |-> FALSE, again |-> FALSE,
         yad |-> 0, trial |-> FALSE]

TypeOK ==
    /\ users \in [Users -> Account]
    /\ referral \in [Users -> Users \cup {Nobody}]
    /\ holder \in [Users -> Requests \cup {Nobody}]
    /\ links \in [Users -> 0..MaxCodes]
    /\ unlinks \in [Users -> 0..MaxCodes]
    /\ req \in [Requests -> Request]
    /\ asked \in 0..MaxAsked
    /\ opened \in SUBSET Users
    /\ agreed \in SUBSET (Telegrams \X Users)

\* An account of the site, which may have a Telegram of its own, and one of
\* the bot; either may have referred the other, and have used its trial; their
\* owners have asked for codes.  A code that runs out, or an unlink code spent
\* on another's account, is one that is never used.
Init ==
    /\ \E s, b \in BOOLEAN, first \in {Site, Bot, Nobody},
          t \in {Nobody} \cup (Telegrams \ {Phone}) :
        /\ users = [u \in Users |->
             IF u = Site THEN [New(Unique, IF first = Bot THEN Bot ELSE Nobody)
                                EXCEPT !.telegram = t, !.trial = s, !.owns = s]
             ELSE IF u = Bot THEN [New(Phone, IF first = Site THEN Site ELSE Nobody)
                                EXCEPT !.telegram = Phone, !.trial = b, !.owns = b]
             ELSE Absent]
        /\ referral = [u \in Users |-> users[u].referrer]
        /\ agreed = {<<Phone, Bot>>} \cup (({t} \ {Nobody}) \X {Site})
    /\ holder = [u \in Users |-> Nobody]
    /\ links = [u \in Users |-> IF users[u].exists THEN MaxCodes ELSE 0]
    /\ unlinks = [u \in Users |-> IF users[u].telegram # Nobody THEN MaxCodes ELSE 0]
    /\ req = [c \in Requests |-> Idle]
    /\ asked = 0
    /\ opened = {Site, Bot}

-----------------------------------------------------------------------------
(* Rows and their locks.                                                   *)

\* A merge has the account's row locked and is about to delete it.
Merging(c)  == req[c].at \in {"take", "move"}
Leaving(u)  == \E c \in Requests : Merging(c) /\ req[c].other = u
Writable(c, u) == u \in Users => holder[u] \in {Nobody, c}

Asks(op) == op \in Ops /\ asked < MaxAsked /\ asked' = asked + 1
Arrives(c, op) == req[c] = Idle /\ Asks(op)

At(c, point)   == req[c].at = point
Goes(c, point) == req' = [req EXCEPT ![c].at = point]
Ends(c)        == req' = [req EXCEPT ![c] = Idle]
Become(c, r)   == req' = [req EXCEPT ![c] = r]

-----------------------------------------------------------------------------
(* Registration: the name and the referrer are looked up, the row is       *)
(* inserted, and the referral in a transaction of its own.                 *)

\* uuid.New: an identity nobody has had; which one makes no difference.
Unused == {u \in Users \ opened : \A c \in Requests : req[c].user # u}
NewID  == CHOOSE u \in Unused : TRUE

\* The referrer found by the code, unless it has had its ten for today.
Resolved(r) == {r, Nobody} \cap ({u \in Users : users[u].exists} \cup {Nobody})

\* AuthHandler.Register and the first half of AuthService.Register.
Register(c) ==
    \E n \in Names, r \in Users \cup {Nobody} :
        /\ Arrives(c, "register")
        /\ Unused # {} /\ ~Taken(n) /\ r \in Resolved(r)
        /\ Become(c, [Idle EXCEPT !.op = "register", !.at = "insert",
                                  !.user = NewID, !.name = n, !.other = r])
        /\ UNCHANGED <<tables, codes, history>>

\* handleStart of a Telegram without an account; the name "tg<ID>" may be
\* taken, and the second attempt has another.
Start(c, t) ==
    \E r \in Users \cup {Nobody} :
        /\ Arrives(c, "start")
        /\ Of(t) = {}
        /\ Unused # {} /\ r \in Resolved(r)
        /\ Become(c, [Idle EXCEPT !.op = "start", !.at = "insert",
                                  !.telegram = t, !.user = NewID, !.other = r,
                                  !.name = IF Taken(t) THEN Unique ELSE t,
                                  !.again = Taken(t)])
        /\ UNCHANGED <<tables, codes, history>>

Afterwards(c) == IF req[c].op = "start" THEN "bind" ELSE "idle"
Continues(c)  == IF Afterwards(c) = "idle" THEN Ends(c) ELSE Goes(c, Afterwards(c))

\* UserRepo.Create: the name's unique index and the referrer's foreign key
\* decide, whatever the look-ups said.
Create(c) ==
    LET r == req[c] IN
    /\ At(c, "insert")
    /\ ~Taken(r.name)
    /\ r.other # Nobody => Exists(r.other) /\ ~Leaving(r.other)
    /\ users' = [users EXCEPT ![r.user] = New(r.name, r.other)]
    /\ opened' = opened \cup {r.user}
    /\ agreed' = IF r.op = "start" THEN agreed \cup {<<r.telegram, r.user>>} ELSE agreed
    /\ IF r.other # Nobody THEN Goes(c, "refer") ELSE Continues(c)
    /\ UNCHANGED <<referral, holder, codes, asked>>

\* The second attempt of /start has a name of its own, and a referrer that is
\* gone is not found any more.  Formerly (TakesOver) the name's owner was taken.
TakesOver(r) == {[r EXCEPT !.at = "bind", !.user = u] :
                    u \in {v \in Users : users[v].exists /\ users[v].name = r.name}}
Again(r) == {[r EXCEPT !.again = TRUE, !.name = Unique, !.other = s] : s \in Resolved(r.other)}

CreateFails(c) ==
    LET r == req[c] IN
    /\ At(c, "insert")
    /\ \/ Taken(r.name)
       \/ r.other # Nobody /\ ~Exists(r.other)
       \/ "Insert" \in Faults
    /\ IF r.op = "start" /\ ~r.again
       THEN \E second \in Again(r) : Become(c, second)
       ELSE Ends(c)
    /\ UNCHANGED <<tables, codes, asked, history>>

\* CreateReferral; its failure goes unnoticed.
CreateReferral(c) ==
    LET r == req[c] IN
    /\ At(c, "refer")
    /\ \/ /\ Exists(r.other) /\ Exists(r.user)
          /\ ~Leaving(r.other) /\ ~Leaving(r.user)
          /\ referral' = [referral EXCEPT ![r.user] = r.other]
       \/ /\ ~Exists(r.other) \/ ~Exists(r.user) \/ "Referral" \in Faults
          /\ UNCHANGED referral
    /\ Continues(c)
    /\ UNCHANGED <<users, holder, codes, asked, history>>

\* SetTelegramID and the activity row after it, written if it can be.  An
\* UPDATE of no row is no error; the unique index on telegram_id may object.
\* /start ends the same way whatever happens.
Bind(c) ==
    LET r == req[c] IN
    /\ At(c, "bind")
    /\ Writable(c, r.user)
    /\ \/ /\ Of(r.telegram) \subseteq {r.user} /\ Exists(r.user)
          /\ \E o \in {users[r.user].owns, TRUE} :
                users' = [users EXCEPT ![r.user].telegram = r.telegram,
                                       ![r.user].owns = o]
       \/ /\ ~(Of(r.telegram) \subseteq {r.user}) \/ ~Exists(r.user) \/ "Bind" \in Faults
          /\ \/ UNCHANGED users
             \/ /\ r.op = "start" /\ Exists(r.user)
                /\ users' = [users EXCEPT ![r.user].owns = TRUE]
    /\ Ends(c)
    /\ UNCHANGED <<referral, holder, codes, asked, history>>

-----------------------------------------------------------------------------
(* Linking a Telegram, and the merge that may come with it.                *)

\* GenerateLinkCode.
GenerateLinkCode(u) ==
    /\ Asks("link_code")
    /\ Exists(u) /\ links[u] < MaxCodes
    /\ links' = [links EXCEPT ![u] = @ + 1]
    /\ UNCHANGED <<tables, unlinks, req, history>>

\* handleLink: GETDEL of the code.
Link(c, t) ==
    \E u \in Users :
        /\ Arrives(c, "link")
        /\ links[u] > 0
        /\ links' = [links EXCEPT ![u] = @ - 1]
        /\ agreed' = agreed \cup {<<t, u>>}
        /\ Become(c, [Idle EXCEPT !.op = "link", !.at = "find", !.telegram = t, !.user = u])
        /\ UNCHANGED <<tables, unlinks, opened>>

\* GetByTelegramID: nobody, this account already, or another to be merged.
FindLinked(c) ==
    LET r == req[c] IN
    /\ At(c, "find")
    /\ \/ Of(r.telegram) = {} /\ Goes(c, "bind")
       \/ r.user \in Of(r.telegram) /\ Ends(c)
       \/ \E s \in Of(r.telegram) \ {r.user} :
            Become(c, [r EXCEPT !.at = "lock", !.other = s])
    /\ UNCHANGED <<tables, codes, asked, history>>

\* SELECT ... FOR UPDATE; NotLocked is a plain SELECT.
NotLocked(u, c) == holder
Locked(u, c) == [holder EXCEPT ![u] = c]

\* MergeUsers begins with the source's row; gone, it is an error.
LockSource(c) ==
    LET r == req[c]
        s == users[r.other]
    IN  /\ At(c, "lock")
        /\ Writable(c, r.other)
        /\ \/ /\ s.exists
              /\ holder' = Locked(r.other, c)
              /\ Become(c, [r EXCEPT !.at = "take", !.yad = s.yad, !.trial = s.trial])
           \/ ~s.exists /\ Ends(c) /\ UNCHANGED holder
        /\ UNCHANGED <<users, referral, codes, asked, history>>

\* The UPDATE of the destination, which writes nothing if it is gone.
TakeDestination(c) ==
    LET u == req[c].user IN
    /\ At(c, "take")
    /\ Writable(c, u)
    /\ holder' = IF Exists(u) THEN [holder EXCEPT ![u] = c] ELSE holder
    /\ Goes(c, "move")
    /\ UNCHANGED <<users, referral, codes, asked, history>>

\* Rows that the merge writes besides the two: who was referred by the source.
Referred(s) == {u \in Users : users[u].exists /\ users[u].referrer = s}

\* The source's rows cannot go to an account that is not there.
Refused(c) ==
    LET s == req[c].other IN
    /\ ~Exists(req[c].user)
    /\ users[s].owns \/ Referred(s) # {} \/ \E u \in Users : referral[u] = s

\* The transaction ends, whichever way; NotReleased forgets the rollback.
NotReleased(c) == holder
Released(c) == [u \in Users |-> IF holder[u] = c THEN Nobody ELSE holder[u]]

\* Step 2; TakenAway has the wrong sign.
TakenAway(u, yad) == users[u].yad - yad
Transferred(u, yad) == users[u].yad + yad

\* What the destination gains, and the referrer that others get instead.
Gaining(s, d, yad, trial) ==
    [users[d] EXCEPT !.yad = Transferred(d, yad), !.trial = @ \/ trial,
                     !.owns = @ \/ users[s].owns,
                     !.referrer = IF @ = s THEN Nobody ELSE @]
Redirected(row, s, d) ==
    [row EXCEPT !.referrer = IF @ = s /\ @ # Nobody THEN d ELSE @]

\* The users table after MergeUsers.
Merged(s, d, yad, trial) ==
    [u \in Users |->
        IF u = s THEN Absent
        ELSE IF u = d /\ users[d].exists THEN Gaining(s, d, yad, trial)
        ELSE Redirected(users[u], s, d)]

\* Steps 5 to 8: nobody refers themselves, and a merged account was referred
\* by nobody.
MergedReferrals(s, d) ==
    [u \in Users |->
        CASE u = s -> Nobody
          [] u # s /\ referral[u] = s -> IF u = d THEN Nobody ELSE d
          [] OTHER -> referral[u]]

\* The rest of MergeUsers and its commit.
Move(c) ==
    LET r == req[c] IN
    /\ At(c, "move")
    /\ ~Refused(c)
    /\ \A u \in Referred(r.other) : Writable(c, u)
    /\ users' = Merged(r.other, r.user, r.yad, r.trial)
    /\ referral' = MergedReferrals(r.other, r.user)
    /\ holder' = Released(c)
    /\ Goes(c, "bind")
    /\ UNCHANGED <<codes, asked, history>>

\* A statement fails and the transaction is rolled back; the code is spent.
MergeFails(c) ==
    /\ At(c, "move")
    /\ Refused(c) \/ "Merge" \in Faults
    /\ holder' = Released(c)
    /\ Ends(c)
    /\ UNCHANGED <<users, referral, codes, asked, history>>

\* Whose transaction the request's next statement waits for.
Wants(c) ==
    CASE At(c, "lock") -> {req[c].other}
      [] At(c, "take") -> {req[c].user}
      [] At(c, "move") -> Referred(req[c].other)
      [] OTHER         -> {}
WaitsFor(c) == {holder[u] : u \in Wants(c) \cap Users} \ {Nobody, c}

\* PostgreSQL ends one of the transactions that wait for each other.
Deadlock(c) ==
    /\ \E ring \in SUBSET Requests :
        /\ c \in ring
        /\ \A d \in ring : WaitsFor(d) \cap ring # {}
        /\ \A d \in ring : \E e \in ring : d \in WaitsFor(e)
    /\ holder' = Released(c)
    /\ Ends(c)
    /\ UNCHANGED <<users, referral, codes, asked, history>>

-----------------------------------------------------------------------------
(* Unlinking, and the two-factor switch.                                   *)

StoreUnlinkCode(u) ==
    /\ Asks("unlink_code")
    /\ unlinks[u] < MaxCodes
    /\ unlinks' = [unlinks EXCEPT ![u] = @ + 1]
    /\ UNCHANGED <<tables, links, req, history>>

\* The bot's /unlink answers with a code for the Telegram's account, the site
\* sends one for the user's own account to its Telegram.
HandleUnlink(t) == \E u \in Of(t) : StoreUnlinkCode(u)
GenerateUnlinkCode(u) ==
    /\ Exists(u) /\ users[u].telegram # Nobody
    /\ StoreUnlinkCode(u)

\* UpdateTelegram: the account is linked, and the code is its own.
Unlink(c, u) ==
    /\ Arrives(c, "unlink")
    /\ Exists(u) /\ users[u].telegram # Nobody
    /\ unlinks[u] > 0
    /\ unlinks' = [unlinks EXCEPT ![u] = @ - 1]
    /\ Become(c, [Idle EXCEPT !.op = "unlink", !.at = "clear", !.user = u])
    /\ UNCHANGED <<tables, links, history>>

\* SetTelegramID(nil); its failure ends the request.
Clear(c) ==
    LET u == req[c].user IN
    /\ At(c, "clear")
    /\ Writable(c, u)
    /\ \/ /\ users' = [users EXCEPT ![u].telegram = Nobody]
          /\ Goes(c, "disable")
       \/ "Clear" \in Faults /\ Ends(c) /\ UNCHANGED users
    /\ UNCHANGED <<referral, holder, codes, asked, history>>

\* SetTFAEnabled(false); its failure goes unnoticed.
Disable(c) ==
    LET u == req[c].user IN
    /\ At(c, "disable")
    /\ Writable(c, u)
    /\ \/ users' = [users EXCEPT ![u].tfa = FALSE]
       \/ "Disable" \in Faults /\ UNCHANGED users
    /\ Ends(c)
    /\ UNCHANGED <<referral, holder, codes, asked, history>>

\* ToggleTFA: to switch it on, the account must be linked.
ToggleTFA(c, u) ==
    \E on \in BOOLEAN :
        /\ Arrives(c, "tfa")
        /\ Exists(u)
        /\ on => users[u].telegram # Nobody
        /\ Become(c, [Idle EXCEPT !.op = "tfa", !.at = "switch", !.user = u, !.on = on])
        /\ UNCHANGED <<tables, codes, history>>

\* handleToggle2FA: to the opposite of what was read.
BotToggle(c, t) ==
    \E u \in Of(t) :
        /\ Arrives(c, "bot_tfa")
        /\ Become(c, [Idle EXCEPT !.op = "bot_tfa", !.at = "switch", !.user = u,
                                  !.on = ~users[u].tfa])
        /\ UNCHANGED <<tables, codes, history>>

\* SetTFAEnabled.
Switch(c) ==
    LET u == req[c].user IN
    /\ At(c, "switch")
    /\ Writable(c, u)
    /\ users' = IF Exists(u) THEN [users EXCEPT ![u].tfa = req[c].on] ELSE users
    /\ Ends(c)
    /\ UNCHANGED <<referral, holder, codes, asked, history>>

-----------------------------------------------------------------------------
(* What other components do to the row meanwhile.                          *)

\* AdjustYADBalance and the transaction row it leaves.
AdjustYADBalance(u) ==
    /\ Asks("credit")
    /\ Exists(u) /\ holder[u] = Nobody
    /\ users' = [users EXCEPT ![u].yad = @ + 1, ![u].owns = TRUE]
    /\ UNCHANGED <<referral, holder, codes, req, history>>

\* SetTrialUsed, once per account.
SetTrialUsed(u) ==
    /\ Asks("trial")
    /\ Exists(u) /\ ~users[u].trial /\ holder[u] = Nobody
    /\ users' = [users EXCEPT ![u].trial = TRUE, ![u].owns = TRUE]
    /\ UNCHANGED <<referral, holder, codes, req, history>>

-----------------------------------------------------------------------------
Serve(c) ==
    \/ Create(c) \/ CreateFails(c) \/ CreateReferral(c) \/ Bind(c)
    \/ FindLinked(c) \/ LockSource(c) \/ TakeDestination(c)
    \/ Move(c) \/ MergeFails(c) \/ Deadlock(c)
    \/ Clear(c) \/ Disable(c) \/ Switch(c)

Next ==
    \/ \E c \in Requests :
        \/ Register(c)
        \/ \E t \in Telegrams : Start(c, t) \/ Link(c, t) \/ BotToggle(c, t)
        \/ \E u \in Users : Unlink(c, u) \/ ToggleTFA(c, u)
        \/ Serve(c)
    \/ \E t \in Telegrams : HandleUnlink(t)
    \/ \E u \in Users :
        \/ GenerateLinkCode(u) \/ GenerateUnlinkCode(u)
        \/ AdjustYADBalance(u) \/ SetTrialUsed(u)

Spec == Init /\ [][Next]_vars

\* A handler goes on until it has answered.
FairSpec == Spec /\ \A c \in Requests : WF_vars(Serve(c))
=============================================================================
