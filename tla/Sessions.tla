------------------------------ MODULE Sessions ------------------------------
(***************************************************************************)
(* Signing in and staying signed in: password and Telegram confirmation,   *)
(* the pair of access and refresh token, its rotation, and the three ways  *)
(* a session is taken away (a new password, a refresh token used twice, a  *)
(* ban).  Every key involved is per user, so one user stands for all; the  *)
(* requests of that user's browsers, the bot and the administrator run at  *)
(* the same time, one action per call to PostgreSQL or Redis.              *)
(*                                                                         *)
(* A pair of tokens is known by its number, which stands for the refresh   *)
(* token's JTI; both have the same iat.  Time is counted in the seconds of *)
(* iat and of the pw:ver key, only far fewer of them make up a token's     *)
(* life.  Refusals that change nothing are not actions.                    *)
(***************************************************************************)
EXTENDS Integers, Sequences, FiniteSets

CONSTANTS
    Browsers,       \* cookie jars of the user
    Requests,       \* requests that may be under way at once
    Challenges,     \* two-factor challenges that may be created
    Ops,            \* what is asked for, a subset of OpKinds
    Admin,          \* the user is an administrator
    AccessTTL,      \* life of an access token
    RefreshTTL,     \* life of a refresh token, 30 days
    MaxTime,        \* bound: the clock's last value
    MaxPairs,       \* bound: pairs of tokens minted
    MaxChanges,     \* bound: no password change begins after so many
    MaxRequests,    \* bound: requests made in all
    Faults          \* calls that may fail with the handler going on

OpKinds == {"login", "refresh", "poll", "logout", "password", "reset",
            "approve", "deny", "tfa", "ban", "unban"}
FaultKinds == {"Register", "Version", "Revoke", "BanKey"}

ASSUME SessionAssumption ==
    /\ {AccessTTL, RefreshTTL} \subseteq Nat \ {0}
    /\ AccessTTL <= RefreshTTL
    /\ {MaxPairs, MaxChanges, MaxRequests} \subseteq Nat
    /\ MaxTime \in Nat \ {0}
    /\ Ops \subseteq OpKinds
    /\ Admin \in BOOLEAN
    /\ Faults \subseteq FaultKinds

VARIABLES
    now,        \* the clock
    user,       \* users row: password (how often it was set), tfa, banned
    allowed,    \* the rt:<jti> keys
    family,     \* the set rt:user:<id>
    version,    \* pw:ver:<id>: the time it holds and when it was written, 0 if never
    banKey,     \* ban:<id>: when it was written, 0 if absent
    challenge,  \* the tfa:<id> keys
    jar,        \* the pair each browser holds, 0 for none
    req,        \* what each request is doing
    asked,      \* bound: requests made so far
    pairs,      \* history: every pair minted
    epoch,      \* history: how often pw:ver was written
    halfway     \* history: a password was set without pw:ver being written since

redis     == <<allowed, family, version, banKey, challenge>>
history   == <<pairs, epoch, halfway>>
vars      == <<now, user, redis, jar, req, asked, history>>

\* password, epoch: of the sign-in, and when it was checked.
NoChallenge == [status |-> "none", password |-> 0, epoch |-> 0]

\* pair: the one presented, then the one minted.  clock: what it read for
\* pw:ver.  loose: see Slipped.
Idle == [op |-> "none", pc |-> "idle", browser |-> "none", pair |-> 0, clock |-> 0,
         password |-> 0, epoch |-> 0, loose |-> FALSE, seen |-> {}, challenge |-> "none"]

Steps == {"idle", "challenge", "consume", "ban", "mint", "register", "reply",
          "set", "version", "land", "members", "drop", "clear", "resolve", "banKey"}

Pair == [iat : Nat, chain : 1..MaxPairs, password : Nat, epoch : Nat, loose : BOOLEAN]

Minted == 1..Len(pairs)
Challenge == [status : {"none", "pending", "approved", "denied", "gone"},
              password : 0..user.password, epoch : 0..epoch]
Request == [op : OpKinds \cup {"none"}, pc : Steps, browser : Browsers \cup {"none"},
            pair : {0} \cup Minted, clock : 0..now, password : 0..user.password, epoch : 0..epoch,
            loose : BOOLEAN, seen : SUBSET Minted, challenge : Challenges \cup {"none"}]
Version == {v \in [time : 0..now, written : 0..now] : v.time <= v.written}

TypeOK ==
    /\ now \in 1..MaxTime
    /\ user \in [password : Nat, tfa : BOOLEAN, banned : BOOLEAN]
    /\ pairs \in Seq(Pair) /\ Len(pairs) <= MaxPairs
    /\ allowed \subseteq Minted
    /\ family \subseteq Minted
    /\ version \in Version
    /\ banKey \in 0..now
    /\ challenge \in [Challenges -> Challenge]
    /\ jar \in [Browsers -> {0} \cup Minted]
    /\ req \in [Requests -> Request]
    /\ asked \in 0..MaxRequests
    /\ epoch \in Nat
    /\ halfway \in BOOLEAN

Init ==
    /\ now = 1
    /\ user \in [password : {0}, tfa : BOOLEAN, banned : {FALSE}]
    /\ allowed = {} /\ family = {} /\ banKey = 0
    /\ version = [time |-> 0, written |-> 0]
    /\ challenge = [k \in Challenges |-> NoChallenge]
    /\ jar = [b \in Browsers |-> 0]
    /\ req = [c \in Requests |-> Idle]
    /\ asked = 0
    /\ pairs = <<>>
    /\ epoch = 0
    /\ halfway = FALSE

-----------------------------------------------------------------------------
(* What the keys and tokens say.                                           *)

\* The pw:ver key lives as long as any token it is to outlive.
\* AsLongAsAccess takes the other token's life.
AsLongAsAccess == AccessTTL
VersionTTL == RefreshTTL

\* CheckPasswordVersion.
Stale(p) == now < version.written + VersionTTL /\ pairs[p].iat < version.time

BanTTL == RefreshTTL
Barred == banKey > 0 /\ now < banKey + BanTTL

\* ParseRefresh and the check in Refresh; Auth.
Refreshable(p)   == now < pairs[p].iat + RefreshTTL /\ ~Stale(p)
Authenticated(p) == now < pairs[p].iat + AccessTTL /\ ~Stale(p)

\* The group /api asks Auth and BannedCheck, /api/admin Auth and AdminDBCheck.
Served(p)      == Authenticated(p) /\ ~Barred
AdminServed(p) == Authenticated(p) /\ Admin

\* The refresh cookie's path is /api/auth/refresh: no other handler gets it.
RefreshCookie(op, b) == IF op = "refresh" THEN {jar[b]} \ {0} ELSE {}

-----------------------------------------------------------------------------
(* Requests.                                                               *)

Arrives(c, op) ==
    /\ op \in Ops
    /\ req[c] = Idle
    /\ asked < MaxRequests
    /\ asked' = asked + 1

At(c, pc)   == req[c].pc = pc
Is(c, ops)  == req[c].op \in ops
GoTo(c, pc) == req' = [req EXCEPT ![c].pc = pc]
Ends(c)     == req' = [req EXCEPT ![c] = Idle]

\* History: the pair is from before the last write of pw:ver, but not from
\* before the clock was read for it: that second is too coarse, or the SET too
\* slow, to tell the pair from a new one.
Slipped(p) == pairs[p].epoch # epoch /\ pairs[p].iat >= version.time

\* Once a password is to be changed, or a refresh token turns out to be used,
\* the handler goes through these steps, in this order.  VersionFirst writes
\* the key before the password.
VersionFirst(op) ==
    IF op = "refresh"
    THEN [start |-> "members", drop |-> "version", version |-> "clear"]
    ELSE [start |-> "version", version |-> "set", set |-> "members", drop |-> "idle"]
After(op) ==
    IF op = "refresh"
    THEN [start |-> "members", drop |-> "version", version |-> "clear"]
    ELSE [start |-> "set", set |-> "version", version |-> "members", drop |-> "idle"]

Proceeds(c, step) ==
    LET next == After(req[c].op)[step]
    IN  req' = [req EXCEPT ![c] = IF next = "idle" THEN Idle
                                  ELSE [@ EXCEPT !.pc = next, !.seen = {}, !.clock = 0]]

\* Login: rate limit, row, password and ban, in one look at the row.
Login(c, b) ==
    /\ Arrives(c, "login")
    /\ ~user.banned
    /\ req' = [req EXCEPT ![c] = [Idle EXCEPT
                !.op = "login", !.pc = IF user.tfa THEN "challenge" ELSE "mint",
                !.browser = b, !.password = user.password, !.epoch = epoch]]
    /\ UNCHANGED <<now, user, redis, jar, history>>

\* Create2FAChallenge; the browser gets its id and starts polling.
Create2FAChallenge(c, k) ==
    /\ At(c, "challenge")
    /\ challenge[k] = NoChallenge
    /\ challenge' = [challenge EXCEPT ![k] =
            [status |-> "pending", password |-> req[c].password, epoch |-> req[c].epoch]]
    /\ Ends(c)
    /\ UNCHANGED <<now, user, allowed, family, version, banKey, jar, asked, history>>

\* TFACheck: an approved challenge gives a session to every poll that finds it.
TFACheck(c, b, k) ==
    /\ Arrives(c, "poll")
    /\ challenge[k].status = "approved"
    /\ req' = [req EXCEPT ![c] = [Idle EXCEPT
                !.op = "poll", !.pc = "mint", !.browser = b,
                !.password = challenge[k].password, !.epoch = challenge[k].epoch]]
    /\ UNCHANGED <<now, user, redis, jar, history>>

\* Refresh, up to CheckPasswordVersion.
Refresh(c, b) ==
    /\ Arrives(c, "refresh")
    /\ \E p \in RefreshCookie("refresh", b) :
        /\ Refreshable(p)
        /\ req' = [req EXCEPT ![c] = [Idle EXCEPT
                    !.op = "refresh", !.pc = "consume", !.browser = b, !.pair = p,
                    !.password = pairs[p].password, !.epoch = epoch,
                    !.loose = pairs[p].loose \/ Slipped(p)]]
    /\ UNCHANGED <<now, user, redis, jar, history>>

\* ValidateAndRevokeRefreshToken: GETDEL.  A pair that is not there is taken
\* for a replay.  Kept reads without deleting.
Kept(p) == allowed
Consumed(p) == allowed \ {p}

Consume(c) ==
    LET p == req[c].pair
    IN  /\ At(c, "consume")
        /\ \/ /\ p \in allowed
              /\ allowed' = Consumed(p)
              /\ family' = family \ {p}
              /\ GoTo(c, "ban")
           \/ /\ p \notin allowed
              /\ Proceeds(c, "start")
              /\ UNCHANGED <<allowed, family>>
        /\ UNCHANGED <<now, user, version, banKey, challenge, jar, asked, history>>

\* The token is used up by now, whatever the answer.
CheckBan(c) ==
    /\ At(c, "ban")
    /\ \/ (~Barred \/ "BanKey" \in Faults) /\ GoTo(c, "mint")
       \/ Barred /\ Ends(c)
    /\ UNCHANGED <<now, user, redis, jar, asked, history>>

\* Generate and GenerateRefresh.
Mint(c) ==
    LET new == Len(pairs) + 1
    IN  /\ At(c, "mint")
        /\ new <= MaxPairs
        /\ pairs' = Append(pairs,
                [iat |-> now, password |-> req[c].password, epoch |-> epoch,
                 chain |-> IF Is(c, {"refresh"}) THEN pairs[req[c].pair].chain ELSE new,
                 loose |-> req[c].loose \/ req[c].epoch # epoch])
        /\ req' = [req EXCEPT ![c] = [Idle EXCEPT
                    !.op = req[c].op, !.pc = "register", !.browser = req[c].browser,
                    !.pair = new]]
        /\ UNCHANGED <<now, user, redis, jar, asked, epoch, halfway>>

\* The pipeline of SET and SADD; its failure is only logged.
RegisterRefreshToken(c) ==
    /\ At(c, "register")
    /\ \/ /\ allowed' = allowed \cup {req[c].pair}
          /\ family' = family \cup {req[c].pair}
       \/ "Register" \in Faults /\ UNCHANGED <<allowed, family>>
    /\ GoTo(c, "reply")
    /\ UNCHANGED <<now, user, version, banKey, challenge, jar, asked, history>>

\* setAuthCookies, as the browser gets it: answers may overtake each other.
SetAuthCookies(c) ==
    /\ At(c, "reply")
    /\ jar' = [jar EXCEPT ![req[c].browser] = req[c].pair]
    /\ Ends(c)
    /\ UNCHANGED <<now, user, redis, asked, history>>

-----------------------------------------------------------------------------
(* The end of sessions.                                                    *)

\* Logout: nothing to revoke unless the cookie came along; clears the jar.
Logout(c, b) ==
    /\ Arrives(c, "logout")
    /\ allowed' = allowed \ RefreshCookie("logout", b)
    /\ req' = [req EXCEPT ![c] = [Idle EXCEPT !.op = "logout", !.pc = "clear", !.browser = b]]
    /\ UNCHANGED <<now, user, family, version, banKey, challenge, jar, history>>

ClearAuthCookies(c) ==
    /\ At(c, "clear")
    /\ jar' = [jar EXCEPT ![req[c].browser] = 0]
    /\ Ends(c)
    /\ UNCHANGED <<now, user, redis, asked, history>>

\* ChangePassword, with the old password; handleResetPassword, by the bot.
ChangePassword(c, b) ==
    /\ Arrives(c, "password")
    /\ user.password < MaxChanges
    /\ jar[b] # 0 /\ Served(jar[b])
    /\ req' = [req EXCEPT ![c] = [Idle EXCEPT
                !.op = "password", !.pc = After("password").start]]
    /\ UNCHANGED <<now, user, redis, jar, history>>

ResetPassword(c) ==
    /\ Arrives(c, "reset")
    /\ user.password < MaxChanges
    /\ ~user.banned /\ ~user.tfa
    /\ req' = [req EXCEPT ![c] = [Idle EXCEPT
                !.op = "reset", !.pc = After("reset").start]]
    /\ UNCHANGED <<now, user, redis, jar, history>>

SetPassword(c) ==
    /\ At(c, "set")
    /\ user' = [user EXCEPT !.password = @ + 1]
    /\ Proceeds(c, "set")
    /\ UNCHANGED <<now, redis, jar, asked, history>>

\* History: a change of password that stops here is only half done.
Writing(c) == (At(c, "version") \/ At(c, "land")) /\ Is(c, {"password", "reset"})
Unwritten(c) == halfway' = (halfway \/ Writing(c))

\* time.Now().Unix(); RoundedUp would be on the safe side of the second.
RoundedUp == now + 1
ChangedAt == now

\* The clock is read for the call of SetPasswordVersion ...
ReadClock(c) ==
    /\ At(c, "version")
    /\ req' = [req EXCEPT ![c].pc = "land", ![c].clock = ChangedAt]
    /\ UNCHANGED <<now, user, redis, jar, asked, history>>

\* ... whose SET arrives later, with the whole TTL.  Failures from here on are
\* logged, and the handler goes on.
SetPasswordVersion(c) ==
    /\ At(c, "land")
    /\ \/ /\ version' = [time |-> req[c].clock, written |-> now]
          /\ epoch' = epoch + 1
          /\ halfway' = FALSE
       \/ "Version" \in Faults /\ Unwritten(c) /\ UNCHANGED <<version, epoch>>
    /\ Proceeds(c, "version")
    /\ UNCHANGED <<now, user, allowed, family, banKey, challenge, jar, asked, pairs>>

\* RevokeAllUserRefreshTokens: SMEMBERS, then a pipeline of DEL.
Members(c) ==
    /\ At(c, "members")
    /\ \/ req' = [req EXCEPT ![c].seen = family, ![c].pc = "drop"]
       \/ "Revoke" \in Faults /\ Proceeds(c, "drop")
    /\ UNCHANGED <<now, user, redis, jar, asked, history>>

Drop(c) ==
    /\ At(c, "drop")
    /\ allowed' = allowed \ req[c].seen
    /\ family' = {}
    /\ Proceeds(c, "drop")
    /\ UNCHANGED <<now, user, version, banKey, challenge, jar, asked, history>>

-----------------------------------------------------------------------------
(* The bot's buttons, the profile's switch and the administrator.          *)

\* handleTFACallback looks at the status, then writes without looking.
Callback(c, verdict, k) ==
    /\ verdict \in {"approve", "deny"}
    /\ Arrives(c, verdict)
    /\ challenge[k].status = "pending"
    /\ req' = [req EXCEPT ![c] = [Idle EXCEPT
                !.op = verdict, !.pc = "resolve", !.challenge = k]]
    /\ UNCHANGED <<now, user, redis, jar, history>>

Resolve2FAChallenge(c) ==
    LET k == req[c].challenge
    IN  /\ At(c, "resolve")
        /\ challenge' = IF challenge[k].status \in {"none", "gone"} THEN challenge
                        ELSE [challenge EXCEPT ![k].status =
                                IF Is(c, {"approve"}) THEN "approved" ELSE "denied"]
        /\ Ends(c)
        /\ UNCHANGED <<now, user, allowed, family, version, banKey, jar, asked, history>>

\* Five minutes unanswered, or two after the answer.
ChallengeExpires(k) ==
    /\ challenge[k].status \in {"pending", "approved", "denied"}
    /\ challenge' = [challenge EXCEPT ![k].status = "gone"]
    /\ UNCHANGED <<now, user, allowed, family, version, banKey, jar, req, asked, history>>

ToggleTFA(b) ==
    /\ "tfa" \in Ops
    /\ jar[b] # 0 /\ Served(jar[b])
    /\ asked < MaxRequests /\ asked' = asked + 1
    /\ user' = [user EXCEPT !.tfa = ~@]
    /\ UNCHANGED <<now, redis, jar, req, history>>

\* The row, then the key, whose failure is only logged.
UpdateBanStatus(c, op) ==
    /\ op \in {"ban", "unban"}
    /\ Arrives(c, op)
    /\ user' = [user EXCEPT !.banned = (op = "ban")]
    /\ req' = [req EXCEPT ![c] = [Idle EXCEPT !.op = op, !.pc = "banKey"]]
    /\ UNCHANGED <<now, redis, jar, history>>

BanUser(c)   == UpdateBanStatus(c, "ban")
UnbanUser(c) == UpdateBanStatus(c, "unban")

SetBanKey(c) ==
    /\ At(c, "banKey")
    /\ \/ banKey' = IF Is(c, {"ban"}) THEN now ELSE 0
       \/ "BanKey" \in Faults /\ UNCHANGED banKey
    /\ Ends(c)
    /\ UNCHANGED <<now, user, allowed, family, version, challenge, jar, asked, history>>

-----------------------------------------------------------------------------
\* The browser goes away, which cancels the request's context, the answer is
\* lost, or the process dies: what is left of the handler does not happen.
Abandon(c) ==
    /\ req[c] # Idle
    /\ Ends(c)
    /\ Unwritten(c)
    /\ UNCHANGED <<now, user, redis, jar, asked, pairs, epoch>>

Tick ==
    /\ now < MaxTime
    /\ now' = now + 1
    /\ UNCHANGED <<user, redis, jar, req, asked, history>>

Continue(c) ==
    \/ \E k \in Challenges : Create2FAChallenge(c, k)
    \/ Consume(c) \/ CheckBan(c)
    \/ Mint(c) \/ RegisterRefreshToken(c) \/ SetAuthCookies(c)
    \/ SetPassword(c) \/ ReadClock(c) \/ SetPasswordVersion(c) \/ Members(c) \/ Drop(c)
    \/ ClearAuthCookies(c)
    \/ Resolve2FAChallenge(c)
    \/ SetBanKey(c)

Arrive(c) ==
    \/ \E b \in Browsers :
        \/ Login(c, b) \/ Refresh(c, b) \/ Logout(c, b) \/ ChangePassword(c, b)
        \/ \E k \in Challenges : TFACheck(c, b, k)
    \/ ResetPassword(c)
    \/ \E k \in Challenges, verdict \in {"approve", "deny"} : Callback(c, verdict, k)
    \/ BanUser(c) \/ UnbanUser(c)

Next ==
    \/ \E c \in Requests : Arrive(c) \/ Continue(c) \/ Abandon(c)
    \/ \E b \in Browsers : ToggleTFA(b)
    \/ \E k \in Challenges : ChallengeExpires(k)
    \/ Tick

Spec == Init /\ [][Next]_vars
=============================================================================
