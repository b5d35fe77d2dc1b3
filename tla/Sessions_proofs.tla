--------------------------- MODULE Sessions_proofs ---------------------------
(***************************************************************************)
(* Sessions, for any number of browsers, requests, challenges and faults:  *)
(* every state is well typed, a password change puts an end to the         *)
(* sessions of older passwords, a refresh token is good for one answer, a  *)
(* ban outlives what it is to keep out, and a session that ended never     *)
(* returns.                                                                *)
(***************************************************************************)
EXTENDS SessionProperties, SequenceTheorems, FiniteSetTheorems, TLAPS

-----------------------------------------------------------------------------
(* Type correctness.                                                       *)

\* What a request has in hand at its step.
Fits(r) ==
    /\ r.pc = "set" => r.op \in {"password", "reset"}
    /\ r.pc = "consume" => r.op = "refresh"
    /\ r.pc = "challenge" => ~r.loose
    /\ r.pc \in {"consume", "ban", "register", "reply"} => r.pair # 0
    /\ r.pc = "mint" /\ r.op = "refresh" => r.pair # 0

\* No pair is from the future.
Past(p) == p.iat <= now /\ p.password <= user.password /\ p.epoch <= epoch

Typed ==
    /\ TypeOK
    /\ \A c \in Requests : Fits(req[c])
    /\ \A p \in Minted : Past(pairs[p])

LEMMA ConstantTypes ==
    /\ AccessTTL \in Nat \ {0} /\ RefreshTTL \in Nat \ {0} /\ AccessTTL <= RefreshTTL
    /\ MaxTime \in Nat \ {0} /\ MaxPairs \in Nat /\ MaxRequests \in Nat
    /\ Ops \subseteq OpKinds
BY SessionAssumption

\* Nothing that is counted ever shrinks, so what was of its type stays so.
LEMMA Growth ==
    ASSUME TypeOK,
           Len(pairs') \in Nat, Len(pairs) <= Len(pairs'),
           user'.password \in Nat, user.password <= user'.password,
           epoch' \in Nat, epoch <= epoch', now' \in Nat, now <= now'
    PROVE  /\ Minted \subseteq Minted'
           /\ Request \subseteq Request'
           /\ Challenge \subseteq Challenge'
<1>1. Len(pairs) \in Nat /\ user.password \in Nat /\ epoch \in Nat /\ now \in Nat
  BY ConstantTypes DEF TypeOK
<1>2. Minted \subseteq Minted'
  BY <1>1 DEF Minted
<1>3. /\ 0..user.password \subseteq (0..user.password)' /\ 0..epoch \subseteq (0..epoch)'
      /\ 0..now \subseteq (0..now)'
  BY <1>1
<1>4. Challenge \subseteq Challenge'
  BY <1>3 DEF Challenge
<1>5. Request \subseteq Request'
  BY <1>2, <1>3 DEF Request
<1> QED
  BY <1>2, <1>4, <1>5

LEMMA Still ==
    ASSUME TypeOK, UNCHANGED <<pairs, epoch>>, user'.password = user.password,
           now' \in 1..MaxTime, now <= now'
    PROVE  Minted' = Minted /\ Request \subseteq Request' /\ Challenge' = Challenge
<1>1. Minted' = Minted /\ Challenge' = Challenge
  BY DEF Minted, Challenge
<1>2. 0..now \subseteq (0..now)'
  BY ConstantTypes DEF TypeOK
<1>3. Request \subseteq Request'
  BY <1>1, <1>2 DEF Request
<1> QED
  BY <1>1, <1>3

\* One request moves on.
LEMMA Advance ==
    ASSUME Typed, NEW c \in Requests, NEW r \in Request, Fits(r),
           req' = [req EXCEPT ![c] = r]
    PROVE  req' \in [Requests -> Request] /\ \A d \in Requests : Fits(req'[d])
BY DEF Typed, TypeOK

LEMMA IdleType ==
    ASSUME TypeOK
    PROVE  Idle \in Request /\ Fits(Idle)
<1>1. 0 \in 0..now
  BY ConstantTypes DEF TypeOK
<1> QED
  BY <1>1 DEF TypeOK, Idle, Request, Steps, Fits

LEMMA EndsType ==
    ASSUME Typed, NEW c \in Requests, Ends(c)
    PROVE  req' \in [Requests -> Request] /\ \A d \in Requests : Fits(req'[d])
BY IdleType, Advance DEF Ends, Typed

LEMMA GoToType ==
    ASSUME Typed, NEW c \in Requests, NEW pc \in Steps, GoTo(c, pc),
           Fits([req[c] EXCEPT !.pc = pc])
    PROVE  req' \in [Requests -> Request] /\ \A d \in Requests : Fits(req'[d])
<1>1. req[c] \in Request
  BY DEF Typed, TypeOK
<1>2. [req[c] EXCEPT !.pc = pc] \in Request
  BY <1>1 DEF Request
<1>3. req' = [req EXCEPT ![c] = [req[c] EXCEPT !.pc = pc]]
  BY DEF GoTo
<1> QED
  BY <1>2, <1>3, Advance

\* The steps that follow one another when sessions are ended.
LEMMA AfterStep ==
    ASSUME NEW op \in OpKinds \cup {"none"}, NEW step \in {"start", "set", "version", "drop"},
           step = "start" => op = "refresh", step = "set" => op # "refresh"
    PROVE  After(op)[step] \in {"members", "version", "clear", "idle"}
BY DEF After

LEMMA ProceedsTo ==
    ASSUME Typed, NEW c \in Requests, NEW step \in {"start", "set", "version", "drop"},
           Proceeds(c, step),
           step = "start" => req[c].op = "refresh", step = "set" => req[c].op # "refresh"
    PROVE  \E r \in Request :
            /\ Fits(r)
            /\ r.pc \in {"members", "version", "clear", "idle"}
            /\ req' = [req EXCEPT ![c] = r]
<1> DEFINE next == After(req[c].op)[step]
<1>1. req[c] \in Request /\ req[c].op \in OpKinds \cup {"none"} /\ 0 \in 0..now
  BY ConstantTypes DEF Typed, TypeOK, Request
<1>2. next \in {"members", "version", "clear", "idle"}
  BY <1>1, AfterStep
<1>3. CASE next = "idle"
  <2>1. req' = [req EXCEPT ![c] = Idle] /\ Idle.pc = "idle"
    BY <1>3 DEF Proceeds, Idle
  <2> QED
    BY <2>1, IdleType DEF Typed
<1>4. CASE next # "idle"
  <2> DEFINE r == [req[c] EXCEPT !.pc = next, !.seen = {}, !.clock = 0]
  <2>1. r \in Request /\ r.pc = next
    BY <1>1, <1>2 DEF Request, Steps
  <2>2. Fits(r)
    BY <1>1, <1>2 DEF Fits, Request
  <2>3. req' = [req EXCEPT ![c] = r]
    BY <1>4 DEF Proceeds
  <2> QED
    BY <1>2, <2>1, <2>2, <2>3
<1> QED
  BY <1>3, <1>4

LEMMA ProceedsType ==
    ASSUME Typed, NEW c \in Requests, NEW step \in {"start", "set", "version", "drop"},
           Proceeds(c, step),
           step = "start" => req[c].op = "refresh", step = "set" => req[c].op # "refresh"
    PROVE  req' \in [Requests -> Request] /\ \A d \in Requests : Fits(req'[d])
BY ProceedsTo, Advance

LEMMA ArrivesType ==
    ASSUME Typed, NEW c \in Requests, NEW op, Arrives(c, op)
    PROVE  op \in OpKinds /\ asked' \in 0..MaxRequests
BY SessionAssumption DEF Arrives, Typed, TypeOK

\* A new request: what is not named is as in Idle.
LEMMA BeginType ==
    ASSUME Typed, NEW c \in Requests, NEW r \in Request, Fits(r),
           req' = [req EXCEPT ![c] = r], asked' \in 0..MaxRequests,
           UNCHANGED <<now, user, redis, jar, history>>
    PROVE  Typed'
<1>1. Minted' = Minted /\ Request \subseteq Request' /\ Challenge' = Challenge /\ Version' = Version
  BY Still, ConstantTypes DEF Typed, TypeOK, history, Version
<1>2. req' \in [Requests -> Request] /\ \A d \in Requests : Fits(req'[d])
  BY Advance
<1> QED
  BY <1>1, <1>2 DEF Typed, TypeOK, redis, history, Fits, Past

LEMMA LoginType ==
    ASSUME Typed, NEW c \in Requests, NEW b \in Browsers, Login(c, b)
    PROVE  Typed'
<1>0. PICK pc \in {"challenge", "mint"} : pc = IF user.tfa THEN "challenge" ELSE "mint"
  BY Zenon
<1> DEFINE r == [Idle EXCEPT
                !.op = "login", !.pc = pc,
                !.browser = b, !.password = user.password, !.epoch = epoch]
<1>1. r \in Request /\ Fits(r)
  <2>1. user.password \in 0..user.password /\ epoch \in 0..epoch
    BY DEF Typed, TypeOK
  <2>2. pc \in Steps /\ "login" \in OpKinds \cup {"none"} /\ Idle \in Request
    BY IdleType DEF Steps, OpKinds, Typed
  <2>3. r \in Request
    BY <2>1, <2>2 DEF Request
  <2>4. r.pc = pc /\ r.op = "login" /\ ~r.loose
    BY DEF Idle
  <2> QED
    BY <2>3, <2>4 DEF Fits
<1>2. asked' \in 0..MaxRequests
  BY ArrivesType DEF Login
<1>3. req' = [req EXCEPT ![c] = r]
  BY <1>0, Zenon DEF Login
<1> QED
  BY <1>1, <1>2, <1>3, BeginType DEF Login

LEMMA TFACheckType ==
    ASSUME Typed, NEW c \in Requests, NEW b \in Browsers, NEW k \in Challenges,
           TFACheck(c, b, k)
    PROVE  Typed'
<1> DEFINE r == [Idle EXCEPT
                !.op = "poll", !.pc = "mint", !.browser = b,
                !.password = challenge[k].password, !.epoch = challenge[k].epoch]
<1>1. challenge[k].password \in 0..user.password /\ challenge[k].epoch \in 0..epoch
  BY DEF Typed, TypeOK, Challenge
<1>2. r \in Request /\ Fits(r)
  <2>1. "mint" \in Steps /\ "poll" \in OpKinds \cup {"none"} /\ Idle \in Request
    BY IdleType DEF Steps, OpKinds, Typed
  <2>2. r \in Request
    BY <1>1, <2>1 DEF Request
  <2>3. r.pc = "mint" /\ r.op = "poll"
    BY DEF Idle
  <2> QED
    BY <2>2, <2>3 DEF Fits
<1>3. asked' \in 0..MaxRequests
  BY ArrivesType DEF TFACheck
<1> QED
  BY <1>2, <1>3, BeginType DEF TFACheck

LEMMA PairType ==
    ASSUME TypeOK, NEW p \in Minted
    PROVE  pairs[p] \in Pair /\ p \in Nat \ {0} /\ p <= MaxPairs
BY ConstantTypes DEF TypeOK, Minted

LEMMA RefreshType ==
    ASSUME Typed, NEW c \in Requests, NEW b \in Browsers, Refresh(c, b)
    PROVE  Typed'
<1>1. PICK p \in RefreshCookie("refresh", b) :
        req' = [req EXCEPT ![c] = [Idle EXCEPT
                    !.op = "refresh", !.pc = "consume", !.browser = b, !.pair = p,
                    !.password = pairs[p].password, !.epoch = epoch,
                    !.loose = pairs[p].loose \/ Slipped(p)]]
  BY Zenon DEF Refresh
<1>2. p \in Minted /\ p # 0
  BY DEF RefreshCookie, Typed, TypeOK
<1>3. pairs[p] \in Pair /\ pairs[p].password \in 0..user.password
  BY <1>2, PairType DEF Typed, TypeOK, Pair, Past
<1>4. PICK l \in BOOLEAN : l = (pairs[p].loose \/ Slipped(p))
  BY Zenon
<1> DEFINE r == [Idle EXCEPT
                    !.op = "refresh", !.pc = "consume", !.browser = b, !.pair = p,
                    !.password = pairs[p].password, !.epoch = epoch, !.loose = l]
<1>5. r \in Request /\ Fits(r)
  <2>1. epoch \in 0..epoch
    BY DEF Typed, TypeOK
  <2>2. p \in {0} \cup Minted /\ pairs[p].password \in 0..user.password /\ b \in Browsers \cup {"none"}
    BY <1>2, <1>3
  <2>3. Idle \in Request
    BY IdleType DEF Typed
  <2>0. "consume" \in Steps /\ "refresh" \in OpKinds \cup {"none"} /\ l \in BOOLEAN
    BY <1>4 DEF Steps, OpKinds
  <2>4. r \in Request
    BY <2>0, <2>1, <2>2, <2>3 DEF Request
  <2>5. r.pc = "consume" /\ r.op = "refresh" /\ r.pair = p
    BY DEF Idle
  <2> QED
    BY <1>2, <2>4, <2>5 DEF Fits
<1>6. asked' \in 0..MaxRequests
  BY ArrivesType DEF Refresh
<1>7. req' = [req EXCEPT ![c] = r]
  BY <1>1, <1>4, Zenon
<1> QED
  BY <1>5, <1>6, <1>7, BeginType DEF Refresh

LEMMA OtherArrivals ==
    ASSUME Typed, NEW c \in Requests,
           (\E b \in Browsers : ChangePassword(c, b)) \/ ResetPassword(c)
    PROVE  Typed'
<1>1. PICK op \in {"password", "reset"} :
        /\ asked' \in 0..MaxRequests
        /\ req' = [req EXCEPT ![c] = [Idle EXCEPT !.op = op, !.pc = "set"]]
        /\ UNCHANGED <<now, user, redis, jar, history>>
  <2>1. ASSUME NEW b \in Browsers, ChangePassword(c, b)
        PROVE  \E op \in {"password", "reset"} :
                /\ asked' \in 0..MaxRequests
                /\ req' = [req EXCEPT ![c] = [Idle EXCEPT !.op = op, !.pc = "set"]]
                /\ UNCHANGED <<now, user, redis, jar, history>>
    <3>1. After("password").start = "set"
      BY DEF After
    <3> QED
      BY <2>1, <3>1, ArrivesType DEF ChangePassword
  <2>2. CASE ResetPassword(c)
    <3>1. After("reset").start = "set"
      BY DEF After
    <3> QED
      BY <2>2, <3>1, ArrivesType DEF ResetPassword
  <2> QED
    BY <2>1, <2>2
<1> DEFINE r == [Idle EXCEPT !.op = op, !.pc = "set"]
<1>2. r \in Request /\ Fits(r)
  BY IdleType DEF Idle, Typed, TypeOK, Request, Fits, Steps, OpKinds
<1> QED
  BY <1>1, <1>2, BeginType

LEMMA CallbackType ==
    ASSUME Typed, NEW c \in Requests, NEW k \in Challenges, NEW verdict,
           Callback(c, verdict, k)
    PROVE  Typed'
<1> DEFINE r == [Idle EXCEPT !.op = verdict, !.pc = "resolve", !.challenge = k]
<1>1. verdict \in OpKinds /\ verdict # "refresh" /\ asked' \in 0..MaxRequests
  BY ArrivesType DEF Callback
<1>2. r \in Request /\ Fits(r)
  BY <1>1, IdleType DEF Idle, Typed, TypeOK, Request, Fits, Steps
<1> QED
  BY <1>1, <1>2, BeginType DEF Callback

\* What is left to show of a step that adds no pair, epoch or password.
LEMMA Frame ==
    ASSUME Typed, UNCHANGED <<pairs, epoch, version>>,
           user' \in [password : Nat, tfa : BOOLEAN, banned : BOOLEAN],
           user'.password = user.password,
           now' \in 1..MaxTime, now <= now',
           allowed' \subseteq Minted, family' \subseteq Minted,
           banKey' \in 0..now',
           challenge' \in [Challenges -> Challenge],
           jar' \in [Browsers -> {0} \cup Minted],
           req' \in [Requests -> Request], \A c \in Requests : Fits(req'[c]),
           asked' \in 0..MaxRequests, halfway' \in BOOLEAN
    PROVE  Typed'
<1>0. version \in Version'
  BY ConstantTypes DEF Version, Typed, TypeOK
<1>1. Minted' = Minted /\ Request \subseteq Request' /\ Challenge' = Challenge
  BY Still DEF Typed
<1>2. TypeOK'
  BY <1>0, <1>1 DEF Typed, TypeOK
<1>3. \A c \in Requests : Fits(req[c])'
  BY DEF Fits
<1>4. \A p \in Minted : Past(pairs[p])'
  <2> SUFFICES ASSUME NEW p \in Minted
               PROVE  Past(pairs[p])'
    OBVIOUS
  <2>1. pairs[p].iat \in Nat /\ Past(pairs[p])
    BY PairType DEF Typed, Pair
  <2>2. now \in Int /\ now' \in Int
    BY DEF Typed, TypeOK
  <2> QED
    BY <2>1, <2>2 DEF Past
<1> QED
  BY <1>1, <1>2, <1>3, <1>4 DEF Typed

LEMMA LogoutType ==
    ASSUME Typed, NEW c \in Requests, NEW b \in Browsers, Logout(c, b)
    PROVE  Typed'
<1> DEFINE r == [Idle EXCEPT !.op = "logout", !.pc = "clear", !.browser = b]
<1>1. r \in Request /\ Fits(r)
  BY IdleType DEF Idle, Typed, TypeOK, Request, Fits, Steps, OpKinds
<1>2. req' \in [Requests -> Request] /\ \A d \in Requests : Fits(req'[d])
  BY <1>1, Advance DEF Logout
<1>3. asked' \in 0..MaxRequests
  BY ArrivesType DEF Logout
<1> QED
  BY <1>2, <1>3, Frame DEF Logout, Typed, TypeOK, history

LEMMA UpdateBanStatusType ==
    ASSUME Typed, NEW c \in Requests, NEW op, UpdateBanStatus(c, op)
    PROVE  Typed'
<1> DEFINE r == [Idle EXCEPT !.op = op, !.pc = "banKey"]
<1>1. op \in OpKinds /\ op # "refresh" /\ asked' \in 0..MaxRequests
  BY ArrivesType DEF UpdateBanStatus
<1>2. r \in Request /\ Fits(r)
  BY <1>1, IdleType DEF Idle, Typed, TypeOK, Request, Fits, Steps
<1>3. req' \in [Requests -> Request] /\ \A d \in Requests : Fits(req'[d])
  BY <1>2, Advance DEF UpdateBanStatus
<1>4. user' \in [password : Nat, tfa : BOOLEAN, banned : BOOLEAN]
      /\ user'.password = user.password
  <2>1. PICK v \in BOOLEAN : v = (op = "ban")
    BY Zenon
  <2>2. user' = [user EXCEPT !.banned = v]
    BY <2>1, Zenon DEF UpdateBanStatus
  <2> QED
    BY <2>2 DEF Typed, TypeOK
<1> QED
  BY <1>1, <1>3, <1>4, Frame DEF UpdateBanStatus, Typed, TypeOK, redis, history

LEMMA ToggleTFAType ==
    ASSUME Typed, NEW b \in Browsers, ToggleTFA(b)
    PROVE  Typed'
<1>1. user' \in [password : Nat, tfa : BOOLEAN, banned : BOOLEAN]
      /\ user'.password = user.password
  <2>1. user \in [password : Nat, tfa : BOOLEAN, banned : BOOLEAN]
    BY DEF Typed, TypeOK
  <2>2. PICK v \in BOOLEAN : v = ~user.tfa
    BY Zenon
  <2>3. user' = [user EXCEPT !.tfa = v]
    BY <2>2, Zenon DEF ToggleTFA
  <2> QED
    BY <2>1, <2>3
<1>2. asked' \in 0..MaxRequests
  BY SessionAssumption DEF ToggleTFA, Typed, TypeOK
<1> QED
  BY <1>1, <1>2, Frame DEF ToggleTFA, Typed, TypeOK, redis, history

LEMMA NewStatus ==
    ASSUME Typed, NEW k \in Challenges, NEW status \in {"approved", "denied", "gone"},
           challenge' = [challenge EXCEPT ![k].status = status]
    PROVE  challenge' \in [Challenges -> Challenge]
<1>1. challenge \in [Challenges -> Challenge]
  BY DEF Typed, TypeOK
<1>2. [challenge[k] EXCEPT !.status = status] \in Challenge
  BY <1>1 DEF Challenge
<1> QED
  BY <1>1, <1>2

LEMMA ChallengeExpiresType ==
    ASSUME Typed, NEW k \in Challenges, ChallengeExpires(k)
    PROVE  Typed'
<1>1. challenge' \in [Challenges -> Challenge]
  BY NewStatus DEF ChallengeExpires
<1> QED
  BY <1>1, Frame DEF ChallengeExpires, Typed, TypeOK, history

LEMMA ChallengeTypes ==
    ASSUME Typed, NEW c \in Requests,
           (\E k \in Challenges : Create2FAChallenge(c, k)) \/ Resolve2FAChallenge(c)
    PROVE  Typed'
<1>0. /\ challenge \in [Challenges -> Challenge]
      /\ req[c].password \in 0..user.password /\ req[c].epoch \in 0..epoch
  BY DEF Typed, TypeOK, Request
<1>1. Ends(c)
  BY DEF Create2FAChallenge, Resolve2FAChallenge
<1>2. req' \in [Requests -> Request] /\ \A d \in Requests : Fits(req'[d])
  BY <1>1, EndsType
<1>3. UNCHANGED <<now, user, allowed, family, version, banKey, jar, asked, pairs, epoch, halfway>>
  BY DEF Create2FAChallenge, Resolve2FAChallenge, history
<1>4. challenge' \in [Challenges -> Challenge]
  <2>1. ASSUME NEW k \in Challenges, Create2FAChallenge(c, k)
        PROVE  challenge' \in [Challenges -> Challenge]
    <3>1. [status |-> "pending", password |-> req[c].password, epoch |-> req[c].epoch]
            \in Challenge
      BY <1>0 DEF Challenge
    <3> QED
      BY <1>0, <2>1, <3>1 DEF Create2FAChallenge
  <2>2. CASE Resolve2FAChallenge(c) /\ UNCHANGED challenge
    BY <1>0, <2>2
  <2>3. CASE Resolve2FAChallenge(c) /\ ~UNCHANGED challenge
    <3> DEFINE k == req[c].challenge
    <3>1. PICK status \in {"approved", "denied"} :
            challenge' = [challenge EXCEPT ![k].status = status]
      BY <2>3, Zenon DEF Resolve2FAChallenge
    <3>2. k \in Challenges
      BY <1>0, <2>3, <3>1
    <3> QED
      BY <3>1, <3>2, NewStatus
  <2> QED
    BY <2>1, <2>2, <2>3
<1> QED
  BY <1>2, <1>3, <1>4, Frame DEF Typed, TypeOK

LEMMA ConsumeType ==
    ASSUME Typed, NEW c \in Requests, Consume(c)
    PROVE  Typed'
<1>0. req[c] \in Request /\ req[c].pc = "consume" /\ req[c].pair # 0 /\ req[c].op = "refresh"
  BY DEF Consume, At, Typed, TypeOK, Fits
<1>1. req' \in [Requests -> Request] /\ \A d \in Requests : Fits(req'[d])
  <2>1. CASE GoTo(c, "ban")
    <3>1. "ban" \in Steps /\ Fits([req[c] EXCEPT !.pc = "ban"])
      BY <1>0 DEF Steps, Fits, Request
    <3> QED
      BY <2>1, <3>1, GoToType
  <2>2. CASE Proceeds(c, "start")
    BY <1>0, <2>2, ProceedsType
  <2> QED
    BY <2>1, <2>2 DEF Consume
<1>2. allowed' \subseteq Minted /\ family' \subseteq Minted
  BY DEF Consume, Consumed, Typed, TypeOK
<1> QED
  BY <1>1, <1>2, Frame DEF Consume, Typed, TypeOK, history

LEMMA CheckBanType ==
    ASSUME Typed, NEW c \in Requests, CheckBan(c)
    PROVE  Typed'
<1>0. req[c] \in Request /\ req[c].pc = "ban" /\ req[c].pair # 0
  BY DEF CheckBan, At, Typed, TypeOK, Fits
<1>1. req' \in [Requests -> Request] /\ \A d \in Requests : Fits(req'[d])
  <2>1. CASE GoTo(c, "mint")
    <3>1. "mint" \in Steps /\ Fits([req[c] EXCEPT !.pc = "mint"])
      BY <1>0 DEF Steps, Fits, Request
    <3> QED
      BY <2>1, <3>1, GoToType
  <2>2. CASE Ends(c)
    BY <2>2, EndsType
  <2> QED
    BY <2>1, <2>2 DEF CheckBan
<1> QED
  BY <1>1, Frame DEF CheckBan, Typed, TypeOK, redis, history

LEMMA RegisterType ==
    ASSUME Typed, NEW c \in Requests, RegisterRefreshToken(c)
    PROVE  Typed'
<1>0. req[c] \in Request /\ req[c].pc = "register" /\ req[c].pair # 0
  BY DEF RegisterRefreshToken, At, Typed, TypeOK, Fits
<1>1. "reply" \in Steps /\ Fits([req[c] EXCEPT !.pc = "reply"])
  BY <1>0 DEF Steps, Fits, Request
<1>2. req' \in [Requests -> Request] /\ \A d \in Requests : Fits(req'[d])
  BY <1>1, GoToType DEF RegisterRefreshToken
<1>3. allowed' \subseteq Minted /\ family' \subseteq Minted
  BY <1>0 DEF RegisterRefreshToken, Typed, TypeOK, Request
<1> QED
  BY <1>2, <1>3, Frame DEF RegisterRefreshToken, Typed, TypeOK, history

LEMMA CookieTypes ==
    ASSUME Typed, NEW c \in Requests, SetAuthCookies(c) \/ ClearAuthCookies(c)
    PROVE  Typed'
<1>1. req' \in [Requests -> Request] /\ \A d \in Requests : Fits(req'[d])
  BY EndsType DEF SetAuthCookies, ClearAuthCookies
<1>2. jar' \in [Browsers -> {0} \cup Minted]
  BY DEF SetAuthCookies, ClearAuthCookies, Typed, TypeOK, Request
<1> QED
  BY <1>1, <1>2, Frame
  DEF SetAuthCookies, ClearAuthCookies, Typed, TypeOK, redis, history

LEMMA RevokeTypes ==
    ASSUME Typed, NEW c \in Requests, Members(c) \/ Drop(c)
    PROVE  Typed'
<1>0. req[c] \in Request
  BY DEF Typed, TypeOK
<1>1. req' \in [Requests -> Request] /\ \A d \in Requests : Fits(req'[d])
  <2>1. CASE Proceeds(c, "drop")
    BY <2>1, ProceedsType
  <2>2. CASE req' = [req EXCEPT ![c].seen = family, ![c].pc = "drop"]
    <3> DEFINE r == [req[c] EXCEPT !.seen = family, !.pc = "drop"]
    <3>1. family \in SUBSET Minted /\ "drop" \in Steps
      BY DEF Typed, TypeOK, Steps
    <3>2. r \in Request
      BY <1>0, <3>1 DEF Request
    <3>3. Fits(r)
      BY <1>0 DEF Request, Fits
    <3>4. req' = [req EXCEPT ![c] = r]
      BY <2>2, <1>0 DEF Typed, TypeOK
    <3> QED
      BY <3>2, <3>3, <3>4, Advance
  <2> QED
    BY <2>1, <2>2 DEF Members, Drop
<1> QED
  BY <1>1, Frame DEF Members, Drop, Typed, TypeOK, redis, history

LEMMA SetBanKeyType ==
    ASSUME Typed, NEW c \in Requests, SetBanKey(c)
    PROVE  Typed'
<1>1. req' \in [Requests -> Request] /\ \A d \in Requests : Fits(req'[d])
  BY EndsType DEF SetBanKey
<1>2. banKey' \in 0..now
  BY DEF SetBanKey, Typed, TypeOK
<1> QED
  BY <1>1, <1>2, Frame DEF SetBanKey, Typed, TypeOK, history

LEMMA HalfwayType ==
    ASSUME NEW c \in Requests, Unwritten(c)
    PROVE  halfway' \in BOOLEAN
BY Zenon DEF Unwritten

LEMMA AbandonType ==
    ASSUME Typed, NEW c \in Requests, Abandon(c)
    PROVE  Typed'
<1>1. req' \in [Requests -> Request] /\ \A d \in Requests : Fits(req'[d])
  BY EndsType DEF Abandon
<1>2. halfway' \in BOOLEAN
  BY HalfwayType DEF Abandon
<1> QED
  BY <1>1, <1>2, Frame DEF Abandon, Typed, TypeOK, redis

LEMMA TickType ==
    ASSUME Typed, Tick
    PROVE  Typed'
<1>1. /\ now \in Nat /\ MaxTime \in Nat /\ 1 <= now /\ now < MaxTime /\ now' = now + 1
      /\ banKey \in 0..now
  BY SessionAssumption DEF Tick, Typed, TypeOK
<1>2. now' \in 1..MaxTime /\ now <= now' /\ banKey \in 0..now'
  BY <1>1
<1> QED
  BY <1>2, Frame DEF Tick, Typed, TypeOK, redis, history

LEMMA SetPasswordType ==
    ASSUME Typed, NEW c \in Requests, SetPassword(c)
    PROVE  Typed'
<1>1. /\ user \in [password : Nat, tfa : BOOLEAN, banned : BOOLEAN]
      /\ user' = [user EXCEPT !.password = user.password + 1]
  BY DEF SetPassword, Typed, TypeOK
<1>2. /\ user' \in [password : Nat, tfa : BOOLEAN, banned : BOOLEAN]
      /\ user'.password = user.password + 1
  BY <1>1
<1>3. UNCHANGED <<now, allowed, family, version, banKey, challenge, jar, asked, pairs, epoch, halfway>>
  BY DEF SetPassword, redis, history
<1>4. Minted' = Minted /\ Request \subseteq Request' /\ Challenge \subseteq Challenge'
  <2>1. TypeOK /\ Len(pairs) \in Nat /\ epoch \in Nat /\ now \in Nat /\ user.password \in Nat
    BY ConstantTypes DEF Typed, TypeOK
  <2>2. /\ Len(pairs') = Len(pairs) /\ epoch' = epoch /\ now' = now
        /\ user'.password \in Nat /\ user.password <= user'.password
    BY <1>2, <1>3, <2>1
  <2> QED
    BY <2>1, <2>2, Growth DEF Minted
<1>5. req' \in [Requests -> Request] /\ \A d \in Requests : Fits(req'[d])
  <2>1. req[c].op # "refresh" /\ Proceeds(c, "set")
    BY DEF SetPassword, At, Typed, Fits
  <2> QED
    BY <2>1, ProceedsType
<1>6. TypeOK'
  BY <1>2, <1>3, <1>4, <1>5 DEF Typed, TypeOK, Version
<1>7. \A d \in Requests : Fits(req[d])'
  BY <1>5 DEF Fits
<1>8. \A p \in Minted : Past(pairs[p])'
  BY <1>1, <1>2, <1>3, PairType DEF Past, Typed, Pair
<1> QED
  BY <1>4, <1>6, <1>7, <1>8 DEF Typed

LEMMA ReadClockType ==
    ASSUME Typed, NEW c \in Requests, ReadClock(c)
    PROVE  Typed'
<1> DEFINE r == [req[c] EXCEPT !.pc = "land", !.clock = now]
<1>1. req[c] \in Request /\ now \in 0..now
  BY ConstantTypes DEF Typed, TypeOK
<1>2. r \in Request /\ r.pc = "land"
  BY <1>1 DEF Request, Steps
<1>3. req' = [req EXCEPT ![c] = r]
  BY DEF ReadClock, ChangedAt, Typed, TypeOK
<1>4. req' \in [Requests -> Request] /\ \A d \in Requests : Fits(req'[d])
  BY <1>2, <1>3, Advance DEF Fits
<1> QED
  BY <1>4, Frame DEF ReadClock, Typed, TypeOK, redis, history

LEMMA SetPasswordVersionType ==
    ASSUME Typed, NEW c \in Requests, SetPasswordVersion(c)
    PROVE  Typed'
<1>1. /\ epoch \in Nat /\ (epoch' = epoch + 1 \/ epoch' = epoch)
      /\ UNCHANGED <<now, user, allowed, family, banKey, challenge, jar, asked, pairs>>
  BY DEF SetPasswordVersion, Typed, TypeOK
<1>2. Minted' = Minted /\ Request \subseteq Request' /\ Challenge \subseteq Challenge'
  BY <1>1, Growth, ConstantTypes DEF Typed, TypeOK, Minted
<1>3. req' \in [Requests -> Request] /\ \A d \in Requests : Fits(req'[d])
  <2>1. Proceeds(c, "version")
    BY DEF SetPasswordVersion
  <2> QED
    BY <2>1, ProceedsType
<1>4. halfway' \in BOOLEAN
  BY HalfwayType DEF SetPasswordVersion
<1>5. version' \in Version
  <2>1. req[c].clock \in 0..now /\ now \in 0..now
    BY ConstantTypes DEF Typed, TypeOK, Request
  <2>2. [time |-> req[c].clock, written |-> now] \in Version
    BY <2>1 DEF Version
  <2> QED
    BY <2>2 DEF SetPasswordVersion, Typed, TypeOK
<1>6. TypeOK'
  BY <1>1, <1>2, <1>3, <1>4, <1>5 DEF Typed, TypeOK, Version
<1>7. \A d \in Requests : Fits(req[d])'
  BY <1>3 DEF Fits
<1>8. \A p \in Minted : Past(pairs[p])'
  BY <1>1, PairType DEF Past, Typed, Pair
<1> QED
  BY <1>2, <1>6, <1>7, <1>8 DEF Typed

\* The pair Mint adds.
LEMMA MintedPair ==
    ASSUME Typed, NEW c \in Requests, Mint(c)
    PROVE  \E e \in Pair :
            /\ e.iat = now /\ e.password = req[c].password /\ e.epoch = epoch
            /\ e.loose = (req[c].loose \/ req[c].epoch # epoch)
            /\ e.chain = IF Is(c, {"refresh"}) THEN pairs[req[c].pair].chain ELSE Len(pairs) + 1
            /\ pairs' = Append(pairs, e)
            /\ req[c].pc = "mint"
<1> DEFINE new == Len(pairs) + 1
<1>1. /\ req[c] \in Request /\ Fits(req[c]) /\ req[c].pc = "mint"
      /\ Len(pairs) \in Nat /\ MaxPairs \in Nat /\ new <= MaxPairs
  BY SessionAssumption DEF Mint, At, Typed, TypeOK
<1>2. PICK chain \in 1..MaxPairs :
        chain = IF Is(c, {"refresh"}) THEN pairs[req[c].pair].chain ELSE new
  <2>1. CASE Is(c, {"refresh"})
    <3>1. req[c].pair \in Minted
      BY <1>1, <2>1 DEF Is, Fits, Request
    <3>2. pairs[req[c].pair].chain \in 1..MaxPairs
      BY <3>1, PairType DEF Typed, Pair
    <3> QED
      BY <2>1, <3>2
  <2>2. CASE ~Is(c, {"refresh"})
    <3>1. new \in 1..MaxPairs
      BY <1>1
    <3> QED
      BY <2>2, <3>1, Zenon
  <2> QED
    BY <2>1, <2>2
<1>3. PICK loose \in BOOLEAN : loose = (req[c].loose \/ req[c].epoch # epoch)
  BY Zenon
<1> DEFINE e == [iat |-> now, password |-> req[c].password, epoch |-> epoch,
                 chain |-> chain, loose |-> loose]
<1>4. now \in Nat /\ req[c].password \in Nat /\ epoch \in Nat
  BY <1>1 DEF Typed, TypeOK, Request
<1>5. e \in Pair
  <2>1. chain \in 1..MaxPairs /\ loose \in BOOLEAN
    BY <1>2, <1>3
  <2> QED
    BY <1>4, <2>1, Zenon DEF Pair
<1>6. pairs' = Append(pairs, [iat |-> now, password |-> req[c].password, epoch |-> epoch,
                 chain |-> IF Is(c, {"refresh"}) THEN pairs[req[c].pair].chain ELSE new,
                 loose |-> req[c].loose \/ req[c].epoch # epoch])
  BY Zenon DEF Mint
<1>7. pairs' = Append(pairs, e)
  BY <1>2, <1>3, <1>6, Zenon
<1> QED
  BY <1>1, <1>2, <1>3, <1>5, <1>7, Zenon

LEMMA MintType ==
    ASSUME Typed, NEW c \in Requests, Mint(c)
    PROVE  Typed'
<1> DEFINE new == Len(pairs) + 1
<1>1. PICK e \in Pair : /\ e.iat = now /\ e.password = req[c].password /\ e.epoch = epoch
                        /\ pairs' = Append(pairs, e)
  BY MintedPair
<1>2. /\ pairs \in Seq(Pair) /\ Len(pairs) \in Nat
      /\ UNCHANGED <<now, user, allowed, family, version, banKey, challenge, jar, asked, epoch, halfway>>
      /\ new <= MaxPairs
      /\ req[c] \in Request
  BY DEF Mint, Typed, TypeOK, redis
<1>3. /\ pairs' \in Seq(Pair) /\ Len(pairs') = new /\ pairs'[new] = e
      /\ \A p \in 1..Len(pairs) : pairs'[p] = pairs[p]
  BY <1>1, <1>2
<1>4. Minted \subseteq Minted' /\ Request \subseteq Request' /\ Challenge \subseteq Challenge'
  BY <1>2, <1>3, Growth, ConstantTypes DEF Typed, TypeOK
<1>5. new \in Minted'
  BY <1>2, <1>3 DEF Minted
<1>6. req' \in [Requests -> Request'] /\ \A d \in Requests : Fits(req'[d])
  <2> DEFINE r == [Idle EXCEPT !.op = req[c].op, !.pc = "register",
                               !.browser = req[c].browser, !.pair = new]
  <2>1. Idle \in Request'
    BY <1>4, IdleType DEF Typed
  <2>2. r \in Request'
    BY <1>2, <1>5, <2>1 DEF Request, Steps
  <2>3. Fits(r)
    BY <1>2 DEF Fits, Idle
  <2>4. req' = [req EXCEPT ![c] = r]
    BY DEF Mint
  <2> QED
    BY <1>4, <2>2, <2>3, <2>4 DEF Typed, TypeOK
<1>7. TypeOK'
  BY <1>2, <1>3, <1>4, <1>6 DEF Typed, TypeOK, Version
<1>8. \A d \in Requests : Fits(req[d])'
  BY <1>6 DEF Fits
<1>9. (\A p \in Minted : Past(pairs[p]))'
  <2> SUFFICES ASSUME NEW p \in Minted'
               PROVE  Past(pairs[p])'
    OBVIOUS
  <2>1. CASE p = new
    <3>1. now \in Nat /\ req[c].password <= user.password /\ epoch \in Nat
      BY <1>2 DEF Typed, TypeOK, Request
    <3> QED
      BY <1>1, <1>2, <1>3, <2>1, <3>1 DEF Past
  <2>2. CASE p # new
    <3>1. p \in 1..Len(pairs)
      BY <1>2, <1>3, <2>2 DEF Minted
    <3> QED
      BY <1>2, <1>3, <3>1 DEF Past, Typed, Minted
  <2> QED
    BY <2>1, <2>2
<1> QED
  BY <1>7, <1>8, <1>9 DEF Typed

\* Every state is well typed, and every request has in hand what its step
\* needs: the inductive invariant the other proofs start from.
LEMMA TypedInit == Init => Typed
<1> SUFFICES ASSUME Init PROVE Typed
  OBVIOUS
<1>1. Minted = {} /\ pairs \in Seq(Pair) /\ Len(pairs) = 0
  BY DEF Init, Minted
<1>2. user \in [password : Nat, tfa : BOOLEAN, banned : BOOLEAN] /\ user.password = 0
  <2>1. user \in [password : {0}, tfa : BOOLEAN, banned : {FALSE}]
    BY DEF Init
  <2>2. user = [password |-> user.password, tfa |-> user.tfa, banned |-> user.banned]
        /\ user.password \in {0} /\ user.tfa \in BOOLEAN /\ user.banned \in {FALSE}
    BY <2>1, Zenon
  <2>3. user.password \in Nat /\ user.password = 0
    BY <2>2
  <2>4. user.banned \in BOOLEAN
    BY <2>2, Zenon
  <2> QED
    BY <2>2, <2>3, <2>4, Zenon
<1>3. NoChallenge \in Challenge
  BY <1>2 DEF Init, NoChallenge, Challenge
<1>4. Idle \in Request /\ Fits(Idle)
  BY <1>2 DEF Init, Idle, Request, Steps, Fits
<1>5. TypeOK
  <2>1. now \in 1..MaxTime /\ asked \in 0..MaxRequests /\ Len(pairs) <= MaxPairs
        /\ version \in Version /\ banKey \in 0..now /\ epoch \in Nat
    BY <1>1, ConstantTypes DEF Init, Version
  <2>2. challenge \in [Challenges -> Challenge] /\ req \in [Requests -> Request]
        /\ jar \in [Browsers -> {0} \cup Minted]
    BY <1>3, <1>4 DEF Init
  <2>3. halfway \in BOOLEAN /\ allowed \subseteq Minted /\ family \subseteq Minted
    BY DEF Init
  <2> QED
    BY <1>1, <1>2, <2>1, <2>2, <2>3 DEF TypeOK
<1> QED
  BY <1>1, <1>4, <1>5 DEF Init, Typed

LEMMA TypedNext == Typed /\ [Next]_vars => Typed'
<1> SUFFICES ASSUME Typed, [Next]_vars PROVE Typed'
  OBVIOUS
<1>1. CASE UNCHANGED vars
  BY <1>1, Frame DEF vars, redis, history, Typed, TypeOK
<1>2. ASSUME NEW c \in Requests, Arrive(c) PROVE Typed'
  BY <1>2, LoginType, RefreshType, LogoutType, OtherArrivals, TFACheckType,
     CallbackType, UpdateBanStatusType, Zenon DEF Arrive, BanUser, UnbanUser
<1>3. ASSUME NEW c \in Requests, Continue(c) PROVE Typed'
  BY <1>3, ChallengeTypes, ConsumeType, CheckBanType, MintType, RegisterType,
     CookieTypes, SetPasswordType, ReadClockType, SetPasswordVersionType, RevokeTypes, SetBanKeyType
  DEF Continue
<1> QED
  BY <1>1, <1>2, <1>3, AbandonType, ToggleTFAType, ChallengeExpiresType, TickType DEF Next

\* Type correctness: a request never holds a pair that was not minted, and no
\* key, token or challenge speaks of a time, a password or a write of pw:ver
\* that is still to come.
THEOREM SessionTypes == Spec => []TypeOK
<1>1. Spec => []Typed
  BY TypedInit, TypedNext, PTL DEF Spec
<1>2. Typed => TypeOK
  BY DEF Typed
<1> QED
  BY <1>1, <1>2, PTL

-----------------------------------------------------------------------------
(* Sessions of older passwords.                                            *)

\* What was begun with an older password, unless a request under way at that
\* moment was giving it out, is from before the last write of pw:ver.
Over(x) == x.password < user.password => x.epoch < epoch

\* A request that holds what a pair will be minted from.
Carries(r) == r.pc \in {"challenge", "consume", "ban", "mint"}

Ended ==
    /\ \A p \in Minted : pairs[p].loose \/ Over(pairs[p])
    /\ \A c \in Requests : Carries(req[c]) => req[c].loose \/ Over(req[c])
    /\ \A k \in Challenges : challenge[k].status # "none" => Over(challenge[k])

\* Before pw:ver is written only the password is new.
OldIsOver == Halfway \/ Ended

\* From then on the key tells, and since its life begins when it is written,
\* not at the time it holds, it lives as long as any token it tells of.
LEMMA OldNotRefreshable ==
    ASSUME Typed, NEW p \in Minted, pairs[p].epoch < epoch,
           Refreshable(p) \/ Authenticated(p)
    PROVE  Slipped(p)
<1>1. /\ pairs[p].iat \in Nat /\ pairs[p].epoch \in Nat /\ epoch \in Nat
      /\ version.time \in Nat /\ version.written \in Nat /\ version.time <= version.written
      /\ AccessTTL \in Nat /\ RefreshTTL \in Nat /\ AccessTTL <= RefreshTTL /\ now \in Nat
  BY PairType, ConstantTypes DEF Typed, TypeOK, Pair, Version
<1>2. now < pairs[p].iat + RefreshTTL /\ ~Stale(p)
  BY <1>1 DEF Refreshable, Authenticated
<1>3. pairs[p].iat >= version.time
  BY <1>1, <1>2 DEF Stale, VersionTTL
<1> QED
  BY <1>1, <1>3 DEF Slipped

LEMMA OldPasswordFollows == Typed /\ OldIsOver => OldPasswordIsOut
<1> SUFFICES ASSUME Typed, OldIsOver, ~Halfway, NEW p \in DOMAIN pairs,
                    Refreshable(p) \/ Authenticated(p), pairs[p].password < user.password
             PROVE  pairs[p].loose \/ Slipped(p)
  BY DEF OldPasswordIsOut
<1>1. p \in Minted
  BY DEF Typed, TypeOK, Minted
<1>2. pairs[p].loose \/ pairs[p].epoch < epoch
  BY <1>1 DEF OldIsOver, Ended, Over
<1> QED
  BY <1>1, <1>2, OldNotRefreshable DEF OldIsOver

\* A step that writes neither password nor pw:ver, and mints nothing.
LEMMA OldFrame ==
    ASSUME Typed, OldIsOver, UNCHANGED <<pairs, epoch, version>>,
           user'.password = user.password,
           Halfway => Halfway',
           Ended => \A c \in Requests : Carries(req'[c]) => req'[c].loose \/ Over(req'[c]),
           Ended => \A k \in Challenges : challenge'[k].status # "none" => Over(challenge'[k])
    PROVE  OldIsOver'
<1>1. Minted' = Minted
  BY DEF Minted
<1>2. Ended => Ended'
  BY <1>1 DEF Ended, Over, Carries
<1> QED
  BY <1>2 DEF OldIsOver

LEMMA HalfwayFrame ==
    ASSUME Typed, NEW c \in Requests, NEW r, req' = [req EXCEPT ![c] = r],
           Halfway,
           Writing(c) => halfway' \/ Writing(c)', halfway => halfway'
    PROVE  Halfway'
<1>1. CASE halfway
  BY <1>1 DEF Halfway
<1>2. ASSUME NEW d \in Requests, Writing(d)
      PROVE  Halfway'
  <2>1. CASE d = c
    BY <1>2, <2>1 DEF Halfway
  <2>2. CASE d # c
    <3>1. req'[d] = req[d]
      BY <2>2 DEF Typed, TypeOK
    <3> QED
      BY <1>2, <3>1 DEF Halfway, Writing, At, Is
  <2> QED
    BY <2>1, <2>2
<1> QED
  BY <1>1, <1>2 DEF Halfway

LEMMA OneMoves ==
    ASSUME Typed, OldIsOver, NEW c \in Requests, NEW r, req' = [req EXCEPT ![c] = r],
           UNCHANGED <<pairs, epoch, version>>, user'.password = user.password,
           Ended => \A k \in Challenges : challenge'[k].status # "none" => Over(challenge'[k]),
           Ended => (Carries(r) => r.loose \/ Over(r)),
           Writing(c) => halfway' \/ Writing(c)', halfway => halfway'
    PROVE  OldIsOver'
<1>1. Halfway => Halfway'
  BY HalfwayFrame
<1>2. ASSUME Ended, NEW d \in Requests, Carries(req'[d])
      PROVE  req'[d].loose \/ Over(req'[d])
  <2>1. req \in [Requests -> Request]
    BY DEF Typed, TypeOK
  <2>2. CASE d = c
    BY <1>2, <2>1, <2>2
  <2>3. CASE d # c
    BY <1>2, <2>1, <2>3 DEF Ended
  <2> QED
    BY <2>2, <2>3
<1> QED
  BY <1>1, <1>2, OldFrame

LEMMA ChallengesStay ==
    ASSUME Ended, UNCHANGED challenge
    PROVE  \A k \in Challenges : challenge'[k].status # "none" => Over(challenge'[k])
BY DEF Ended

\* A new request that is given nothing from before.
LEMMA NewRequest ==
    ASSUME Typed, OldIsOver, NEW c \in Requests, NEW r, req' = [req EXCEPT ![c] = r],
           req[c] = Idle, UNCHANGED <<challenge, history, version>>,
           user'.password = user.password,
           Ended => (Carries(r) => r.loose \/ Over(r))
    PROVE  OldIsOver'
<1>1. ~Writing(c)
  BY DEF Idle, Writing, At
<1> QED
  BY <1>1, OneMoves, ChallengesStay DEF history

LEMMA LoginOver ==
    ASSUME Typed, OldIsOver, NEW c \in Requests, NEW b \in Browsers, Login(c, b)
    PROVE  OldIsOver'
<1>0. PICK pc \in {"challenge", "mint"} : pc = IF user.tfa THEN "challenge" ELSE "mint"
  BY Zenon
<1> DEFINE r == [Idle EXCEPT
                !.op = "login", !.pc = pc,
                !.browser = b, !.password = user.password, !.epoch = epoch]
<1>1. req' = [req EXCEPT ![c] = r]
  BY <1>0, Zenon DEF Login
<1>2. r.password = user.password /\ user.password \in Nat
  BY DEF Idle, Typed, TypeOK
<1>3. Over(r)
  BY <1>2 DEF Over
<1> QED
  BY <1>1, <1>3, NewRequest DEF Login, Arrives, redis

LEMMA TFACheckOver ==
    ASSUME Typed, OldIsOver, NEW c \in Requests, NEW b \in Browsers, NEW k \in Challenges,
           TFACheck(c, b, k)
    PROVE  OldIsOver'
<1> DEFINE r == [Idle EXCEPT
                !.op = "poll", !.pc = "mint", !.browser = b,
                !.password = challenge[k].password, !.epoch = challenge[k].epoch]
<1>1. r.password = challenge[k].password /\ r.epoch = challenge[k].epoch
  BY DEF Idle
<1>2. Ended => Over(r)
  BY <1>1 DEF Ended, Over, TFACheck
<1> QED
  BY <1>2, NewRequest DEF TFACheck, Arrives, redis

LEMMA RefreshOver ==
    ASSUME Typed, OldIsOver, NEW c \in Requests, NEW b \in Browsers, Refresh(c, b)
    PROVE  OldIsOver'
<1>1. PICK p \in RefreshCookie("refresh", b) :
        /\ Refreshable(p)
        /\ req' = [req EXCEPT ![c] = [Idle EXCEPT
                    !.op = "refresh", !.pc = "consume", !.browser = b, !.pair = p,
                    !.password = pairs[p].password, !.epoch = epoch,
                    !.loose = pairs[p].loose \/ Slipped(p)]]
  BY Zenon DEF Refresh
<1>2. p \in Minted
  BY DEF RefreshCookie, Typed, TypeOK
<1>3. PICK l \in BOOLEAN : l = (pairs[p].loose \/ Slipped(p))
  BY Zenon
<1> DEFINE r == [Idle EXCEPT
                    !.op = "refresh", !.pc = "consume", !.browser = b, !.pair = p,
                    !.password = pairs[p].password, !.epoch = epoch, !.loose = l]
<1>4. req' = [req EXCEPT ![c] = r]
  BY <1>1, <1>3, Zenon
<1>5. r.password = pairs[p].password /\ r.loose = l
  BY DEF Idle
<1>6. Ended => r.loose \/ Over(r)
  <2> SUFFICES ASSUME Ended, ~Over(r) PROVE r.loose
    OBVIOUS
  <2>1. pairs[p].loose \/ pairs[p].epoch < epoch
    BY <1>2, <1>5 DEF Ended, Over
  <2>2. pairs[p].loose \/ Slipped(p)
    BY <1>1, <1>2, <2>1, OldNotRefreshable DEF OldIsOver
  <2> QED
    BY <1>3, <1>5, <2>2, Zenon
<1> QED
  BY <1>4, <1>6, NewRequest DEF Refresh, Arrives, redis

LEMMA ArrivalsOver ==
    ASSUME Typed, OldIsOver, NEW c \in Requests, NEW r,
           ~Carries(r), req' = [req EXCEPT ![c] = r], req[c] = Idle,
           UNCHANGED <<challenge, history, version>>, user'.password = user.password
    PROVE  OldIsOver'
BY NewRequest

LEMMA ArriveOver ==
    ASSUME Typed, OldIsOver, NEW c \in Requests, Arrive(c)
    PROVE  OldIsOver'
<1>1. ASSUME NEW b \in Browsers, Logout(c, b) PROVE OldIsOver'
  BY <1>1, ArrivalsOver DEF Logout, Arrives, Idle, Carries
<1>2. CASE (\E b \in Browsers : ChangePassword(c, b)) \/ ResetPassword(c)
  <2>1. After("password").start = "set" /\ After("reset").start = "set"
    BY DEF After
  <2>2. PICK op : req' = [req EXCEPT ![c] = [Idle EXCEPT !.op = op, !.pc = "set"]]
    BY <1>2, <2>1 DEF ChangePassword, ResetPassword
  <2>3. ~Carries([Idle EXCEPT !.op = op, !.pc = "set"])
    BY DEF Idle, Carries
  <2> QED
    BY <1>2, <2>2, <2>3, ArrivalsOver DEF ChangePassword, ResetPassword, Arrives, redis
<1>3. ASSUME NEW k \in Challenges, NEW verdict, Callback(c, verdict, k) PROVE OldIsOver'
  BY <1>3, ArrivalsOver DEF Callback, Arrives, Idle, Carries, redis
<1>4. ASSUME NEW op, UpdateBanStatus(c, op) PROVE OldIsOver'
  <2>1. user'.password = user.password
    BY <1>4 DEF UpdateBanStatus, Typed, TypeOK
  <2>2. ~Carries([Idle EXCEPT !.op = op, !.pc = "banKey"])
    BY DEF Idle, Carries
  <2> QED
    BY <1>4, <2>1, <2>2, ArrivalsOver DEF UpdateBanStatus, Arrives, redis
<1> QED
  BY <1>1, <1>2, <1>3, <1>4, LoginOver, TFACheckOver, RefreshOver DEF Arrive, BanUser, UnbanUser

\* The request goes on with what it has, or has nothing left to give.
LEMMA MovesOver ==
    ASSUME Typed, OldIsOver, NEW c \in Requests, NEW r, req' = [req EXCEPT ![c] = r],
           \/ ~Carries(r)
           \/ /\ Carries(req[c]) /\ r.loose = req[c].loose
              /\ r.password = req[c].password /\ r.epoch = req[c].epoch,
           UNCHANGED <<challenge, history, version>>, user'.password = user.password,
           ~Writing(c)
    PROVE  OldIsOver'
<1>1. Ended => (Carries(r) => r.loose \/ Over(r))
  BY DEF Ended, Over
<1> QED
  BY <1>1, OneMoves, ChallengesStay DEF history

LEMMA EndsOver ==
    ASSUME Typed, OldIsOver, NEW c \in Requests, Ends(c),
           UNCHANGED <<challenge, history, version>>, user'.password = user.password,
           ~Writing(c)
    PROVE  OldIsOver'
BY MovesOver DEF Ends, Idle, Carries

LEMMA GoToOver ==
    ASSUME Typed, OldIsOver, NEW c \in Requests, NEW pc, GoTo(c, pc),
           pc \in {"ban", "mint"} => Carries(req[c]), pc \in {"ban", "mint", "reply"},
           UNCHANGED <<challenge, history, version>>, user'.password = user.password,
           ~Writing(c)
    PROVE  OldIsOver'
<1> DEFINE r == [req[c] EXCEPT !.pc = pc]
<1>1. req[c] \in Request
  BY DEF Typed, TypeOK
<1>2. /\ r.pc = pc /\ r.loose = req[c].loose
      /\ r.password = req[c].password /\ r.epoch = req[c].epoch
  BY <1>1 DEF Request
<1>3. req' = [req EXCEPT ![c] = r]
  BY DEF GoTo
<1> QED
  BY <1>2, <1>3, MovesOver DEF Carries

LEMMA ProceedsOver ==
    ASSUME Typed, OldIsOver, NEW c \in Requests, NEW step \in {"start", "drop"},
           Proceeds(c, step), step = "start" => req[c].op = "refresh",
           UNCHANGED <<challenge, history, version>>, user'.password = user.password,
           ~Writing(c)
    PROVE  OldIsOver'
<1>1. PICK r \in Request : /\ r.pc \in {"members", "version", "clear", "idle"}
                           /\ req' = [req EXCEPT ![c] = r]
  BY ProceedsTo
<1> QED
  BY <1>1, MovesOver DEF Carries

LEMMA ConsumeOver ==
    ASSUME Typed, OldIsOver, NEW c \in Requests,
           Consume(c) \/ CheckBan(c) \/ Members(c) \/ Drop(c)
    PROVE  OldIsOver'
<1>1. UNCHANGED <<challenge, history, version, user>>
  BY DEF Consume, CheckBan, Members, Drop, redis
<1>2. /\ Consume(c) => req[c].pc = "consume" /\ req[c].op = "refresh"
      /\ CheckBan(c) => req[c].pc = "ban"
      /\ Members(c) => req[c].pc = "members"
      /\ Drop(c) => req[c].pc = "drop"
      /\ ~Writing(c)
  BY DEF Consume, CheckBan, Members, Drop, At, Typed, Fits, Writing
<1>3. CASE Consume(c)
  BY <1>1, <1>2, <1>3, GoToOver, ProceedsOver DEF Consume, Carries
<1>4. CASE CheckBan(c)
  BY <1>1, <1>2, <1>4, GoToOver, EndsOver DEF CheckBan, Carries
<1>5. CASE Members(c)
  <2> DEFINE r == [req[c] EXCEPT !.seen = family, !.pc = "drop"]
  <2>1. CASE Proceeds(c, "drop")
    BY <1>1, <1>2, <1>5, <2>1, ProceedsOver
  <2>2. CASE req' = [req EXCEPT ![c].seen = family, ![c].pc = "drop"]
    <3>1. req' = [req EXCEPT ![c] = r] /\ r.pc = "drop"
      BY <2>2 DEF Typed, TypeOK, Request
    <3> QED
      BY <1>1, <1>2, <1>5, <3>1, MovesOver DEF Carries
  <2> QED
    BY <1>5, <2>1, <2>2 DEF Members
<1>6. CASE Drop(c)
  BY <1>1, <1>2, <1>6, ProceedsOver DEF Drop
<1> QED
  BY <1>3, <1>4, <1>5, <1>6

LEMMA AnswersOver ==
    ASSUME Typed, OldIsOver, NEW c \in Requests,
           RegisterRefreshToken(c) \/ SetAuthCookies(c) \/ ClearAuthCookies(c) \/ SetBanKey(c)
    PROVE  OldIsOver'
<1>1. UNCHANGED <<challenge, history, version, user>> /\ ~Writing(c)
  BY DEF RegisterRefreshToken, SetAuthCookies, ClearAuthCookies, SetBanKey, At, redis, Writing
<1>2. GoTo(c, "reply") \/ Ends(c)
  BY DEF RegisterRefreshToken, SetAuthCookies, ClearAuthCookies, SetBanKey
<1> QED
  BY <1>1, <1>2, GoToOver, EndsOver

LEMMA CreateOver ==
    ASSUME Typed, OldIsOver, NEW c \in Requests, NEW k \in Challenges,
           Create2FAChallenge(c, k)
    PROVE  OldIsOver'
<1>1. /\ req[c].pc = "challenge" /\ ~Writing(c)
      /\ ~Carries(Idle) /\ req' = [req EXCEPT ![c] = Idle]
  BY DEF Create2FAChallenge, At, Ends, Idle, Carries, Writing
<1>2. ASSUME Ended, NEW l \in Challenges, challenge'[l].status # "none"
      PROVE  Over(challenge'[l])
  <2>1. req[c].loose \/ Over(req[c])
    BY <1>1, <1>2 DEF Ended, Carries
  <2>2. ~req[c].loose
    BY <1>1 DEF Typed, Fits
  <2> QED
    BY <1>2, <2>1, <2>2 DEF Create2FAChallenge, Typed, TypeOK, Ended, Over
<1> QED
  BY <1>1, <1>2, OneMoves DEF Create2FAChallenge, history

LEMMA StatusOver ==
    ASSUME Typed, Ended, NEW k \in Challenges, NEW status \in {"approved", "denied", "gone"},
           challenge[k].status # "none", challenge' = [challenge EXCEPT ![k].status = status],
           NEW l \in Challenges, challenge'[l].status # "none"
    PROVE  Over(challenge'[l])
<1>1. challenge[k] \in Challenge /\ challenge \in [Challenges -> Challenge]
  BY DEF Typed, TypeOK
<1>2. CASE l = k
  <2>1. challenge'[l].password = challenge[k].password /\ challenge'[l].epoch = challenge[k].epoch
    BY <1>1, <1>2 DEF Challenge
  <2> QED
    BY <2>1 DEF Ended, Over
<1>3. CASE l # k
  BY <1>1, <1>3 DEF Ended, Over
<1> QED
  BY <1>2, <1>3

LEMMA ExpiresOver ==
    ASSUME Typed, OldIsOver, NEW k \in Challenges, ChallengeExpires(k)
    PROVE  OldIsOver'
<1>1. Ended => \A l \in Challenges : challenge'[l].status # "none" => Over(challenge'[l])
  BY StatusOver DEF ChallengeExpires
<1>2. Halfway => Halfway'
  BY DEF Halfway, Writing, At, Is, ChallengeExpires, history
<1>3. Ended => \A c \in Requests : Carries(req'[c]) => req'[c].loose \/ Over(req'[c])
  BY DEF Ended, ChallengeExpires
<1> QED
  BY <1>1, <1>2, <1>3, OldFrame DEF ChallengeExpires, history

LEMMA ResolveOver ==
    ASSUME Typed, OldIsOver, NEW c \in Requests, Resolve2FAChallenge(c)
    PROVE  OldIsOver'
<1> DEFINE k == req[c].challenge
<1>1. ~Writing(c) /\ ~Carries(Idle) /\ req' = [req EXCEPT ![c] = Idle]
  BY DEF Resolve2FAChallenge, At, Ends, Idle, Carries, Writing
<1>2. ASSUME Ended, NEW l \in Challenges, challenge'[l].status # "none"
      PROVE  Over(challenge'[l])
  <2>1. CASE challenge' = challenge
    BY <1>2, <2>1 DEF Ended
  <2>2. CASE challenge' # challenge
    <3>1. PICK status \in {"approved", "denied"} :
            /\ challenge[k].status # "none"
            /\ challenge' = [challenge EXCEPT ![k].status = status]
      BY <2>2, Zenon DEF Resolve2FAChallenge
    <3>2. k \in Challenges
      BY <2>2, <3>1 DEF Typed, TypeOK
    <3> QED
      BY <1>2, <3>1, <3>2, StatusOver
  <2> QED
    BY <2>1, <2>2
<1> QED
  BY <1>1, <1>2, OneMoves DEF Resolve2FAChallenge, history

LEMMA SetPasswordOver ==
    ASSUME Typed, OldIsOver, NEW c \in Requests, SetPassword(c)
    PROVE  OldIsOver'
<1>1. req[c].op \in {"password", "reset"}
  BY DEF SetPassword, At, Typed, Fits
<1>2. After(req[c].op)["set"] = "version"
  BY <1>1 DEF After
<1>3. req' = [req EXCEPT ![c] = [req[c] EXCEPT !.pc = "version", !.seen = {}, !.clock = 0]]
  BY <1>2 DEF SetPassword, Proceeds
<1>4. req \in [Requests -> Request]
  BY DEF Typed, TypeOK
<1>5. req'[c].pc = "version" /\ req'[c].op = req[c].op
  BY <1>3, <1>4 DEF Request
<1> QED
  BY <1>1, <1>5 DEF OldIsOver, Halfway, Writing, At, Is

LEMMA ReadClockOver ==
    ASSUME Typed, OldIsOver, NEW c \in Requests, ReadClock(c)
    PROVE  OldIsOver'
<1> DEFINE r == [req[c] EXCEPT !.pc = "land", !.clock = now]
<1>1. req[c] \in Request /\ req \in [Requests -> Request]
  BY DEF Typed, TypeOK
<1>2. req' = [req EXCEPT ![c] = r] /\ r.pc = "land" /\ r.op = req[c].op
  BY <1>1 DEF ReadClock, ChangedAt, Request
<1>3. req'[c].pc = "land" /\ req'[c].op = req[c].op
  BY <1>1, <1>2
<1>4. Writing(c) => Writing(c)'
  BY <1>3 DEF Writing, At, Is
<1>5. ~Carries(r)
  BY <1>2 DEF Carries
<1>6. UNCHANGED <<user, pairs, epoch, version, challenge, halfway>>
  BY DEF ReadClock, redis, history
<1> HIDE DEF r
<1> QED
  BY <1>2, <1>4, <1>5, <1>6, OneMoves, ChallengesStay

\* Once pw:ver is written, everything there is is from before.
LEMMA SetPasswordVersionOver ==
    ASSUME Typed, OldIsOver, NEW c \in Requests, SetPasswordVersion(c)
    PROVE  OldIsOver'
<1>0. Proceeds(c, "version") /\ UNCHANGED <<now, user, challenge, pairs>>
  BY DEF SetPasswordVersion
<1>1. PICK r \in Request : /\ r.pc \in {"members", "version", "clear", "idle"}
                           /\ req' = [req EXCEPT ![c] = r]
  BY <1>0, ProceedsTo
<1>2. CASE UNCHANGED <<version, epoch>> /\ Unwritten(c)
  <2>1. /\ Writing(c) => halfway'
        /\ halfway => halfway'
    BY <1>2 DEF Unwritten
  <2> QED
    BY <1>0, <1>1, <1>2, <2>1, OneMoves, ChallengesStay DEF Carries
<1>3. CASE epoch' = epoch + 1
  <2>1. epoch \in Nat /\ Minted' = Minted
    BY <1>0, <1>3 DEF Typed, TypeOK, Minted
  <2>2. \A p \in Minted : pairs[p].epoch \in Nat /\ pairs[p].epoch <= epoch
    BY PairType DEF Typed, Past, Pair
  <2>3. \A x \in Request : x.epoch \in Nat /\ x.epoch <= epoch
    BY <2>1 DEF Request
  <2>4. \A k \in Challenges : challenge[k].epoch \in Nat /\ challenge[k].epoch <= epoch
    BY <2>1 DEF Typed, TypeOK, Challenge
  <2>5. req' \in [Requests -> Request]
    BY <1>0, ProceedsType
  <2>6. Ended'
    <3>1. \A p \in Minted : Over(pairs[p])'
      BY <1>0, <1>3, <2>1, <2>2 DEF Over
    <3>2. \A d \in Requests : Over(req[d])'
      BY <1>3, <2>1, <2>3, <2>5 DEF Over
    <3>3. \A k \in Challenges : Over(challenge[k])'
      BY <1>0, <1>3, <2>1, <2>4 DEF Over
    <3> QED
      BY <2>1, <3>1, <3>2, <3>3 DEF Ended
  <2> QED
    BY <2>6 DEF OldIsOver
<1> QED
  BY <1>2, <1>3 DEF SetPasswordVersion

LEMMA MintOver ==
    ASSUME Typed, OldIsOver, NEW c \in Requests, Mint(c)
    PROVE  OldIsOver'
<1> DEFINE new == Len(pairs) + 1
<1>1. PICK e \in Pair :
        /\ e.iat = now /\ e.password = req[c].password /\ e.epoch = epoch
        /\ e.loose = (req[c].loose \/ req[c].epoch # epoch)
        /\ pairs' = Append(pairs, e)
        /\ req[c].pc = "mint"
  BY MintedPair
<1>2. /\ pairs \in Seq(Pair) /\ Len(pairs) \in Nat /\ epoch \in Nat
      /\ UNCHANGED <<now, user, version, challenge, epoch, halfway>>
      /\ req[c] \in Request /\ req \in [Requests -> Request]
  BY DEF Mint, Typed, TypeOK, redis
<1>3. /\ Len(pairs') = new /\ pairs'[new] = e
      /\ \A p \in 1..Len(pairs) : pairs'[p] = pairs[p]
  BY <1>1, <1>2
<1>4. \A p \in Minted' : p = new \/ p \in Minted
  BY <1>2, <1>3 DEF Minted
<1> DEFINE r == [Idle EXCEPT !.op = req[c].op, !.pc = "register",
                             !.browser = req[c].browser, !.pair = new]
<1>6. req' = [req EXCEPT ![c] = r] /\ ~Carries(r)
  BY DEF Mint, Idle, Carries
<1>7. Halfway => Halfway'
  <2>1. ~Writing(c)
    BY <1>1 DEF Writing, At
  <2> QED
    BY <1>2, <1>6, <2>1, HalfwayFrame
<1>8. Ended => Ended'
  <2> SUFFICES ASSUME Ended PROVE Ended'
    OBVIOUS
  <2>1. e.loose \/ (req[c].password < user.password => FALSE)
    <3>1. req[c].loose \/ Over(req[c])
      BY <1>1 DEF Ended, Carries
    <3>2. req[c].loose \/ req[c].epoch # epoch => e.loose
      BY <1>1, Zenon
    <3>3. req[c].epoch < epoch => req[c].epoch # epoch
      BY <1>2 DEF Request
    <3> QED
      BY <3>1, <3>2, <3>3 DEF Over
  <2>2. (\A p \in Minted : pairs[p].loose \/ Over(pairs[p]))'
    <3> SUFFICES ASSUME NEW p \in Minted' PROVE pairs'[p].loose \/ Over(pairs[p])'
      OBVIOUS
    <3>1. CASE p = new
      BY <1>1, <1>2, <1>3, <2>1, <3>1 DEF Over
    <3>2. CASE p \in Minted
      BY <1>2, <1>3, <3>2 DEF Over, Ended, Minted
    <3> QED
      BY <1>4, <3>1, <3>2
  <2>3. \A d \in Requests : Carries(req'[d]) => req'[d].loose \/ Over(req[d])'
    <3> SUFFICES ASSUME NEW d \in Requests, Carries(req'[d])
                 PROVE  req'[d].loose \/ Over(req[d])'
      OBVIOUS
    <3>1. d # c /\ req'[d] = req[d]
      BY <1>2, <1>6
    <3> QED
      BY <1>2, <3>1 DEF Over, Ended
  <2>4. \A k \in Challenges : challenge'[k].status # "none" => Over(challenge[k])'
    BY <1>2 DEF Over, Ended
  <2> QED
    BY <2>2, <2>3, <2>4 DEF Ended, Carries
<1> QED
  BY <1>7, <1>8 DEF OldIsOver

LEMMA AbandonOver ==
    ASSUME Typed, OldIsOver, NEW c \in Requests, Abandon(c)
    PROVE  OldIsOver'
<1>1. req' = [req EXCEPT ![c] = Idle] /\ ~Carries(Idle)
  BY DEF Abandon, Ends, Idle, Carries
<1>2. /\ Writing(c) => halfway'
      /\ halfway => halfway'
  BY DEF Abandon, Unwritten
<1> QED
  BY <1>1, <1>2, OneMoves, ChallengesStay DEF Abandon, redis

\* Steps of no request.
LEMMA StillOver ==
    ASSUME Typed, OldIsOver, UNCHANGED <<req, history, version, challenge>>,
           user'.password = user.password
    PROVE  OldIsOver'
<1>1. Halfway => Halfway'
  BY DEF Halfway, Writing, At, Is, history
<1>2. Ended => \A c \in Requests : Carries(req'[c]) => req'[c].loose \/ Over(req'[c])
  BY DEF Ended
<1> QED
  BY <1>1, <1>2, OldFrame, ChallengesStay DEF history

LEMMA OldIsOverInit == Init => OldIsOver
<1> SUFFICES ASSUME Init PROVE OldIsOver
  OBVIOUS
<1>1. Minted = {} /\ epoch = 0
  BY DEF Init, Minted
<1>2. \A c \in Requests : ~Carries(req[c])
  BY DEF Init, Idle, Carries
<1>3. \A k \in Challenges : challenge[k].status = "none"
  BY DEF Init, NoChallenge
<1> QED
  BY <1>1, <1>2, <1>3 DEF OldIsOver, Ended

LEMMA OldIsOverNext == Typed /\ OldIsOver /\ [Next]_vars => OldIsOver'
<1> SUFFICES ASSUME Typed, OldIsOver, [Next]_vars PROVE OldIsOver'
  OBVIOUS
<1>1. CASE UNCHANGED vars
  BY <1>1, StillOver DEF vars, redis, history
<1>2. ASSUME NEW c \in Requests, Continue(c) PROVE OldIsOver'
  BY <1>2, CreateOver, ConsumeOver, MintOver, AnswersOver, SetPasswordOver,
     ReadClockOver, SetPasswordVersionOver, ResolveOver DEF Continue
<1>3. ASSUME NEW b \in Browsers, ToggleTFA(b) PROVE OldIsOver'
  <2>1. user'.password = user.password
    BY <1>3 DEF ToggleTFA, Typed, TypeOK
  <2> QED
    BY <1>3, <2>1, StillOver DEF ToggleTFA, redis
<1>4. CASE Tick
  BY <1>4, StillOver DEF Tick, redis
<1> QED
  BY <1>1, <1>2, <1>3, <1>4, ArriveOver, AbandonOver, ExpiresOver DEF Next

\* A completed password change ends every session of an older password, for
\* any number of browsers and of requests under way, whatever fails or is cut
\* short in between, even if the refresh family is never revoked, and for good:
\* when pw:ver runs out, so has every token it was to outlive.  What is left
\* are the tokens minted between the clock reading for pw:ver, or in that very
\* second, and its write, and those given out for something checked before.
THEOREM OldPasswordGone == Spec => []OldPasswordIsOut
<1>1. Init => Typed /\ OldIsOver
  BY TypedInit, OldIsOverInit
<1>2. Typed /\ OldIsOver /\ [Next]_vars => (Typed /\ OldIsOver)'
  BY TypedNext, OldIsOverNext
<1>3. Typed /\ OldIsOver => OldPasswordIsOut
  BY OldPasswordFollows
<1> QED
  BY <1>1, <1>2, <1>3, PTL DEF Spec

-----------------------------------------------------------------------------
(* A refresh token is good for one answer.                                 *)

\* A request that has a session's next pair in hand, and that session.
InHand(r)  == (r.op = "refresh" /\ r.pc \in {"ban", "mint"}) \/ r.pc = "register"
ChainOf(r) == pairs[r.pair].chain

Numbered  == \A p \in Minted : pairs[p].chain <= p
OneKey    == \A p, q \in allowed : pairs[p].chain = pairs[q].chain => p = q
KeyOrHand == \A c \in Requests, p \in allowed :
                InHand(req[c]) => pairs[p].chain # ChainOf(req[c])
OneHand   == \A c, d \in Requests :
                InHand(req[c]) /\ InHand(req[d]) /\ ChainOf(req[c]) = ChainOf(req[d]) => c = d

OneHolder == Numbered /\ OneKey /\ KeyOrHand /\ OneHand

LEMMA AtMostOne ==
    ASSUME NEW S, \A x, y \in S : x = y
    PROVE  /\ Cardinality(S) \in 0..1
           /\ S = {} => Cardinality(S) = 0
<1>1. CASE S = {}
  BY <1>1, FS_EmptySet
<1>2. ASSUME NEW x \in S PROVE Cardinality(S) = 1
  <2>1. S = {x}
    OBVIOUS
  <2> QED
    BY <2>1, FS_Singleton
<1> QED
  BY <1>1, <1>2

LEMMA SingleUseFollows == Typed /\ OneHolder => SingleUse
<1> SUFFICES ASSUME Typed, OneHolder, NEW r \in Chains
             PROVE  Cardinality({p \in allowed : pairs[p].chain = r})
                        + Cardinality(Turning(r)) <= 1
  BY DEF SingleUse
<1> DEFINE keys == {p \in allowed : pairs[p].chain = r}
<1>1. Turning(r) = {c \in Requests : InHand(req[c]) /\ ChainOf(req[c]) = r}
  BY DEF Turning, InHand, ChainOf
<1>2. \A p, q \in keys : p = q
  BY DEF OneHolder, OneKey
<1>3. \A c, d \in Turning(r) : c = d
  BY <1>1 DEF OneHolder, OneHand
<1>4. keys = {} \/ Turning(r) = {}
  BY <1>1 DEF OneHolder, KeyOrHand
<1>5. Cardinality(keys) \in 0..1 /\ (keys = {} => Cardinality(keys) = 0)
  BY <1>2, AtMostOne
<1>6. /\ Cardinality(Turning(r)) \in 0..1
      /\ Turning(r) = {} => Cardinality(Turning(r)) = 0
  BY <1>3, AtMostOne
<1> QED
  BY <1>4, <1>5, <1>6

\* A step that mints and registers nothing, of a request that has a pair in
\* hand afterwards only if it was that pair before.
LEMMA OneMovesOn ==
    ASSUME Typed, OneHolder, NEW c \in Requests, NEW r, req' = [req EXCEPT ![c] = r],
           pairs' = pairs, allowed' \subseteq allowed,
           InHand(r) => InHand(req[c]) /\ r.pair = req[c].pair
    PROVE  OneHolder'
<1>1. Minted' = Minted
  BY DEF Minted
<1>2. \A d \in Requests : InHand(req'[d]) =>
        InHand(req[d]) /\ ChainOf(req[d])' = ChainOf(req[d])
  BY DEF Typed, TypeOK, ChainOf
<1>3. Numbered' /\ OneKey'
  BY <1>1 DEF OneHolder, Numbered, OneKey
<1>4. KeyOrHand'
  BY <1>2 DEF OneHolder, KeyOrHand, InHand
<1>5. OneHand'
  BY <1>2 DEF OneHolder, OneHand, InHand
<1> QED
  BY <1>3, <1>4, <1>5 DEF OneHolder

LEMMA OneStands ==
    ASSUME Typed, OneHolder, UNCHANGED <<req, pairs>>, allowed' \subseteq allowed
    PROVE  OneHolder'
BY DEF OneHolder, Numbered, OneKey, KeyOrHand, OneHand, InHand, ChainOf, Minted

LEMMA OneProceeds ==
    ASSUME Typed, OneHolder, NEW c \in Requests, NEW step \in {"start", "set", "version", "drop"},
           Proceeds(c, step),
           step = "start" => req[c].op = "refresh", step = "set" => req[c].op # "refresh",
           pairs' = pairs, allowed' \subseteq allowed
    PROVE  OneHolder'
<1>1. PICK r \in Request : /\ r.pc \in {"members", "version", "clear", "idle"}
                           /\ req' = [req EXCEPT ![c] = r]
  BY ProceedsTo
<1> QED
  BY <1>1, OneMovesOn DEF InHand

\* Nobody arrives with a pair in hand, and who comes to refresh has a pair that
\* may be refreshed.
LEMMA ArrivesAs ==
    ASSUME Typed, NEW c \in Requests, Arrive(c)
    PROVE  /\ UNCHANGED <<now, version, pairs>> /\ allowed' \subseteq allowed
           /\ \E s : /\ req' = [req EXCEPT ![c] = s] /\ ~InHand(s)
                     /\ s.pc = "consume" => Refreshable(s.pair)
<1>1. UNCHANGED <<now, version, pairs>> /\ allowed' \subseteq allowed
  BY DEF Arrive, Login, Refresh, Logout, ChangePassword, TFACheck, ResetPassword, Callback,
         BanUser, UnbanUser, UpdateBanStatus, redis, history
<1> SUFFICES ASSUME \A s : req' = [req EXCEPT ![c] = s] => ~(~InHand(s) /\ (s.pc = "consume" => Refreshable(s.pair)))
             PROVE  FALSE
  BY <1>1
<1>2. ASSUME NEW b \in Browsers, Login(c, b) PROVE FALSE
  <2>1. PICK pc \in {"challenge", "mint"} : pc = IF user.tfa THEN "challenge" ELSE "mint"
    BY Zenon
  <2> DEFINE r == [Idle EXCEPT !.op = "login", !.pc = pc,
                       !.browser = b, !.password = user.password, !.epoch = epoch]
  <2>2. req' = [req EXCEPT ![c] = r]
    BY <1>2, <2>1, Zenon DEF Login
  <2>3. r.op = "login" /\ r.pc = pc
    BY DEF Idle
  <2> QED
    BY <2>1, <2>2, <2>3 DEF InHand
<1>3. ASSUME NEW b \in Browsers, Refresh(c, b) PROVE FALSE
  <2>1. PICK p, loose :
        /\ Refreshable(p)
        /\ req' = [req EXCEPT ![c] = [Idle EXCEPT
            !.op = "refresh", !.pc = "consume", !.browser = b, !.pair = p,
            !.password = pairs[p].password, !.epoch = epoch, !.loose = loose]]
    BY <1>3, Zenon DEF Refresh
  <2> DEFINE r == [Idle EXCEPT
            !.op = "refresh", !.pc = "consume", !.browser = b, !.pair = p,
            !.password = pairs[p].password, !.epoch = epoch, !.loose = loose]
  <2>2. req' = [req EXCEPT ![c] = r] /\ Refreshable(p)
    BY <2>1
  <2>3. r.pc = "consume" /\ r.pair = p
    BY DEF Idle
  <2> HIDE DEF r
  <2>4. ~InHand(r)
    BY <2>3 DEF InHand
  <2> QED
    BY <2>2, <2>3, <2>4, Zenon
<1>4. ASSUME NEW b \in Browsers, NEW k \in Challenges, TFACheck(c, b, k) PROVE FALSE
  <2> DEFINE r == [Idle EXCEPT !.op = "poll", !.pc = "mint", !.browser = b,
                       !.password = challenge[k].password, !.epoch = challenge[k].epoch]
  <2>1. req' = [req EXCEPT ![c] = r]
    BY <1>4 DEF TFACheck
  <2>2. r.op = "poll" /\ r.pc = "mint"
    BY DEF Idle
  <2> HIDE DEF r
  <2> QED
    BY <2>1, <2>2 DEF InHand
<1>5. CASE (\E b \in Browsers : ChangePassword(c, b)) \/ ResetPassword(c)
  <2>1. After("password").start = "set" /\ After("reset").start = "set"
    BY DEF After
  <2>2. PICK op \in {"password", "reset"} : req' = [req EXCEPT ![c] = [Idle EXCEPT !.op = op, !.pc = "set"]]
    BY <1>5, <2>1 DEF ChangePassword, ResetPassword
  <2> DEFINE r == [Idle EXCEPT !.op = op, !.pc = "set"]
  <2>3. req' = [req EXCEPT ![c] = r]
    BY <2>2
  <2>4. r.op = op /\ r.pc = "set"
    BY DEF Idle
  <2> HIDE DEF r
  <2> QED
    BY <2>3, <2>4 DEF InHand
<1>6. ASSUME NEW b \in Browsers, Logout(c, b) PROVE FALSE
  <2> DEFINE r == [Idle EXCEPT !.op = "logout", !.pc = "clear", !.browser = b]
  <2>1. req' = [req EXCEPT ![c] = r]
    BY <1>6 DEF Logout
  <2>2. r.op = "logout" /\ r.pc = "clear"
    BY DEF Idle
  <2> HIDE DEF r
  <2> QED
    BY <2>1, <2>2 DEF InHand
<1>7. ASSUME NEW k \in Challenges, NEW verdict \in {"approve", "deny"}, Callback(c, verdict, k) PROVE FALSE
  <2> DEFINE r == [Idle EXCEPT !.op = verdict, !.pc = "resolve", !.challenge = k]
  <2>1. req' = [req EXCEPT ![c] = r]
    BY <1>7 DEF Callback
  <2>2. r.op = verdict /\ r.pc = "resolve"
    BY DEF Idle
  <2> HIDE DEF r
  <2> QED
    BY <2>1, <2>2 DEF InHand
<1>8. ASSUME NEW op, UpdateBanStatus(c, op) PROVE FALSE
  <2> DEFINE r == [Idle EXCEPT !.op = op, !.pc = "banKey"]
  <2>1. req' = [req EXCEPT ![c] = r]
    BY <1>8 DEF UpdateBanStatus
  <2>2. r.op = op /\ r.pc = "banKey"
    BY DEF Idle
  <2> HIDE DEF r
  <2> QED
    BY <2>1, <2>2 DEF InHand
<1> QED
  BY <1>2, <1>3, <1>4, <1>5, <1>6, <1>7, <1>8 DEF Arrive, BanUser, UnbanUser

LEMMA OneArrives ==
    ASSUME Typed, OneHolder, NEW c \in Requests, Arrive(c)
    PROVE  OneHolder'
BY ArrivesAs, OneMovesOn

\* The request that uses a key up has the session's next pair in hand.
LEMMA OneConsumes ==
    ASSUME Typed, OneHolder, NEW c \in Requests, Consume(c)
    PROVE  OneHolder'
<1> DEFINE p == req[c].pair
<1>1. req[c].op = "refresh" /\ pairs' = pairs /\ Minted' = Minted
  BY DEF Consume, At, Typed, Fits, history, Minted
<1>2. CASE p \notin allowed
  BY <1>1, <1>2, OneProceeds DEF Consume
<1>3. CASE p \in allowed
  <2>1. allowed' = allowed \ {p} /\ req' = [req EXCEPT ![c].pc = "ban"]
    BY <1>3 DEF Consume, Consumed, GoTo
  <2>2. req'[c].pair = p /\ \A d \in Requests \ {c} : req'[d] = req[d]
    BY <2>1 DEF Typed, TypeOK, Request
  <2>3. Numbered' /\ OneKey'
    BY <1>1, <2>1 DEF OneHolder, Numbered, OneKey
  <2>4. \A d \in Requests \ {c} : InHand(req'[d]) => pairs[p].chain # ChainOf(req[d])'
    BY <1>1, <1>3, <2>2 DEF OneHolder, KeyOrHand, ChainOf
  <2>5. KeyOrHand'
    <3> SUFFICES ASSUME NEW d \in Requests, NEW q \in allowed', InHand(req'[d])
                 PROVE  pairs'[q].chain # ChainOf(req[d])'
      BY DEF KeyOrHand, InHand
    <3>1. q \in allowed /\ q # p
      BY <2>1
    <3>2. CASE d = c
      BY <1>1, <1>3, <2>2, <3>1, <3>2 DEF OneHolder, OneKey, ChainOf
    <3>3. CASE d # c
      BY <1>1, <2>2, <3>1, <3>3 DEF OneHolder, KeyOrHand, ChainOf
    <3> QED
      BY <3>2, <3>3
  <2>6. OneHand'
    <3> SUFFICES ASSUME NEW d \in Requests, NEW e \in Requests, d # e,
                        InHand(req'[d]), InHand(req'[e])
                 PROVE  ChainOf(req[d])' # ChainOf(req[e])'
      BY DEF OneHand, InHand
    <3>1. ChainOf(req[c])' = pairs[p].chain
      BY <1>1, <2>2 DEF ChainOf
    <3>2. CASE d = c \/ e = c
      BY <2>4, <3>1, <3>2
    <3>3. CASE d # c /\ e # c
      BY <1>1, <2>2, <3>3 DEF OneHolder, OneHand, ChainOf
    <3> QED
      BY <3>2, <3>3
  <2> QED
    BY <2>3, <2>5, <2>6 DEF OneHolder
<1> QED
  BY <1>2, <1>3

\* A registered pair is a key, and in hand no more.
LEMMA OneRegisters ==
    ASSUME Typed, OneHolder, NEW c \in Requests, RegisterRefreshToken(c)
    PROVE  OneHolder'
<1> DEFINE p == req[c].pair
<1>1. /\ InHand(req[c]) /\ pairs' = pairs /\ Minted' = Minted
      /\ req' = [req EXCEPT ![c].pc = "reply"]
  BY DEF RegisterRefreshToken, At, GoTo, InHand, history, Minted
<1>2. ~InHand(req'[c]) /\ \A d \in Requests \ {c} : req'[d] = req[d]
  BY <1>1 DEF Typed, TypeOK, Request, InHand
<1>3. CASE allowed' = allowed
  <2>1. /\ [req[c] EXCEPT !.pc = "reply"].pc = "reply"
        /\ req' = [req EXCEPT ![c] = [req[c] EXCEPT !.pc = "reply"]]
    BY <1>1 DEF Typed, TypeOK, Request
  <2> QED
    BY <1>1, <1>3, <2>1, OneMovesOn DEF InHand
<1>4. CASE allowed' = allowed \cup {p}
  <2>1. \A q \in allowed : pairs[q].chain # pairs[p].chain
    BY <1>1 DEF OneHolder, KeyOrHand, ChainOf
  <2>2. Numbered' /\ OneKey'
    BY <1>1, <1>4, <2>1 DEF OneHolder, Numbered, OneKey
  <2>3. KeyOrHand'
    <3> SUFFICES ASSUME NEW d \in Requests, NEW q \in allowed', InHand(req'[d])
                 PROVE  pairs'[q].chain # ChainOf(req[d])'
      BY DEF KeyOrHand, InHand
    <3>1. d # c /\ req'[d] = req[d]
      BY <1>2
    <3>2. CASE q = p
      BY <1>1, <3>1, <3>2 DEF OneHolder, OneHand, ChainOf
    <3>3. CASE q \in allowed
      BY <1>1, <3>1, <3>3 DEF OneHolder, KeyOrHand, ChainOf
    <3> QED
      BY <1>4, <3>2, <3>3
  <2>4. OneHand'
    <3> SUFFICES ASSUME NEW d \in Requests, NEW e \in Requests,
                        InHand(req'[d]), InHand(req'[e]),
                        ChainOf(req[d])' = ChainOf(req[e])'
                 PROVE  d = e
      BY DEF OneHand, InHand
    <3>1. req'[d] = req[d] /\ req'[e] = req[e]
      BY <1>2
    <3> QED
      BY <1>1, <3>1 DEF OneHolder, OneHand, ChainOf
  <2> QED
    BY <2>2, <2>3, <2>4 DEF OneHolder
<1> QED
  BY <1>3, <1>4 DEF RegisterRefreshToken

\* A new pair continues the session in hand, or begins one with a number that
\* none had.
LEMMA OneMints ==
    ASSUME Typed, OneHolder, NEW c \in Requests, Mint(c)
    PROVE  OneHolder'
<1> DEFINE new == Len(pairs) + 1
<1>1. /\ pairs \in Seq(Pair) /\ Len(pairs) \in Nat /\ req \in [Requests -> Request]
      /\ allowed' = allowed /\ allowed \subseteq Minted /\ Minted = 1..Len(pairs)
  BY DEF Typed, TypeOK, Mint, redis, Minted
<1>2. PICK e \in Pair :
        /\ e.chain = IF req[c].op = "refresh" THEN ChainOf(req[c]) ELSE new
        /\ pairs' = Append(pairs, e)
        /\ req[c].pc = "mint"
  BY MintedPair DEF Is, ChainOf
<1>3. /\ Minted' = Minted \cup {new} /\ pairs'[new] = e
      /\ \A p \in Minted : pairs'[p] = pairs[p]
  BY <1>1, <1>2 DEF Minted
<1>4. /\ req'[c].pair = new /\ InHand(req'[c])
      /\ \A d \in Requests \ {c} : req'[d] = req[d]
  BY <1>1 DEF Mint, Idle, InHand
<1>5. \A d \in Requests : InHand(req[d]) => req[d].pair \in Minted
  BY DEF Typed, TypeOK, Fits, InHand, Request
<1>6. ChainOf(req[c])' = e.chain
  BY <1>3, <1>4 DEF ChainOf
<1>7. \A d \in Requests \ {c} : InHand(req'[d]) =>
        InHand(req[d]) /\ ChainOf(req[d])' = ChainOf(req[d])
  <2> SUFFICES ASSUME NEW d \in Requests \ {c}, InHand(req'[d])
               PROVE  InHand(req[d]) /\ ChainOf(req[d])' = ChainOf(req[d])
    OBVIOUS
  <2>1. req'[d] = req[d] /\ InHand(req[d])
    BY <1>4
  <2>2. req[d].pair \in Minted
    BY <1>5, <2>1
  <2>3. pairs'[req[d].pair] = pairs[req[d].pair]
    BY <1>3, <2>2
  <2> QED
    BY <2>1, <2>3 DEF ChainOf
<1>8. \A p \in Minted : pairs[p].chain \in Nat /\ pairs[p].chain < new
  <2> SUFFICES ASSUME NEW p \in Minted PROVE pairs[p].chain \in Nat /\ pairs[p].chain < new
    OBVIOUS
  <2>1. TypeOK
    BY DEF Typed
  <2>2. pairs[p] \in Pair
    BY <2>1, PairType, Zenon
  <2>3. pairs[p].chain \in Nat
    BY <2>2, ConstantTypes DEF Pair
  <2>4. pairs[p].chain <= p /\ p \in 1..Len(pairs)
    BY <1>1 DEF OneHolder, Numbered
  <2> QED
    BY <1>1, <2>3, <2>4
<1>9. req[c].op = "refresh" => InHand(req[c])
  BY <1>2 DEF InHand
<1>10. Numbered'
  <2>1. e.chain <= new
    BY <1>1, <1>2, <1>5, <1>8, <1>9 DEF ChainOf
  <2> QED
    BY <1>3, <2>1 DEF OneHolder, Numbered
<1>11. OneKey'
  BY <1>1, <1>3 DEF OneHolder, OneKey
<1>12. \A p \in allowed : pairs[p].chain # e.chain
  BY <1>1, <1>2, <1>8, <1>9 DEF OneHolder, KeyOrHand
<1>13. KeyOrHand'
  <2> SUFFICES ASSUME NEW d \in Requests, NEW q \in allowed', InHand(req'[d])
               PROVE  pairs'[q].chain # ChainOf(req[d])'
    BY DEF KeyOrHand, InHand
  <2>1. q \in allowed /\ pairs'[q] = pairs[q]
    BY <1>1, <1>3
  <2>2. CASE d = c
    BY <1>6, <1>12, <2>1, <2>2
  <2>3. CASE d # c
    BY <1>7, <2>1, <2>3 DEF OneHolder, KeyOrHand
  <2> QED
    BY <2>2, <2>3
<1>14. \A d \in Requests \ {c} : InHand(req[d]) => ChainOf(req[d]) # e.chain
  <2> SUFFICES ASSUME NEW d \in Requests \ {c}, InHand(req[d]) PROVE ChainOf(req[d]) # e.chain
    OBVIOUS
  <2>1. CASE req[c].op = "refresh"
    BY <1>2, <1>9, <2>1 DEF OneHolder, OneHand
  <2>2. CASE req[c].op # "refresh"
    BY <1>1, <1>2, <1>5, <1>8, <2>2 DEF ChainOf
  <2> QED
    BY <2>1, <2>2
<1>15. OneHand'
  <2> SUFFICES ASSUME NEW d \in Requests, NEW f \in Requests, d # f,
                      InHand(req'[d]), InHand(req'[f])
               PROVE  ChainOf(req[d])' # ChainOf(req[f])'
    BY DEF OneHand, InHand
  <2>1. CASE d = c \/ f = c
    BY <1>6, <1>7, <1>14, <2>1
  <2>2. CASE d # c /\ f # c
    BY <1>7, <2>2 DEF OneHolder, OneHand
  <2> QED
    BY <2>1, <2>2
<1> QED
  BY <1>10, <1>11, <1>13, <1>15 DEF OneHolder

\* The remaining steps of a handler take no pair in hand.
Remains(c) ==
    \/ \E k \in Challenges : Create2FAChallenge(c, k)
    \/ SetAuthCookies(c) \/ ClearAuthCookies(c) \/ Resolve2FAChallenge(c) \/ SetBanKey(c)
    \/ CheckBan(c) \/ SetPassword(c) \/ ReadClock(c) \/ SetPasswordVersion(c)
    \/ Members(c) \/ Drop(c) \/ Abandon(c)

\* pw:ver stays, or is written now with a time that was read before.
KeyMoves ==
    \/ version' = version
    \/ version'.written = now /\ version'.time \in Nat

LEMMA RemainsAs ==
    ASSUME Typed, NEW c \in Requests, Remains(c)
    PROVE  /\ UNCHANGED <<now, pairs>> /\ allowed' \subseteq allowed /\ KeyMoves
           /\ \E s : /\ req' = [req EXCEPT ![c] = s] /\ s.pc # "consume"
                     /\ InHand(s) => InHand(req[c]) /\ s.pair = req[c].pair
<1>0. req[c].clock \in Nat
  BY ConstantTypes DEF Typed, TypeOK, Request
<1>1. UNCHANGED <<now, pairs>> /\ allowed' \subseteq allowed /\ KeyMoves
  BY <1>0 DEF Remains, Create2FAChallenge, SetAuthCookies, ClearAuthCookies, Resolve2FAChallenge,
         SetBanKey, CheckBan, SetPassword, ReadClock, SetPasswordVersion, Members, Drop,
         Abandon, redis, history, KeyMoves
<1> SUFFICES ASSUME \A s : req' = [req EXCEPT ![c] = s] => ~(s.pc # "consume" /\ (InHand(s) => InHand(req[c]) /\ s.pair = req[c].pair))
             PROVE  FALSE
  BY <1>1
<1>2. ASSUME Ends(c) PROVE FALSE
  <2>1. req' = [req EXCEPT ![c] = Idle] /\ Idle.pc = "idle"
    BY <1>2 DEF Ends, Idle
  <2> QED
    BY <2>1 DEF InHand
<1>3. ASSUME NEW step \in {"set", "version", "drop"}, Proceeds(c, step),
             step = "set" => req[c].op # "refresh"
      PROVE  FALSE
  <2>1. PICK r \in Request : /\ r.pc \in {"members", "version", "clear", "idle"}
                             /\ req' = [req EXCEPT ![c] = r]
    BY <1>3, ProceedsTo
  <2> QED
    BY <2>1 DEF InHand
<1>4. CASE \/ (\E k \in Challenges : Create2FAChallenge(c, k))
           \/ SetAuthCookies(c) \/ ClearAuthCookies(c)
           \/ Resolve2FAChallenge(c) \/ SetBanKey(c) \/ Abandon(c)
  BY <1>2, <1>4 DEF Create2FAChallenge, SetAuthCookies, ClearAuthCookies,
     Resolve2FAChallenge, SetBanKey, Abandon
<1>5. CASE CheckBan(c)
  <2>1. CASE GoTo(c, "mint")
    <3> DEFINE r == [req[c] EXCEPT !.pc = "mint"]
    <3>1. r.op = req[c].op /\ r.pair = req[c].pair /\ r.pc = "mint" /\ req' = [req EXCEPT ![c] = r]
      BY <2>1 DEF GoTo, Typed, TypeOK, Request
    <3>2. req[c].pc = "ban"
      BY <1>5 DEF CheckBan, At
    <3> HIDE DEF r
    <3> QED
      BY <3>1, <3>2 DEF InHand
  <2> QED
    BY <1>2, <1>5, <2>1 DEF CheckBan
<1>6. CASE SetPassword(c)
  <2>1. req[c].op # "refresh"
    BY <1>6 DEF SetPassword, At, Typed, Fits
  <2> QED
    BY <1>3, <1>6, <2>1 DEF SetPassword
<1>7. CASE SetPasswordVersion(c)
  BY <1>3, <1>7 DEF SetPasswordVersion
<1>10. CASE ReadClock(c)
  <2> DEFINE r == [req[c] EXCEPT !.pc = "land", !.clock = now]
  <2>1. req' = [req EXCEPT ![c] = r] /\ r.pc = "land"
    BY <1>10 DEF ReadClock, ChangedAt, Typed, TypeOK, Request
  <2> HIDE DEF r
  <2> QED
    BY <2>1 DEF InHand
<1>8. CASE Drop(c)
  BY <1>3, <1>8 DEF Drop
<1>9. CASE Members(c)
  <2>1. CASE req' = [req EXCEPT ![c].seen = family, ![c].pc = "drop"]
    <3> DEFINE r == [req[c] EXCEPT !.seen = family, !.pc = "drop"]
    <3>1. req' = [req EXCEPT ![c] = r] /\ r.pc = "drop"
      BY <2>1 DEF Typed, TypeOK, Request
    <3> HIDE DEF r
    <3> QED
      BY <3>1 DEF InHand
  <2> QED
    BY <1>3, <1>9, <2>1 DEF Members
<1> QED
  BY <1>4, <1>5, <1>6, <1>7, <1>8, <1>9, <1>10 DEF Remains

\* Every step of a request.
LEMMA RequestSplit ==
    ASSUME NEW c \in Requests, Continue(c) \/ Abandon(c)
    PROVE  Consume(c) \/ RegisterRefreshToken(c) \/ Mint(c) \/ Remains(c)
BY DEF Continue, Remains

LEMMA OneContinues ==
    ASSUME Typed, OneHolder, NEW c \in Requests, Continue(c) \/ Abandon(c)
    PROVE  OneHolder'
<1>1. CASE Remains(c)
  BY <1>1, RemainsAs, OneMovesOn
<1> QED
  BY <1>1, RequestSplit, OneConsumes, OneRegisters, OneMints

LEMMA OneHolderInit == Init => OneHolder
BY DEF Init, OneHolder, Numbered, OneKey, KeyOrHand, OneHand, InHand, Idle, Minted

LEMMA OneHolderNext == Typed /\ OneHolder /\ [Next]_vars => OneHolder'
<1> SUFFICES ASSUME Typed, OneHolder, [Next]_vars PROVE OneHolder'
  OBVIOUS
<1>1. CASE UNCHANGED vars
  BY <1>1, OneStands DEF vars, redis, history
<1>2. ASSUME (\E b \in Browsers : ToggleTFA(b)) \/ (\E k \in Challenges : ChallengeExpires(k))
             \/ Tick
      PROVE  OneHolder'
  BY <1>2, OneStands DEF ToggleTFA, ChallengeExpires, Tick, redis, history
<1> QED
  BY <1>1, <1>2, OneArrives, OneContinues DEF Next

\* A refresh token is good for one answer, for any number of browsers, tabs,
\* retries and requests under way, whatever fails or is cut short: a session
\* never has two pairs that could be refreshed, counting the one that a
\* request has used up and not yet replaced.
THEOREM RefreshOnce == Spec => []SingleUse
<1>1. Init => Typed /\ OneHolder
  BY TypedInit, OneHolderInit
<1>2. Typed /\ OneHolder /\ [Next]_vars => (Typed /\ OneHolder)'
  BY TypedNext, OneHolderNext
<1>3. Typed /\ OneHolder => SingleUse
  BY SingleUseFollows
<1> QED
  BY <1>1, <1>2, <1>3, PTL DEF Spec

-----------------------------------------------------------------------------
(* A ban outlives what it is to keep out.                                  *)

\* Whoever is banned is not served under /api with a token of before the ban,
\* neither while the ban key lives nor after it has run out, since no token of
\* before lives longer; by then none is good for a refresh or under /api/admin
\* either (SetBanKey with RefreshTTL in middleware.go).
THEOREM BannedGone == Spec => []BannedIsOut
<1>1. Typed => BannedIsOut
  <2> SUFFICES ASSUME Typed, banKey > 0, NEW p \in DOMAIN pairs, pairs[p].iat <= banKey
               PROVE  ~Served(p) /\ (Refreshable(p) \/ AdminServed(p) => Barred)
    BY DEF BannedIsOut
  <2>1. p \in Minted
    BY DEF Typed, TypeOK, Minted
  <2>2. /\ pairs[p].iat \in Nat /\ now \in Nat /\ banKey \in Nat
        /\ AccessTTL \in Nat /\ RefreshTTL \in Nat /\ AccessTTL <= RefreshTTL
    <3>1. TypeOK
      BY DEF Typed
    <3>2. pairs[p] \in Pair
      BY <2>1, <3>1, PairType, Zenon
    <3>3. pairs[p].iat \in Nat
      BY <3>2 DEF Pair
    <3>4. now \in Nat /\ banKey \in Nat
      BY <3>1, ConstantTypes DEF TypeOK
    <3> QED
      BY <3>3, <3>4, ConstantTypes
  <2>3. CASE Barred
    BY <2>3 DEF Served
  <2>4. CASE ~Barred
    <3>1. now >= banKey + RefreshTTL
      BY <2>2, <2>4 DEF Barred, BanTTL
    <3>2. ~(now < pairs[p].iat + RefreshTTL) /\ ~(now < pairs[p].iat + AccessTTL)
      BY <2>2, <3>1
    <3> QED
      BY <3>2, Zenon DEF Served, AdminServed, Authenticated, Refreshable
  <2> QED
    BY <2>3, <2>4
<1>2. Spec => []Typed
  BY TypedInit, TypedNext, PTL DEF Spec
<1> QED
  BY <1>1, <1>2, PTL

-----------------------------------------------------------------------------
(* A session that has ended does not come back.                            *)

\* A request that is about to use a key up.
Waiting(r) == r.op = "refresh" /\ r.pc = "consume"

\* The three ways a session is open.
LEMMA OpenMeans ==
    ASSUME NEW r
    PROVE  Open(r) <=> \/ \E p \in allowed : pairs[p].chain = r /\ Refreshable(p)
                       \/ \E c \in Requests : /\ Waiting(req[c]) /\ req[c].pair \in allowed
                                              /\ ChainOf(req[c]) = r
                       \/ \E c \in Requests : InHand(req[c]) /\ ChainOf(req[c]) = r
<1>1. Turning(r) = {c \in Requests : InHand(req[c]) /\ ChainOf(req[c]) = r}
  BY DEF Turning, InHand, ChainOf
<1> QED
  BY <1>1 DEF Open, Waiting, ChainOf

\* What opens a session in a step.
LEMMA OpenedBy ==
    ASSUME NEW r,
           \A p \in allowed' : pairs'[p].chain = r /\ Refreshable(p)' => Open(r),
           \A c \in Requests : Waiting(req'[c]) /\ req'[c].pair \in allowed'
                                   /\ ChainOf(req[c])' = r => Open(r),
           \A c \in Requests : InHand(req'[c]) /\ ChainOf(req[c])' = r => Open(r)
    PROVE  Open(r)' => Open(r)
<1> SUFFICES ASSUME Open(r)' PROVE Open(r)
  OBVIOUS
<1>1. \/ \E p \in allowed' : pairs'[p].chain = r /\ Refreshable(p)'
      \/ \E c \in Requests : /\ Waiting(req'[c]) /\ req'[c].pair \in allowed'
                             /\ ChainOf(req[c])' = r
      \/ \E c \in Requests : InHand(req'[c]) /\ ChainOf(req[c])' = r
  BY DEF Open, Turning, Waiting, InHand, ChainOf
<1> QED
  BY <1>1

\* A pair that cannot be refreshed never can be again, unless pw:ver goes back:
\* each write gives the key a new life, which outlasts the pair.
LEMMA RefreshableFalls ==
    ASSUME Typed, NEW p \in Minted, pairs'[p] = pairs[p], Refreshable(p)',
           \/ version' = version /\ now' \in {now, now + 1}
           \/ KeyMoves /\ version'.time >= version.time /\ now' = now
    PROVE  Refreshable(p)
<1>1. /\ pairs[p].iat \in Nat /\ now \in Nat
      /\ version.time \in Nat /\ version.written \in Nat /\ version.time <= version.written
      /\ RefreshTTL \in Nat \ {0}
  <2>1. TypeOK
    BY DEF Typed
  <2>2. pairs[p] \in Pair
    BY <2>1, PairType, Zenon
  <2> QED
    BY <2>1, <2>2, ConstantTypes DEF TypeOK, Pair, Version
<1>2. /\ now' < pairs[p].iat + RefreshTTL
      /\ ~(now' < version'.written + RefreshTTL /\ pairs[p].iat < version'.time)
  BY DEF Refreshable, Stale, VersionTTL
<1>3. now < pairs[p].iat + RefreshTTL
  BY <1>1, <1>2
<1>4. ~(now < version.written + RefreshTTL /\ pairs[p].iat < version.time)
  <2>1. CASE version' = version /\ now' \in {now, now + 1}
    BY <1>1, <1>2, <2>1
  <2>2. CASE /\ version'.written = now /\ version'.time \in Nat
             /\ version'.time >= version.time /\ now' = now
    BY <1>1, <1>2, <2>2
  <2> QED
    BY <2>1, <2>2 DEF KeyMoves
<1> QED
  BY <1>3, <1>4 DEF Refreshable, Stale, VersionTTL

\* A key that is not written moves as one that is written may.
LEMMA KeyStands ==
    ASSUME Typed, version' = version
    PROVE  KeyMoves /\ version'.time >= version.time
<1>1. version.time \in Nat
  BY ConstantTypes DEF Typed, TypeOK, Version
<1> QED
  BY <1>1 DEF KeyMoves

\* A step that mints and registers nothing, of a request that holds afterwards
\* only what it held or a pair that may be refreshed.
LEMMA OpenMovesOn ==
    ASSUME Typed, NEW c \in Requests, NEW s, req' = [req EXCEPT ![c] = s],
           pairs' = pairs, allowed' \subseteq allowed, now' = now,
           KeyMoves, version'.time >= version.time,
           InHand(s) => InHand(req[c]) /\ s.pair = req[c].pair,
           s.pc = "consume" => Refreshable(s.pair),
           NEW r
    PROVE  Open(r)' => Open(r)
<1>1. /\ allowed \subseteq Minted /\ req'[c] = s
      /\ \A d \in Requests \ {c} : req'[d] = req[d]
  BY DEF Typed, TypeOK
<1>2. ASSUME NEW p \in allowed', pairs'[p].chain = r, Refreshable(p)'
      PROVE  Open(r)
  <2>1. p \in allowed /\ Refreshable(p)
    BY <1>1, <1>2, RefreshableFalls
  <2> QED
    BY <1>2, <2>1, OpenMeans
<1>3. ASSUME NEW d \in Requests, Waiting(req'[d]), req'[d].pair \in allowed', ChainOf(req[d])' = r
      PROVE  Open(r)
  <2>1. CASE d = c
    <3>1. Refreshable(s.pair) /\ s.pair \in allowed /\ pairs[s.pair].chain = r
      BY <1>1, <1>3, <2>1 DEF Waiting, ChainOf
    <3> QED
      BY <3>1, OpenMeans
  <2>2. CASE d # c
    <3>1. Waiting(req[d]) /\ req[d].pair \in allowed /\ ChainOf(req[d]) = r
      BY <1>1, <1>3, <2>2 DEF ChainOf
    <3> QED
      BY <3>1, OpenMeans
  <2> QED
    BY <2>1, <2>2
<1>4. ASSUME NEW d \in Requests, InHand(req'[d]), ChainOf(req[d])' = r
      PROVE  Open(r)
  <2>1. InHand(req[d]) /\ ChainOf(req[d]) = r
    BY <1>1, <1>4 DEF ChainOf
  <2> QED
    BY <2>1, OpenMeans
<1> QED
  BY <1>2, <1>3, <1>4, OpenedBy

LEMMA OpenStands ==
    ASSUME Typed, UNCHANGED <<req, pairs, allowed, version>>, now' \in {now, now + 1}, NEW r
    PROVE  Open(r)' => Open(r)
<1>1. allowed \subseteq Minted
  BY DEF Typed, TypeOK
<1>2. \A p \in allowed : Refreshable(p)' => Refreshable(p)
  BY <1>1, RefreshableFalls
<1> QED
  BY <1>2, OpenMeans, OpenedBy DEF ChainOf

\* A key that is used up leaves its session in hand; a replay only ends
\* sessions.
LEMMA OpenConsumes ==
    ASSUME Typed, NEW c \in Requests, Consume(c), NEW r
    PROVE  Open(r)' => Open(r)
<1> DEFINE p == req[c].pair
<1>1. /\ req[c].op = "refresh" /\ req[c].pc = "consume"
      /\ UNCHANGED <<pairs, now, version>> /\ allowed' \subseteq allowed
  BY DEF Consume, Consumed, At, Typed, Fits, history
<1>2. CASE p \notin allowed
  <2>1. Proceeds(c, "start")
    BY <1>2 DEF Consume
  <2>2. PICK s \in Request : /\ s.pc \in {"members", "version", "clear", "idle"}
                             /\ req' = [req EXCEPT ![c] = s]
    BY <1>1, <2>1, ProceedsTo
  <2> QED
    BY <1>1, <2>2, KeyStands, OpenMovesOn DEF InHand
<1>3. CASE p \in allowed
  <2>1. req' = [req EXCEPT ![c].pc = "ban"]
    BY <1>3 DEF Consume, GoTo
  <2>2. /\ req'[c].pair = p /\ req'[c].pc = "ban"
        /\ \A d \in Requests \ {c} : req'[d] = req[d]
    BY <2>1 DEF Typed, TypeOK, Request
  <2>3. pairs[p].chain = r => Open(r)
    BY <1>1, <1>3, OpenMeans DEF Waiting, ChainOf
  <2>4. allowed \subseteq Minted
    BY DEF Typed, TypeOK
  <2>5. \A q \in allowed : Refreshable(q)' => Refreshable(q)
    BY <1>1, <2>4, RefreshableFalls
  <2>6. \A q \in allowed' : pairs'[q].chain = r /\ Refreshable(q)' => Open(r)
    BY <1>1, <2>5, OpenMeans
  <2>7. ASSUME NEW d \in Requests, (Waiting(req'[d]) /\ req'[d].pair \in allowed') \/ InHand(req'[d]),
               ChainOf(req[d])' = r
        PROVE  Open(r)
    <3>1. CASE d = c
      BY <1>1, <2>2, <2>3, <2>7, <3>1 DEF ChainOf
    <3>2. CASE d # c
      <4>1. req'[d] = req[d] /\ ChainOf(req[d]) = r
        BY <1>1, <2>2, <2>7, <3>2 DEF ChainOf
      <4> QED
        BY <1>1, <2>7, <4>1, OpenMeans
    <3> QED
      BY <3>1, <3>2
  <2> QED
    BY <2>6, <2>7, OpenedBy
<1> QED
  BY <1>2, <1>3

\* A pair that is registered was in hand: its session was open although the
\* family may have been revoked meanwhile.
LEMMA OpenRegisters ==
    ASSUME Typed, NEW c \in Requests, RegisterRefreshToken(c), NEW r
    PROVE  Open(r)' => Open(r)
<1> DEFINE p == req[c].pair
<1>1. /\ InHand(req[c]) /\ UNCHANGED <<pairs, now, version>>
      /\ allowed' \subseteq allowed \cup {p}
      /\ req' = [req EXCEPT ![c].pc = "reply"]
  BY DEF RegisterRefreshToken, At, GoTo, InHand, history
<1>2. /\ req'[c].pc = "reply" /\ \A d \in Requests \ {c} : req'[d] = req[d]
      /\ allowed \subseteq Minted
  BY <1>1 DEF Typed, TypeOK, Request
<1>3. pairs[p].chain = r => Open(r)
  BY <1>1, OpenMeans DEF ChainOf
<1>4. \A q \in allowed : Refreshable(q)' => Refreshable(q)
  BY <1>1, <1>2, RefreshableFalls
<1>5. \A q \in allowed' : pairs'[q].chain = r /\ Refreshable(q)' => Open(r)
  BY <1>1, <1>3, <1>4, OpenMeans
<1>6. ASSUME NEW d \in Requests, (Waiting(req'[d]) /\ req'[d].pair \in allowed') \/ InHand(req'[d]),
             ChainOf(req[d])' = r
      PROVE  Open(r)
  <2>1. d # c
    BY <1>2, <1>6 DEF Waiting, InHand
  <2>2. req'[d] = req[d] /\ ChainOf(req[d]) = r
    BY <1>1, <1>2, <1>6, <2>1 DEF ChainOf
  <2> QED
    BY <1>1, <1>3, <1>6, <2>2, OpenMeans DEF ChainOf
<1> QED
  BY <1>5, <1>6, OpenedBy

\* A new pair continues a session that was in hand, or begins one that there
\* was not.
LEMMA OpenMints ==
    ASSUME Typed, OneHolder, NEW c \in Requests, Mint(c), NEW r \in Chains
    PROVE  Open(r)' => Open(r)
<1> DEFINE new == Len(pairs) + 1
<1>1. /\ pairs \in Seq(Pair) /\ Len(pairs) \in Nat /\ req \in [Requests -> Request]
      /\ UNCHANGED <<allowed, now, version>> /\ allowed \subseteq Minted /\ Minted = 1..Len(pairs)
  BY DEF Typed, TypeOK, Mint, redis, Minted
<1>2. PICK e \in Pair :
        /\ e.chain = IF req[c].op = "refresh" THEN ChainOf(req[c]) ELSE new
        /\ pairs' = Append(pairs, e)
        /\ req[c].pc = "mint"
  BY MintedPair DEF Is, ChainOf
<1>3. pairs'[new] = e /\ \A p \in Minted : pairs'[p] = pairs[p]
  BY <1>1, <1>2 DEF Minted
<1>4. /\ req'[c].pair = new /\ req'[c].pc = "register"
      /\ \A d \in Requests \ {c} : req'[d] = req[d]
  BY <1>1 DEF Mint, Idle
<1>5. \A d \in Requests : InHand(req[d]) \/ Waiting(req[d]) => req[d].pair \in Minted
  BY DEF Typed, TypeOK, Fits, InHand, Waiting, Request
<1>6. r # new
  <2>1. PICK p \in Minted : r = pairs[p].chain
    BY <1>1 DEF Chains
  <2>2. TypeOK
    BY DEF Typed
  <2>3. pairs[p] \in Pair
    BY <2>1, <2>2, PairType, Zenon
  <2>4. r \in Nat
    BY <2>1, <2>3, ConstantTypes DEF Pair
  <2>5. r <= p /\ p \in 1..Len(pairs)
    BY <1>1, <2>1 DEF OneHolder, Numbered
  <2> QED
    BY <1>1, <2>4, <2>5
<1>7. e.chain = r => Open(r)
  <2>1. ASSUME e.chain = r PROVE InHand(req[c]) /\ ChainOf(req[c]) = r
    BY <1>2, <1>6, <2>1 DEF InHand
  <2> QED
    BY <2>1, OpenMeans
<1>8. \A q \in allowed : pairs'[q] = pairs[q] /\ (Refreshable(q)' => Refreshable(q))
  BY <1>1, <1>3, RefreshableFalls
<1>9. \A q \in allowed' : pairs'[q].chain = r /\ Refreshable(q)' => Open(r)
  BY <1>1, <1>8, OpenMeans
<1>10. ASSUME NEW d \in Requests, (Waiting(req'[d]) /\ req'[d].pair \in allowed') \/ InHand(req'[d]),
              ChainOf(req[d])' = r
       PROVE  Open(r)
  <2>1. CASE d = c
    BY <1>3, <1>4, <1>7, <1>10, <2>1 DEF ChainOf
  <2>2. CASE d # c
    <3>1. req'[d] = req[d] /\ req[d].pair \in Minted
      BY <1>4, <1>5, <1>10, <2>2
    <3>2. ChainOf(req[d]) = r
      BY <1>3, <1>10, <3>1 DEF ChainOf
    <3> QED
      BY <1>1, <1>10, <3>1, <3>2, OpenMeans
  <2> QED
    BY <2>1, <2>2
<1> QED
  BY <1>9, <1>10, OpenedBy

\* A session that has ended does not come back, neither when the keys that
\* ended it run out nor when a slow request registers its token after the
\* family was revoked, whatever requests are under way and whatever fails, as
\* long as no two writes of pw:ver overtake each other.
THEOREM NoSessionReturns == Spec => EndedStaysEnded
<1>1. Init => Typed /\ OneHolder
  BY TypedInit, OneHolderInit
<1>2. Typed /\ OneHolder /\ [Next]_vars => (Typed /\ OneHolder)'
  BY TypedNext, OneHolderNext
<1>3. ASSUME Typed, OneHolder, Next, version'.time >= version.time, NEW r \in Chains
      PROVE  Open(r)' => Open(r)
  <2>1. ASSUME NEW c \in Requests, Arrive(c) PROVE Open(r)' => Open(r)
    <3>1. PICK s : /\ UNCHANGED <<now, version, pairs>> /\ allowed' \subseteq allowed
                   /\ req' = [req EXCEPT ![c] = s] /\ ~InHand(s)
                   /\ s.pc = "consume" => Refreshable(s.pair)
      BY <1>3, <2>1, ArrivesAs
    <3> QED
      BY <1>3, <3>1, KeyStands, OpenMovesOn
  <2>2. ASSUME NEW c \in Requests, Remains(c) PROVE Open(r)' => Open(r)
    <3>1. PICK s : /\ UNCHANGED <<now, pairs>> /\ allowed' \subseteq allowed
                   /\ KeyMoves
                   /\ req' = [req EXCEPT ![c] = s] /\ s.pc # "consume"
                   /\ InHand(s) => InHand(req[c]) /\ s.pair = req[c].pair
      BY <1>3, <2>2, RemainsAs
    <3> QED
      BY <1>3, <3>1, OpenMovesOn
  <2>3. ASSUME NEW c \in Requests, Continue(c) \/ Abandon(c) PROVE Open(r)' => Open(r)
    BY <1>3, <2>2, <2>3, RequestSplit, OpenConsumes, OpenRegisters, OpenMints
  <2>4. ASSUME (\E b \in Browsers : ToggleTFA(b)) \/ (\E k \in Challenges : ChallengeExpires(k))
               \/ Tick
        PROVE  Open(r)' => Open(r)
    BY <1>3, <2>4, OpenStands DEF ToggleTFA, ChallengeExpires, Tick, redis, history
  <2> QED
    BY <1>3, <2>1, <2>3, <2>4 DEF Next
<1>4. Typed /\ OneHolder /\ [Next]_vars =>
        [version'.time >= version.time => \A r \in Chains : ~Open(r) => ~Open(r)']_vars
  BY <1>3
<1> QED
  BY <1>1, <1>2, <1>4, PTL DEF Spec, EndedStaysEnded
=============================================================================
