--------------------------- MODULE Accounts_proofs --------------------------
(***************************************************************************)
(* Accounts, for any number of users, Telegrams and handlers: every state  *)
(* is well typed, no Telegram leads to a stranger's account or to two, and *)
(* what accounts have and whom they referred moves as Holdings says.       *)
(***************************************************************************)
EXTENDS AccountProperties, TLAPS

-----------------------------------------------------------------------------
(* Type correctness.                                                       *)

\* What a request has in hand at its step.
Fits(r) ==
    /\ r.at # "idle" => r.user \in Users
    /\ r.at \in {"find", "lock", "take", "move", "bind"} \/ r.op = "start" =>
            r.telegram \in Telegrams
    /\ r.at \in {"refer", "lock", "take", "move"} => r.other \in Users

Typed == TypeOK /\ \A c \in Requests : Fits(req[c])

LEMMA ConstantTypes ==
    /\ Site \in Users /\ Bot \in Users /\ Site # Bot /\ Phone \in Telegrams
    /\ Nobody \notin Users /\ Nobody \notin Telegrams /\ Nobody \notin Requests
    /\ MaxCodes \in Nat /\ MaxAsked \in Nat /\ Ops \subseteq OpKinds
BY AccountAssumption

LEMMA IdleType == Idle \in Request /\ Fits(Idle) /\ Idle.at = "idle"
BY DEF Idle, Request, Points, Fits, Names

LEMMA NewType ==
    ASSUME NEW name \in Names, NEW r \in Users \cup {Nobody}
    PROVE  New(name, r) \in Account /\ New(name, r).telegram = Nobody
BY DEF New, Account

LEMMA AbsentType == Absent \in Account /\ Absent.telegram = Nobody /\ ~Absent.exists
<1>1. Unique \in Names
  BY DEF Names
<1>2. New(Unique, Nobody) \in Account /\ New(Unique, Nobody).telegram = Nobody
  BY <1>1, NewType
<1> QED
  BY <1>2 DEF Absent, Account

\* A request's record moves on, or is over.
LEMMA BecomeType ==
    ASSUME Typed, NEW c \in Requests, NEW r \in Request, Fits(r), Become(c, r)
    PROVE  req' \in [Requests -> Request] /\ \A d \in Requests : Fits(req'[d])
BY DEF Typed, TypeOK, Become

LEMMA EndsType ==
    ASSUME Typed, NEW c \in Requests, Ends(c)
    PROVE  req' \in [Requests -> Request] /\ \A d \in Requests : Fits(req'[d])
BY IdleType DEF Typed, TypeOK, Ends

LEMMA GoesType ==
    ASSUME Typed, NEW c \in Requests, NEW point \in Points, Goes(c, point),
           Fits([req[c] EXCEPT !.at = point])
    PROVE  req' \in [Requests -> Request] /\ \A d \in Requests : Fits(req'[d])
<1>1. req[c] \in Request
  BY DEF Typed, TypeOK
<1>2. [req[c] EXCEPT !.at = point] \in Request
  BY <1>1 DEF Request
<1>3. Become(c, [req[c] EXCEPT !.at = point])
  BY DEF Goes, Become
<1> QED
  BY <1>2, <1>3, BecomeType

LEMMA ContinuesType ==
    ASSUME Typed, NEW c \in Requests, Continues(c), req[c].at # "idle"
    PROVE  req' \in [Requests -> Request] /\ \A d \in Requests : Fits(req'[d])
<1>1. CASE req[c].op = "start"
  <2>1. Goes(c, "bind")
    BY <1>1 DEF Continues, Afterwards
  <2>2. Fits(req[c]) /\ req[c] \in Request
    BY DEF Typed, TypeOK
  <2>3. Fits([req[c] EXCEPT !.at = "bind"])
    BY <1>1, <2>2 DEF Fits, Request
  <2> QED
    BY <2>1, <2>3, GoesType DEF Points
<1>2. CASE req[c].op # "start"
  BY <1>2, EndsType DEF Continues, Afterwards
<1> QED
  BY <1>1, <1>2

LEMMA HolderType ==
    ASSUME TypeOK, NEW c \in Requests, NEW u \in Users
    PROVE  /\ Locked(u, c) \in [Users -> Requests \cup {Nobody}]
           /\ Released(c) \in [Users -> Requests \cup {Nobody}]
           /\ [holder EXCEPT ![u] = c] \in [Users -> Requests \cup {Nobody}]
BY DEF TypeOK, Locked, Released

\* What a merge leaves in the two tables.
LEMMA GainingType ==
    ASSUME TypeOK, NEW s \in Users, NEW d \in Users, NEW yad \in Nat, NEW trial \in BOOLEAN
    PROVE  /\ Gaining(s, d, yad, trial) \in Account
           /\ Gaining(s, d, yad, trial).telegram = users[d].telegram
           /\ Gaining(s, d, yad, trial).exists = users[d].exists
<1>1. users[d] \in Account /\ users[s] \in Account
  BY DEF TypeOK
<1> DEFINE y == Transferred(d, yad)
           t == users[d].trial \/ trial
           o == users[d].owns \/ users[s].owns
           r == IF users[d].referrer = s THEN Nobody ELSE users[d].referrer
<1>2. y \in Nat /\ t \in BOOLEAN /\ o \in BOOLEAN /\ r \in Users \cup {Nobody}
  <2>1. y \in Nat
    BY <1>1 DEF Transferred, Account
  <2>2. t \in BOOLEAN /\ o \in BOOLEAN
    OBVIOUS
  <2>3. r \in Users \cup {Nobody}
    BY <1>1 DEF Account
  <2> QED
    BY <2>1, <2>2, <2>3
<1>3. Gaining(s, d, yad, trial) =
        [users[d] EXCEPT !.yad = y, !.trial = t, !.owns = o, !.referrer = r]
  BY Zenon DEF Gaining
<1> HIDE DEF y, t, o, r
<1> QED
  BY <1>1, <1>2, <1>3 DEF Account

LEMMA MergedType ==
    ASSUME TypeOK, NEW s \in Users, NEW d \in Users, NEW yad \in Nat, NEW trial \in BOOLEAN
    PROVE  /\ Merged(s, d, yad, trial) \in [Users -> Account]
           /\ MergedReferrals(s, d) \in [Users -> Users \cup {Nobody}]
           /\ \A u \in Users : LET row == Merged(s, d, yad, trial)[u] IN
                \/ row.telegram = Nobody
                \/ row.telegram = users[u].telegram /\ row.exists = users[u].exists
<1>1. ASSUME NEW u \in Users
      PROVE  LET row == Redirected(users[u], s, d) IN
             row \in Account /\ row.telegram = users[u].telegram /\ row.exists = users[u].exists
  BY DEF TypeOK, Redirected, Account
<1>2. Merged(s, d, yad, trial) \in [Users -> Account]
  BY <1>1, GainingType, AbsentType DEF Merged
<1>3. MergedReferrals(s, d) \in [Users -> Users \cup {Nobody}]
  BY DEF TypeOK, MergedReferrals
<1>4. ASSUME NEW u \in Users
      PROVE  LET row == Merged(s, d, yad, trial)[u] IN
             row.telegram = Nobody \/ (row.telegram = users[u].telegram /\ row.exists = users[u].exists)
  BY <1>1, GainingType, AbsentType DEF Merged
<1> QED
  BY <1>2, <1>3, <1>4
LEMMA TypedInit == Init => Typed
<1> SUFFICES ASSUME Init PROVE Typed
  OBVIOUS
<1> USE ConstantTypes
<1>1. PICK s \in BOOLEAN, b \in BOOLEAN, first \in {Site, Bot, Nobody},
           t \in {Nobody} \cup (Telegrams \ {Phone}) :
        /\ users = [u \in Users |->
             IF u = Site THEN [New(Unique, IF first = Bot THEN Bot ELSE Nobody)
                                EXCEPT !.telegram = t, !.trial = s, !.owns = s]
             ELSE IF u = Bot THEN [New(Phone, IF first = Site THEN Site ELSE Nobody)
                                EXCEPT !.telegram = Phone, !.trial = b, !.owns = b]
             ELSE Absent]
        /\ referral = [u \in Users |-> users[u].referrer]
        /\ agreed = {<<Phone, Bot>>} \cup (({t} \ {Nobody}) \X {Site})
  BY DEF Init
<1>2. users \in [Users -> Account]
  <2>1. ASSUME NEW n \in Names, NEW r \in Users \cup {Nobody},
               NEW g \in Telegrams \cup {Nobody}, NEW f \in BOOLEAN
        PROVE  [New(n, r) EXCEPT !.telegram = g, !.trial = f, !.owns = f] \in Account
    BY DEF New, Account
  <2>2. Unique \in Names /\ Phone \in Names
    BY DEF Names
  <2> DEFINE guest == IF first = Bot THEN Bot ELSE Nobody
             host  == IF first = Site THEN Site ELSE Nobody
             row(u) == IF u = Site THEN [New(Unique, guest) EXCEPT !.telegram = t, !.trial = s, !.owns = s]
                       ELSE IF u = Bot THEN [New(Phone, host) EXCEPT !.telegram = Phone, !.trial = b, !.owns = b]
                       ELSE Absent
  <2>3. guest \in Users \cup {Nobody} /\ host \in Users \cup {Nobody}
    OBVIOUS
  <2>4. users = [u \in Users |-> row(u)]
    BY <1>1, Zenon
  <2> HIDE DEF guest, host
  <2>5. [New(Unique, guest) EXCEPT !.telegram = t, !.trial = s, !.owns = s] \in Account
    BY <2>1, <2>2, <2>3
  <2>6. [New(Phone, host) EXCEPT !.telegram = Phone, !.trial = b, !.owns = b] \in Account
    BY <2>1, <2>2, <2>3
  <2>7. ASSUME NEW u \in Users PROVE row(u) \in Account
    BY <2>5, <2>6, AbsentType, Zenon
  <2> HIDE DEF row
  <2> QED
    BY <2>4, <2>7
<1>3. referral \in [Users -> Users \cup {Nobody}]
  BY <1>1, <1>2 DEF Account
<1>4. agreed \in SUBSET (Telegrams \X Users)
  BY <1>1
<1>5. /\ holder \in [Users -> Requests \cup {Nobody}]
      /\ links \in [Users -> 0..MaxCodes] /\ unlinks \in [Users -> 0..MaxCodes]
      /\ asked \in 0..MaxAsked /\ opened \in SUBSET Users
  BY DEF Init
<1>6. req \in [Requests -> Request] /\ \A c \in Requests : Fits(req[c])
  BY IdleType DEF Init
<1> QED
  BY <1>2, <1>3, <1>4, <1>5, <1>6 DEF Typed, TypeOK

-----------------------------------------------------------------------------
\* The part of TypeOK that is not about requests.
TablesType ==
    /\ users \in [Users -> Account]
    /\ referral \in [Users -> Users \cup {Nobody}]
    /\ holder \in [Users -> Requests \cup {Nobody}]
    /\ links \in [Users -> 0..MaxCodes]
    /\ unlinks \in [Users -> 0..MaxCodes]
    /\ asked \in 0..MaxAsked
    /\ opened \in SUBSET Users
    /\ agreed \in SUBSET (Telegrams \X Users)

LEMMA SplitType ==
    TypeOK <=> TablesType /\ req \in [Requests -> Request]
BY DEF TypeOK, TablesType

\* One row is written.
LEMMA RowType ==
    ASSUME TypeOK, NEW u \in Users,
           NEW t \in Telegrams \cup {Nobody}, NEW f \in BOOLEAN, NEW o \in BOOLEAN
    PROVE  /\ [users EXCEPT ![u].telegram = t] \in [Users -> Account]
           /\ [users EXCEPT ![u].telegram = t, ![u].owns = o] \in [Users -> Account]
           /\ [users EXCEPT ![u].tfa = f] \in [Users -> Account]
           /\ [users EXCEPT ![u].owns = o] \in [Users -> Account]
           /\ [users EXCEPT ![u].trial = TRUE, ![u].owns = TRUE] \in [Users -> Account]
           /\ [users EXCEPT ![u].yad = @ + 1, ![u].owns = TRUE] \in [Users -> Account]
<1>1. users[u] \in Account /\ users \in [Users -> Account]
  BY DEF TypeOK
<1>2. [users[u] EXCEPT !.telegram = t] \in Account
  BY <1>1 DEF Account
<1>3. [users[u] EXCEPT !.telegram = t, !.owns = o] \in Account
  BY <1>1 DEF Account
<1>4. [users[u] EXCEPT !.tfa = f] \in Account
  BY <1>1 DEF Account
<1>5. [users[u] EXCEPT !.owns = o] \in Account
  BY <1>1 DEF Account
<1>6. [users[u] EXCEPT !.trial = TRUE, !.owns = TRUE] \in Account
  BY <1>1 DEF Account
<1>7. [users[u] EXCEPT !.yad = @ + 1, !.owns = TRUE] \in Account
  <2>1. users[u].yad + 1 \in Nat
    BY <1>1 DEF Account
  <2>2. ASSUME NEW y \in Nat PROVE [users[u] EXCEPT !.yad = y, !.owns = TRUE] \in Account
    BY <1>1 DEF Account
  <2> QED
    BY <2>1, <2>2
<1>8. ASSUME NEW r \in Account PROVE [users EXCEPT ![u] = r] \in [Users -> Account]
  BY <1>1
<1>9. /\ [users EXCEPT ![u].telegram = t] = [users EXCEPT ![u] = [users[u] EXCEPT !.telegram = t]]
      /\ [users EXCEPT ![u].tfa = f] = [users EXCEPT ![u] = [users[u] EXCEPT !.tfa = f]]
      /\ [users EXCEPT ![u].owns = o] = [users EXCEPT ![u] = [users[u] EXCEPT !.owns = o]]
  BY <1>1
<1>10. [users EXCEPT ![u].telegram = t, ![u].owns = o] =
         [users EXCEPT ![u] = [users[u] EXCEPT !.telegram = t, !.owns = o]]
  BY <1>1
<1>11. [users EXCEPT ![u].trial = TRUE, ![u].owns = TRUE] =
         [users EXCEPT ![u] = [users[u] EXCEPT !.trial = TRUE, !.owns = TRUE]]
  BY <1>1
<1>12. [users EXCEPT ![u].yad = @ + 1, ![u].owns = TRUE] =
         [users EXCEPT ![u] = [users[u] EXCEPT !.yad = @ + 1, !.owns = TRUE]]
  BY <1>1
<1> QED
  BY <1>2, <1>3, <1>4, <1>5, <1>6, <1>7, <1>8, <1>9, <1>10, <1>11, <1>12, Zenon

LEMMA AsksType ==
    ASSUME TypeOK, NEW op, Asks(op)
    PROVE  asked' \in 0..MaxAsked /\ op \in OpKinds
BY ConstantTypes DEF TypeOK, Asks

LEMMA ResolvedType ==
    ASSUME NEW r
    PROVE  Resolved(r) \subseteq Users \cup {Nobody}
BY DEF Resolved

LEMMA ServedType ==
    ASSUME Typed, TablesType', NEW c \in Requests,
           NEW q \in Request, Fits(q), Become(c, q)
    PROVE  Typed'
BY BecomeType, SplitType DEF Typed, TypeOK, TablesType

\* Requests that arrive.
LEMMA ArrivalsType ==
    ASSUME Typed, NEW c \in Requests,
           \/ Register(c)
           \/ \E t \in Telegrams : Start(c, t) \/ Link(c, t) \/ BotToggle(c, t)
           \/ \E u \in Users : Unlink(c, u) \/ ToggleTFA(c, u)
    PROVE  Typed'
<1> USE ConstantTypes DEF Arrives
<1>0. TypeOK /\ TablesType
  BY SplitType DEF Typed
<1>1. CASE Register(c)
  <2>1. PICK n \in Names, r \in Users \cup {Nobody} :
          /\ Asks("register") /\ Unused # {}
          /\ Become(c, [Idle EXCEPT !.op = "register", !.at = "insert",
                                    !.user = NewID, !.name = n, !.other = r])
    BY <1>1 DEF Register
  <2>2. NewID \in Users
    BY <2>1 DEF NewID, Unused
  <2> DEFINE q == [Idle EXCEPT !.op = "register", !.at = "insert",
                              !.user = NewID, !.name = n, !.other = r]
  <2>3. q \in Request /\ Fits(q)
    BY <2>2 DEF Idle, Request, Points, Fits, OpKinds, Names
  <2>4. TablesType'
    BY <1>0, <1>1, <2>1, AsksType DEF Register, TablesType, tables, codes, history
  <2>5. Become(c, q)
    BY <2>1
  <2> HIDE DEF q
  <2> QED
    BY <2>3, <2>4, <2>5, ServedType
<1>2. ASSUME NEW t \in Telegrams, Start(c, t) PROVE Typed'
  <2>1. PICK r \in Users \cup {Nobody} :
          /\ Asks("start") /\ Unused # {}
          /\ Become(c, [Idle EXCEPT !.op = "start", !.at = "insert",
                                    !.telegram = t, !.user = NewID, !.other = r,
                                    !.name = IF Taken(t) THEN Unique ELSE t,
                                    !.again = Taken(t)])
    BY <1>2 DEF Start
  <2>2. NewID \in Users
    BY <2>1 DEF NewID, Unused
  <2>3. Taken(t) \in BOOLEAN
    BY DEF Taken
  <2> DEFINE q == [Idle EXCEPT !.op = "start", !.at = "insert",
                              !.telegram = t, !.user = NewID, !.other = r,
                              !.name = IF Taken(t) THEN Unique ELSE t,
                              !.again = Taken(t)]
  <2>4. q \in Request /\ Fits(q)
    BY <2>2, <2>3 DEF Idle, Request, Points, Fits, OpKinds, Names
  <2>5. TablesType'
    BY <1>0, <1>2, <2>1, AsksType DEF Start, TablesType, tables, codes, history
  <2>6. Become(c, q)
    BY <2>1
  <2> HIDE DEF q
  <2> QED
    BY <2>4, <2>5, <2>6, ServedType
<1>3. ASSUME NEW t \in Telegrams, Link(c, t) PROVE Typed'
  <2>1. PICK u \in Users :
          /\ Asks("link") /\ links[u] > 0
          /\ links' = [links EXCEPT ![u] = @ - 1]
          /\ agreed' = agreed \cup {<<t, u>>}
          /\ Become(c, [Idle EXCEPT !.op = "link", !.at = "find", !.telegram = t, !.user = u])
          /\ UNCHANGED <<tables, unlinks, opened>>
    BY <1>3 DEF Link
  <2> DEFINE q == [Idle EXCEPT !.op = "link", !.at = "find", !.telegram = t, !.user = u]
  <2>2. q \in Request /\ Fits(q)
    BY DEF Idle, Request, Points, Fits, OpKinds, Names
  <2>3. TablesType'
    BY <1>0, <2>1, AsksType DEF TablesType, tables
  <2>4. Become(c, q)
    BY <2>1
  <2> HIDE DEF q
  <2> QED
    BY <2>2, <2>3, <2>4, ServedType
<1>4. ASSUME NEW t \in Telegrams, BotToggle(c, t) PROVE Typed'
  <2>1. PICK u \in Users :
          /\ Asks("bot_tfa")
          /\ Become(c, [Idle EXCEPT !.op = "bot_tfa", !.at = "switch", !.user = u,
                                    !.on = ~users[u].tfa])
    BY <1>4 DEF BotToggle, Of
  <2> DEFINE q == [Idle EXCEPT !.op = "bot_tfa", !.at = "switch", !.user = u,
                              !.on = ~users[u].tfa]
  <2>2. q \in Request /\ Fits(q)
    BY DEF Idle, Request, Points, Fits, OpKinds, Names
  <2>3. TablesType'
    BY <1>0, <1>4, <2>1, AsksType DEF BotToggle, TablesType, tables, codes, history
  <2>4. Become(c, q)
    BY <2>1
  <2> HIDE DEF q
  <2> QED
    BY <2>2, <2>3, <2>4, ServedType
<1>5. ASSUME NEW u \in Users, Unlink(c, u) PROVE Typed'
  <2> DEFINE q == [Idle EXCEPT !.op = "unlink", !.at = "clear", !.user = u]
  <2>1. q \in Request /\ Fits(q)
    BY DEF Idle, Request, Points, Fits, OpKinds, Names
  <2>2. TablesType'
    <3>1. Asks("unlink") /\ unlinks' = [unlinks EXCEPT ![u] = @ - 1] /\ unlinks[u] > 0
          /\ UNCHANGED <<tables, links, history>>
      BY <1>5 DEF Unlink
    <3> QED
      BY <1>0, <3>1, AsksType DEF TablesType, tables, history
  <2>3. Become(c, q)
    BY <1>5 DEF Unlink
  <2> HIDE DEF q
  <2> QED
    BY <2>1, <2>2, <2>3, ServedType
<1>6. ASSUME NEW u \in Users, ToggleTFA(c, u) PROVE Typed'
  <2>1. PICK on \in BOOLEAN :
          /\ Asks("tfa")
          /\ Become(c, [Idle EXCEPT !.op = "tfa", !.at = "switch", !.user = u, !.on = on])
    BY <1>6 DEF ToggleTFA
  <2> DEFINE q == [Idle EXCEPT !.op = "tfa", !.at = "switch", !.user = u, !.on = on]
  <2>2. q \in Request /\ Fits(q)
    BY DEF Idle, Request, Points, Fits, OpKinds, Names
  <2>3. TablesType'
    BY <1>0, <1>6, <2>1, AsksType DEF ToggleTFA, TablesType, tables, codes, history
  <2>4. Become(c, q)
    BY <2>1
  <2> HIDE DEF q
  <2> QED
    BY <2>2, <2>3, <2>4, ServedType
<1> QED
  BY <1>1, <1>2, <1>3, <1>4, <1>5, <1>6

\* A request's record at its step.
LEMMA RequestType ==
    ASSUME Typed, NEW c \in Requests, req[c].at # "idle"
    PROVE  /\ TypeOK /\ TablesType /\ req[c] \in Request /\ Fits(req[c])
           /\ req[c].user \in Users /\ req[c].other \in Users \cup {Nobody}
           /\ req[c].name \in Names /\ req[c].on \in BOOLEAN
           /\ req[c].yad \in Nat /\ req[c].trial \in BOOLEAN
BY SplitType DEF Typed, TypeOK, Fits, Request

\* Steps that leave the request in other hands.
LEMMA StepType ==
    ASSUME Typed, TablesType',
           req' \in [Requests -> Request] /\ \A d \in Requests : Fits(req'[d])
    PROVE  Typed'
BY SplitType DEF Typed, TypeOK, TablesType

LEMMA CreateType ==
    ASSUME Typed, NEW c \in Requests, Create(c)
    PROVE  Typed'
<1> DEFINE r == req[c]
<1>1. r.at = "insert" /\ r.at # "idle"
  BY DEF Create, At
<1>2. /\ TypeOK /\ TablesType /\ r \in Request /\ Fits(r)
      /\ r.user \in Users /\ r.other \in Users \cup {Nobody} /\ r.name \in Names
  BY <1>1, RequestType
<1>3. New(r.name, r.other) \in Account
  BY <1>2, NewType
<1>4. r.op = "start" => r.telegram \in Telegrams
  BY <1>2 DEF Fits
<1>5. TablesType'
  <2>1. /\ users' = [users EXCEPT ![r.user] = New(r.name, r.other)]
        /\ opened' = opened \cup {r.user}
        /\ agreed' = IF r.op = "start" THEN agreed \cup {<<r.telegram, r.user>>} ELSE agreed
        /\ UNCHANGED <<referral, holder, links, unlinks, asked>>
    BY DEF Create, codes
  <2> QED
    BY <1>2, <1>3, <1>4, <2>1 DEF TablesType
<1>6. CASE r.other # Nobody
  <2>1. Goes(c, "refer")
    BY <1>6 DEF Create
  <2>2. Fits([req[c] EXCEPT !.at = "refer"])
    BY <1>2, <1>6, <1>1 DEF Fits, Request
  <2> QED
    BY <1>5, <2>1, <2>2, GoesType, StepType DEF Points
<1>7. CASE r.other = Nobody
  <2>1. Continues(c)
    BY <1>7 DEF Create
  <2> QED
    BY <1>1, <1>5, <2>1, ContinuesType, StepType
<1> QED
  BY <1>6, <1>7

LEMMA CreateFailsType ==
    ASSUME Typed, NEW c \in Requests, CreateFails(c)
    PROVE  Typed'
<1> DEFINE r == req[c]
<1>1. r.at = "insert" /\ r.at # "idle"
  BY DEF CreateFails, At
<1>2. TypeOK /\ TablesType /\ r \in Request /\ Fits(r)
  BY <1>1, RequestType
<1>3. TablesType'
  BY <1>2 DEF CreateFails, tables, codes, history, TablesType
<1>4. CASE r.op = "start" /\ ~r.again
  <2>1. PICK second \in Again(r) : Become(c, second)
    BY <1>4 DEF CreateFails
  <2>2. PICK s \in Resolved(r.other) :
          second = [r EXCEPT !.again = TRUE, !.name = Unique, !.other = s]
    BY <2>1 DEF Again
  <2>3. s \in Users \cup {Nobody}
    BY <2>2, ResolvedType
  <2>4. second \in Request
    BY <1>2, <2>2, <2>3 DEF Request, Names
  <2>5. second.at = r.at /\ second.op = r.op /\ second.user = r.user /\ second.telegram = r.telegram
    BY <1>2, <2>2 DEF Request
  <2>6. Fits(second)
    BY <1>1, <1>2, <2>5 DEF Fits
  <2> QED
    BY <1>3, <2>1, <2>4, <2>6, ServedType
<1>5. CASE ~(r.op = "start" /\ ~r.again)
  <2>1. Ends(c)
    BY <1>5 DEF CreateFails
  <2> QED
    BY <1>3, <2>1, EndsType, StepType
<1> QED
  BY <1>4, <1>5

LEMMA CreateReferralType ==
    ASSUME Typed, NEW c \in Requests, CreateReferral(c)
    PROVE  Typed'
<1>1. req[c].at = "refer" /\ req[c].at # "idle"
  BY DEF CreateReferral, At
<1>2. TypeOK /\ TablesType /\ Fits(req[c]) /\ req[c].user \in Users /\ req[c].other \in Users
  BY <1>1, RequestType DEF Fits
<1>3. referral' \in [Users -> Users \cup {Nobody}]
  <2>1. referral' = referral \/ referral' = [referral EXCEPT ![req[c].user] = req[c].other]
    BY DEF CreateReferral
  <2> QED
    BY <1>2, <2>1 DEF TablesType
<1>4. TablesType'
  BY <1>2, <1>3 DEF CreateReferral, codes, history, TablesType
<1>5. Continues(c)
  BY DEF CreateReferral
<1> QED
  BY <1>1, <1>4, <1>5, ContinuesType, StepType

LEMMA BindType ==
    ASSUME Typed, NEW c \in Requests, Bind(c)
    PROVE  Typed'
<1> DEFINE r == req[c]
<1>1. r.at = "bind" /\ r.at # "idle"
  BY DEF Bind, At
<1>2. TypeOK /\ TablesType /\ r.user \in Users /\ r.telegram \in Telegrams
  BY <1>1, RequestType DEF Fits
<1>3. users' \in [Users -> Account]
  <2>1. CASE \E o \in {users[r.user].owns, TRUE} :
                users' = [users EXCEPT ![r.user].telegram = r.telegram, ![r.user].owns = o]
    <3>1. PICK o \in {users[r.user].owns, TRUE} :
                users' = [users EXCEPT ![r.user].telegram = r.telegram, ![r.user].owns = o]
      BY <2>1
    <3>2. o \in BOOLEAN
      <4>1. users[r.user] \in Account
        BY <1>2 DEF TypeOK
      <4>2. users[r.user].owns \in BOOLEAN
        BY <4>1 DEF Account
      <4> QED
        BY <4>2
    <3> QED
      BY <1>2, <3>1, <3>2, RowType
  <2>2. CASE users' = [users EXCEPT ![r.user].owns = TRUE]
    BY <1>2, <2>2, RowType
  <2>3. CASE UNCHANGED users
    BY <1>2, <2>3 DEF TablesType
  <2> QED
    BY <2>1, <2>2, <2>3 DEF Bind
<1>4. TablesType'
  BY <1>2, <1>3 DEF Bind, codes, history, TablesType
<1>5. Ends(c)
  BY DEF Bind
<1> QED
  BY <1>4, <1>5, EndsType, StepType

LEMMA FindLinkedType ==
    ASSUME Typed, NEW c \in Requests, FindLinked(c)
    PROVE  Typed'
<1> DEFINE r == req[c]
<1>1. r.at = "find" /\ r.at # "idle"
  BY DEF FindLinked, At
<1>2. TypeOK /\ TablesType /\ r \in Request /\ Fits(r) /\ r.telegram \in Telegrams /\ r.user \in Users
  BY <1>1, RequestType DEF Fits
<1>3. TablesType'
  BY <1>2 DEF FindLinked, tables, codes, history, TablesType
<1>4. CASE Goes(c, "bind")
  <2>1. Fits([req[c] EXCEPT !.at = "bind"])
    BY <1>2 DEF Fits, Request
  <2> QED
    BY <1>3, <1>4, <2>1, GoesType, StepType DEF Points
<1>5. CASE Ends(c)
  BY <1>3, <1>5, EndsType, StepType
<1>6. CASE \E s \in Of(r.telegram) \ {r.user} : Become(c, [r EXCEPT !.at = "lock", !.other = s])
  <2>1. PICK s \in Users : Become(c, [r EXCEPT !.at = "lock", !.other = s])
    BY <1>6 DEF Of
  <2> DEFINE q == [r EXCEPT !.at = "lock", !.other = s]
  <2>2. q \in Request
    BY <1>2 DEF Request, Points
  <2>3. Fits(q)
    BY <1>2 DEF Request, Fits
  <2>4. Become(c, q)
    BY <2>1
  <2> HIDE DEF q
  <2> QED
    BY <1>3, <2>2, <2>3, <2>4, ServedType
<1> QED
  BY <1>4, <1>5, <1>6 DEF FindLinked

\* Steps of the merge.
LEMMA MergeType ==
    ASSUME Typed, NEW c \in Requests,
           LockSource(c) \/ TakeDestination(c) \/ Move(c) \/ MergeFails(c) \/ Deadlock(c)
    PROVE  Typed'
<1> DEFINE r == req[c]
<1>1. r.at # "idle"
  BY DEF LockSource, TakeDestination, Move, MergeFails, Deadlock, WaitsFor, Wants, At
<1>2. /\ TypeOK /\ TablesType /\ r \in Request /\ Fits(r)
      /\ r.user \in Users /\ r.yad \in Nat /\ r.trial \in BOOLEAN
  BY <1>1, RequestType
<1>3. CASE LockSource(c)
  <2>1. r.at = "lock" /\ r.other \in Users /\ r.telegram \in Telegrams
    BY <1>2, <1>3 DEF LockSource, At, Fits
  <2>2. TablesType'
    BY <1>2, <1>3, <2>1, HolderType DEF LockSource, codes, history, TablesType
  <2>3. CASE Ends(c)
    BY <2>2, <2>3, EndsType, StepType
  <2>4. CASE Become(c, [r EXCEPT !.at = "take", !.yad = users[r.other].yad,
                                 !.trial = users[r.other].trial])
    <3> DEFINE s == users[r.other]
               q == [r EXCEPT !.at = "take", !.yad = s.yad, !.trial = s.trial]
    <3>1. s \in Account
      BY <1>2, <2>1 DEF TypeOK
    <3>2. s.yad \in Nat /\ s.trial \in BOOLEAN
      BY <3>1 DEF Account
    <3>3. Become(c, q)
      BY <2>4
    <3> HIDE DEF s
    <3>4. q \in Request
      BY <1>2, <3>2 DEF Request, Points
    <3>5. Fits(q)
      BY <1>2, <2>1 DEF Request, Fits
    <3> HIDE DEF q
    <3> QED
      BY <2>2, <3>3, <3>4, <3>5, ServedType
  <2> QED
    BY <1>3, <2>3, <2>4 DEF LockSource
<1>4. CASE TakeDestination(c)
  <2>1. r.at = "take" /\ Goes(c, "move")
    BY <1>4 DEF TakeDestination, At
  <2>2. TablesType'
    BY <1>2, <1>4, HolderType DEF TakeDestination, codes, history, TablesType
  <2>3. Fits([req[c] EXCEPT !.at = "move"])
    BY <1>2, <2>1 DEF Fits, Request
  <2> QED
    BY <2>1, <2>2, <2>3, GoesType, StepType DEF Points
<1>5. CASE Move(c)
  <2>1. r.at = "move" /\ r.other \in Users /\ Goes(c, "bind")
    BY <1>2, <1>5 DEF Move, At, Fits
  <2>2. TablesType'
    BY <1>2, <1>5, <2>1, MergedType, HolderType DEF Move, codes, history, TablesType
  <2>3. Fits([req[c] EXCEPT !.at = "bind"])
    BY <1>2, <2>1 DEF Fits, Request
  <2> QED
    BY <2>1, <2>2, <2>3, GoesType, StepType DEF Points
<1>6. CASE MergeFails(c) \/ Deadlock(c)
  <2>1. holder' = Released(c) /\ Ends(c) /\ UNCHANGED <<users, referral, codes, asked, history>>
    BY <1>6 DEF MergeFails, Deadlock
  <2>2. TablesType'
    BY <1>2, <2>1, HolderType DEF codes, history, TablesType
  <2> QED
    BY <2>1, <2>2, EndsType, StepType
<1> QED
  BY <1>3, <1>4, <1>5, <1>6

\* Steps of the unlinking and of the two-factor switch.
LEMMA SwitchType ==
    ASSUME Typed, NEW c \in Requests, Clear(c) \/ Disable(c) \/ Switch(c)
    PROVE  Typed'
<1> DEFINE u == req[c].user
<1>1. req[c].at # "idle"
  BY DEF Clear, Disable, Switch, At
<1>2. /\ TypeOK /\ TablesType /\ req[c] \in Request /\ Fits(req[c])
      /\ u \in Users /\ req[c].on \in BOOLEAN
  BY <1>1, RequestType
<1>3. /\ [users EXCEPT ![u].telegram = Nobody] \in [Users -> Account]
      /\ [users EXCEPT ![u].tfa = FALSE] \in [Users -> Account]
      /\ [users EXCEPT ![u].tfa = req[c].on] \in [Users -> Account]
  BY <1>2, RowType
<1>4. TablesType'
  <2>1. users' \in [Users -> Account]
    BY <1>2, <1>3 DEF Clear, Disable, Switch, TablesType
  <2>2. UNCHANGED <<referral, holder, links, unlinks, asked, opened, agreed>>
    BY DEF Clear, Disable, Switch, codes, history
  <2> QED
    BY <1>2, <2>1, <2>2 DEF TablesType
<1>5. CASE Ends(c)
  BY <1>4, <1>5, EndsType, StepType
<1>6. CASE Clear(c) /\ Goes(c, "disable")
  <2>1. req[c].at = "clear"
    BY <1>6 DEF Clear, At
  <2>2. Fits([req[c] EXCEPT !.at = "disable"])
    BY <1>2, <2>1 DEF Fits, Request
  <2> QED
    BY <1>4, <1>6, <2>2, GoesType, StepType DEF Points
<1> QED
  BY <1>5, <1>6 DEF Clear, Disable, Switch

\* What is done to an account without a request under way.
LEMMA AccountType ==
    ASSUME Typed, NEW u \in Users,
           \/ GenerateLinkCode(u) \/ StoreUnlinkCode(u)
           \/ AdjustYADBalance(u) \/ SetTrialUsed(u)
    PROVE  Typed'
<1> USE ConstantTypes
<1>1. TypeOK /\ TablesType
  BY SplitType DEF Typed
<1>2. UNCHANGED req
  BY DEF GenerateLinkCode, StoreUnlinkCode, AdjustYADBalance, SetTrialUsed
<1>3. asked' \in 0..MaxAsked
  BY <1>1, AsksType DEF GenerateLinkCode, StoreUnlinkCode, AdjustYADBalance, SetTrialUsed
<1>4. CASE GenerateLinkCode(u)
  <2>1. links' \in [Users -> 0..MaxCodes]
    BY <1>1, <1>4 DEF GenerateLinkCode, TablesType
  <2> QED
    BY <1>1, <1>2, <1>3, <1>4, <2>1 DEF GenerateLinkCode, tables, history, TablesType, Typed, TypeOK
<1>5. CASE StoreUnlinkCode(u)
  <2>1. unlinks' \in [Users -> 0..MaxCodes]
    BY <1>1, <1>5 DEF StoreUnlinkCode, TablesType
  <2> QED
    BY <1>1, <1>2, <1>3, <1>5, <2>1 DEF StoreUnlinkCode, tables, history, TablesType, Typed, TypeOK
<1>6. CASE AdjustYADBalance(u) \/ SetTrialUsed(u)
  <2>1. users' \in [Users -> Account]
    <3>1. /\ [users EXCEPT ![u].trial = TRUE, ![u].owns = TRUE] \in [Users -> Account]
          /\ [users EXCEPT ![u].yad = @ + 1, ![u].owns = TRUE] \in [Users -> Account]
      <4>1. Nobody \in Telegrams \cup {Nobody} /\ TRUE \in BOOLEAN
        OBVIOUS
      <4> QED
        BY <1>1, <4>1, RowType, Zenon
    <3>2. \/ users' = [users EXCEPT ![u].yad = @ + 1, ![u].owns = TRUE]
          \/ users' = [users EXCEPT ![u].trial = TRUE, ![u].owns = TRUE]
      BY <1>6, Zenon DEF AdjustYADBalance, SetTrialUsed
    <3> QED
      BY <3>1, <3>2, Zenon
  <2>2. UNCHANGED <<referral, holder, links, unlinks, opened, agreed>>
    BY <1>6 DEF AdjustYADBalance, SetTrialUsed, codes, history
  <2> QED
    BY <1>1, <1>2, <1>3, <2>1, <2>2 DEF TablesType, Typed, TypeOK
<1> QED
  BY <1>4, <1>5, <1>6

\* Either way to ask for an unlink code stores one for some account.
LEMMA UnlinkCodeStored ==
    ASSUME \/ \E t \in Telegrams : HandleUnlink(t)
           \/ \E u \in Users : GenerateUnlinkCode(u)
    PROVE  \E u \in Users : StoreUnlinkCode(u)
  BY DEF HandleUnlink, GenerateUnlinkCode, Of

LEMMA TypedNext == Typed /\ [Next]_vars => Typed'
<1> SUFFICES ASSUME Typed, [Next]_vars PROVE Typed'
  OBVIOUS
<1>1. ASSUME NEW c \in Requests, Serve(c) PROVE Typed'
  BY <1>1, CreateType, CreateFailsType, CreateReferralType, BindType, FindLinkedType,
     MergeType, SwitchType DEF Serve
<1>2. CASE Next
  BY <1>1, <1>2, ArrivalsType, AccountType, UnlinkCodeStored DEF Next
<1>3. CASE UNCHANGED vars
  BY <1>3 DEF vars, tables, codes, history, Typed, TypeOK
<1> QED
  BY <1>2, <1>3

\* Every state that registrations, links, merges and switches lead to is well
\* typed (user_repo.go, service.go and bot.go, the parts that write accounts).
THEOREM AccountTypes == Spec => []TypeOK
<1>1. Typed => TypeOK
  BY DEF Typed
<1> QED
  BY <1>1, TypedInit, TypedNext, PTL DEF Spec

-----------------------------------------------------------------------------
(* Whose Telegram it is.  The strengthening says of the requests that may  *)
(* still bind a Telegram that it was agreed to.                            *)

Owned == \A u \in Users : users[u].telegram # Nobody =>
            users[u].exists /\ <<users[u].telegram, u>> \in agreed
Alone == \A u, v \in Users :
            users[u].telegram # Nobody /\ users[u].telegram = users[v].telegram => u = v

Pledged(r) == \/ r.at \in {"find", "lock", "take", "move", "bind"}
              \/ r.at = "refer" /\ r.op = "start"
Backed(r)  == Pledged(r) => <<r.telegram, r.user>> \in agreed
Promised   == \A c \in Requests : Backed(req[c])

Bound == Typed /\ Owned /\ Alone /\ Promised

\* No row has a Telegram that it did not have.
Keeps == \A u \in Users :
            \/ users'[u].telegram = Nobody
            \/ users'[u].telegram = users[u].telegram /\ users'[u].exists = users[u].exists

LEMMA KeepsOwners ==
    ASSUME Owned, Alone, Keeps, agreed \subseteq agreed'
    PROVE  Owned' /\ Alone'
BY DEF Owned, Alone, Keeps

\* One request moves on.
LEMMA PromiseKept ==
    ASSUME Typed, Promised, agreed \subseteq agreed', NEW c \in Requests, NEW r, Become(c, r),
           Pledged(r) => <<r.telegram, r.user>> \in agreed'
    PROVE  Promised'
<1>1. req \in [Requests -> Request]
  BY DEF Typed, TypeOK
<1>2. ASSUME NEW d \in Requests PROVE Backed(req[d])'
  <2>1. CASE d = c
    BY <1>1, <2>1 DEF Become, Backed, Pledged
  <2>2. CASE d # c
    <3>1. req'[d] = req[d]
      BY <1>1, <2>2 DEF Become
    <3> QED
      BY <3>1 DEF Promised, Backed, Pledged
  <2> QED
    BY <2>1, <2>2
<1> QED
  BY <1>2 DEF Promised

LEMMA PromiseEnds ==
    ASSUME Typed, Promised, agreed \subseteq agreed', NEW c \in Requests, Ends(c)
    PROVE  Promised'
<1>1. Become(c, Idle) /\ ~Pledged(Idle)
  BY DEF Ends, Become, Idle, Pledged
<1> QED
  BY <1>1, PromiseKept

LEMMA PromiseGoes ==
    ASSUME Typed, Promised, agreed \subseteq agreed', NEW c \in Requests, NEW point \in Points,
           Goes(c, point),
           \/ point \notin {"find", "lock", "take", "move", "bind", "refer"}
           \/ point = "refer" /\ req[c].op # "start"
           \/ <<req[c].telegram, req[c].user>> \in agreed'
    PROVE  Promised'
<1> DEFINE r == [req[c] EXCEPT !.at = point]
<1>1. req[c] \in Request
  BY DEF Typed, TypeOK
<1>2. r.at = point /\ r.op = req[c].op /\ r.telegram = req[c].telegram /\ r.user = req[c].user
  BY <1>1 DEF Request
<1>3. Become(c, r)
  BY DEF Goes, Become
<1> HIDE DEF r
<1> QED
  BY <1>2, <1>3, PromiseKept DEF Pledged

LEMMA PromiseContinues ==
    ASSUME Typed, Promised, agreed \subseteq agreed', NEW c \in Requests, Continues(c),
           req[c].op = "start" => <<req[c].telegram, req[c].user>> \in agreed'
    PROVE  Promised'
<1>1. CASE req[c].op = "start"
  <2>1. Goes(c, "bind")
    BY <1>1 DEF Continues, Afterwards
  <2> QED
    BY <1>1, <2>1, PromiseGoes DEF Points
<1>2. CASE req[c].op # "start"
  BY <1>2, PromiseEnds DEF Continues, Afterwards
<1> QED
  BY <1>1, <1>2

LEMMA BoundInit == Init => Bound
<1> SUFFICES ASSUME Init PROVE Bound
  OBVIOUS
<1> USE ConstantTypes
<1>1. PICK s \in BOOLEAN, b \in BOOLEAN, first \in {Site, Bot, Nobody},
           t \in {Nobody} \cup (Telegrams \ {Phone}) :
        /\ users = [u \in Users |->
             IF u = Site THEN [New(Unique, IF first = Bot THEN Bot ELSE Nobody)
                                EXCEPT !.telegram = t, !.trial = s, !.owns = s]
             ELSE IF u = Bot THEN [New(Phone, IF first = Site THEN Site ELSE Nobody)
                                EXCEPT !.telegram = Phone, !.trial = b, !.owns = b]
             ELSE Absent]
        /\ referral = [u \in Users |-> users[u].referrer]
        /\ agreed = {<<Phone, Bot>>} \cup (({t} \ {Nobody}) \X {Site})
  BY DEF Init
<1>2. users[Site].telegram = t /\ users[Site].exists
  BY <1>1 DEF New
<1>3. users[Bot].telegram = Phone /\ users[Bot].exists
  BY <1>1 DEF New
<1>4. ASSUME NEW u \in Users \ {Site, Bot} PROVE users[u].telegram = Nobody
  BY <1>1, AbsentType
<1>5. <<Phone, Bot>> \in agreed /\ (t # Nobody => <<t, Site>> \in agreed)
  BY <1>1
<1>6. Owned
  BY <1>2, <1>3, <1>4, <1>5 DEF Owned
<1>7. Alone
  BY <1>2, <1>3, <1>4 DEF Alone
<1>8. Promised
  BY DEF Init, Promised, Backed, Pledged, Idle
<1> QED
  BY <1>6, <1>7, <1>8, TypedInit DEF Bound

\* Requests that arrive write no account, and a link has its code's consent.
LEMMA ArrivalsBound ==
    ASSUME Bound, NEW c \in Requests,
           \/ Register(c)
           \/ \E t \in Telegrams : Start(c, t) \/ Link(c, t) \/ BotToggle(c, t)
           \/ \E u \in Users : Unlink(c, u) \/ ToggleTFA(c, u)
    PROVE  users' = users /\ agreed \subseteq agreed' /\ Promised'
<1> USE DEF Bound
<1>1. users' = users /\ agreed \subseteq agreed'
  <2>1. CASE Register(c)
    BY <2>1 DEF Register, tables, history
  <2>2. CASE \E t \in Telegrams : Start(c, t) \/ Link(c, t) \/ BotToggle(c, t)
    BY <2>2 DEF Start, Link, BotToggle, tables, history
  <2>3. CASE \E u \in Users : Unlink(c, u) \/ ToggleTFA(c, u)
    BY <2>3 DEF Unlink, ToggleTFA, tables, history
  <2> QED
    BY <2>1, <2>2, <2>3
<1>2. CASE \E t \in Telegrams : Link(c, t)
  <2>1. PICK t \in Telegrams, u \in Users :
          /\ agreed' = agreed \cup {<<t, u>>}
          /\ Become(c, [Idle EXCEPT !.op = "link", !.at = "find", !.telegram = t, !.user = u])
    BY <1>2 DEF Link
  <2> DEFINE q == [Idle EXCEPT !.op = "link", !.at = "find", !.telegram = t, !.user = u]
  <2>2. q.telegram = t /\ q.user = u
    BY DEF Idle
  <2>3. Become(c, q)
    BY <2>1
  <2> HIDE DEF q
  <2> QED
    BY <1>1, <2>1, <2>2, <2>3, PromiseKept
<1>3. ASSUME NEW r, Become(c, r), r.at \in {"insert", "clear", "switch"} PROVE Promised'
  BY <1>1, <1>3, PromiseKept DEF Pledged
<1>4. CASE Register(c)
  <2>1. PICK n, s : Become(c, [Idle EXCEPT !.op = "register", !.at = "insert",
                                           !.user = NewID, !.name = n, !.other = s])
    BY <1>4 DEF Register
  <2> DEFINE q == [Idle EXCEPT !.op = "register", !.at = "insert",
                     !.user = NewID, !.name = n, !.other = s]
  <2>2. q.at = "insert"
    BY DEF Idle
  <2>3. Become(c, q)
    BY <2>1
  <2> HIDE DEF q
  <2> QED
    BY <1>1, <1>3, <2>2, <2>3
<1>5. CASE \E t \in Telegrams : Start(c, t)
  <2>1. PICK t, s : Become(c, [Idle EXCEPT !.op = "start", !.at = "insert",
                                  !.telegram = t, !.user = NewID, !.other = s,
                                  !.name = IF Taken(t) THEN Unique ELSE t,
                                  !.again = Taken(t)])
    BY <1>5 DEF Start
  <2> DEFINE q == [Idle EXCEPT !.op = "start", !.at = "insert",
                     !.telegram = t, !.user = NewID, !.other = s,
                     !.name = IF Taken(t) THEN Unique ELSE t,
                     !.again = Taken(t)]
  <2>2. q.at = "insert"
    BY DEF Idle
  <2>3. Become(c, q)
    BY <2>1
  <2> HIDE DEF q
  <2> QED
    BY <1>1, <1>3, <2>2, <2>3
<1>6. CASE \E t \in Telegrams : BotToggle(c, t)
  <2>1. PICK u : Become(c, [Idle EXCEPT !.op = "bot_tfa", !.at = "switch", !.user = u,
                                        !.on = ~users[u].tfa])
    BY <1>6 DEF BotToggle
  <2> DEFINE q == [Idle EXCEPT !.op = "bot_tfa", !.at = "switch", !.user = u,
                     !.on = ~users[u].tfa]
  <2>2. q.at = "switch"
    BY DEF Idle
  <2>3. Become(c, q)
    BY <2>1
  <2> HIDE DEF q
  <2> QED
    BY <1>1, <1>3, <2>2, <2>3
<1>7. CASE \E u \in Users : Unlink(c, u)
  <2>1. PICK u : Become(c, [Idle EXCEPT !.op = "unlink", !.at = "clear", !.user = u])
    BY <1>7 DEF Unlink
  <2> DEFINE q == [Idle EXCEPT !.op = "unlink", !.at = "clear", !.user = u]
  <2>2. q.at = "clear"
    BY DEF Idle
  <2>3. Become(c, q)
    BY <2>1
  <2> HIDE DEF q
  <2> QED
    BY <1>1, <1>3, <2>2, <2>3
<1>8. CASE \E u \in Users : ToggleTFA(c, u)
  <2>1. PICK u, on : Become(c, [Idle EXCEPT !.op = "tfa", !.at = "switch", !.user = u, !.on = on])
    BY <1>8 DEF ToggleTFA
  <2> DEFINE q == [Idle EXCEPT !.op = "tfa", !.at = "switch", !.user = u, !.on = on]
  <2>2. q.at = "switch"
    BY DEF Idle
  <2>3. Become(c, q)
    BY <2>1
  <2> HIDE DEF q
  <2> QED
    BY <1>1, <1>3, <2>2, <2>3
<1> QED
  BY <1>1, <1>2, <1>4, <1>5, <1>6, <1>7, <1>8

\* Bind gives a Telegram to the account that it was agreed for, and to no other.
LEMMA BindBound ==
    ASSUME Bound, NEW c \in Requests, Bind(c)
    PROVE  Owned' /\ Alone' /\ Promised'
<1> USE DEF Bound
<1> DEFINE r == req[c]
<1>1. r.at = "bind" /\ Ends(c) /\ agreed' = agreed
  BY DEF Bind, At, history
<1>2. Promised'
  BY <1>1, PromiseEnds
<1>3. r.user \in Users /\ r.telegram \in Telegrams /\ users \in [Users -> Account]
  <2>1. r.at # "idle"
    BY <1>1
  <2> QED
    BY <1>1, <2>1, RequestType DEF Fits, TypeOK
<1>4. CASE users' = users
  BY <1>1, <1>2, <1>4, KeepsOwners DEF Keeps
<1>5. CASE users' = [users EXCEPT ![r.user].owns = TRUE]
  <2>1. Keeps
    BY <1>3, <1>5 DEF Keeps, Account
  <2> QED
    BY <1>1, <1>2, <2>1, KeepsOwners
<1>6. CASE /\ Of(r.telegram) \subseteq {r.user} /\ Exists(r.user)
           /\ \E o : users' = [users EXCEPT ![r.user].telegram = r.telegram, ![r.user].owns = o]
  <2>1. PICK o : users' = [users EXCEPT ![r.user].telegram = r.telegram, ![r.user].owns = o]
    BY <1>6
  <2>2. users'[r.user].telegram = r.telegram /\ users'[r.user].exists
    BY <1>3, <1>6, <2>1 DEF Account, Exists
  <2>3. ASSUME NEW u \in Users \ {r.user} PROVE users'[u] = users[u]
    BY <1>3, <2>1
  <2>4. <<r.telegram, r.user>> \in agreed
    BY <1>1 DEF Promised, Backed, Pledged
  <2>5. ASSUME NEW u \in Users \ {r.user} PROVE users[u].telegram # r.telegram
    BY <1>3, <1>6, ConstantTypes DEF Of, Owned
  <2>6. Owned'
    BY <1>1, <1>3, <2>2, <2>3, <2>4 DEF Owned
  <2>7. Alone'
    BY <1>3, <2>2, <2>3, <2>5 DEF Alone
  <2> QED
    BY <1>2, <2>6, <2>7
<1> QED
  BY <1>2, <1>4, <1>5, <1>6 DEF Bind

\* The other steps of a request keep the rows' Telegrams, and its promise.
LEMMA ServeBound ==
    ASSUME Bound, NEW c \in Requests, Serve(c), ~Bind(c)
    PROVE  Keeps /\ agreed \subseteq agreed' /\ Promised'
<1> USE DEF Bound
<1>0. users \in [Users -> Account] /\ TypeOK
  BY DEF Typed, TypeOK
<1>1. ASSUME users' = users PROVE Keeps
  BY <1>1 DEF Keeps
<1>2. CASE Create(c)
  <2> DEFINE r == req[c]
  <2>1. r.at = "insert" /\ users' = [users EXCEPT ![r.user] = New(r.name, r.other)]
        /\ agreed' = IF r.op = "start" THEN agreed \cup {<<r.telegram, r.user>>} ELSE agreed
    BY <1>2 DEF Create, At
  <2>2. New(r.name, r.other).telegram = Nobody
    BY DEF New
  <2>3. Keeps
    BY <1>0, <2>1, <2>2 DEF Keeps
  <2>4. agreed \subseteq agreed' /\ (r.op = "start" => <<r.telegram, r.user>> \in agreed')
    BY <2>1
  <2>5. CASE r.other # Nobody
    <3>1. Goes(c, "refer")
      BY <1>2, <2>5 DEF Create
    <3> QED
      BY <2>3, <2>4, <3>1, PromiseGoes DEF Points
  <2>6. CASE r.other = Nobody
    <3>1. Continues(c)
      BY <1>2, <2>6 DEF Create
    <3> QED
      BY <2>3, <2>4, <3>1, PromiseContinues
  <2> QED
    BY <2>5, <2>6
<1>3. CASE CreateFails(c)
  <2>1. req[c].at = "insert" /\ users' = users /\ agreed' = agreed
    BY <1>3 DEF CreateFails, At, tables, history
  <2>2. CASE Ends(c)
    BY <1>1, <2>1, <2>2, PromiseEnds
  <2>3. CASE \E second \in Again(req[c]) : Become(c, second)
    <3>1. PICK second \in Again(req[c]) : Become(c, second)
      BY <2>3
    <3>2. req[c] \in Request
      BY DEF Typed, TypeOK
    <3>3. second.at = "insert"
      BY <2>1, <3>1, <3>2 DEF Again, Request
    <3> QED
      BY <1>1, <2>1, <3>1, <3>3, PromiseKept DEF Pledged
  <2> QED
    BY <1>3, <2>2, <2>3 DEF CreateFails
<1>4. CASE CreateReferral(c)
  <2>1. req[c].at = "refer" /\ Continues(c) /\ users' = users /\ agreed' = agreed
    BY <1>4 DEF CreateReferral, At, history
  <2>2. req[c].op = "start" => <<req[c].telegram, req[c].user>> \in agreed
    BY <2>1 DEF Promised, Backed, Pledged
  <2> QED
    BY <1>1, <2>1, <2>2, PromiseContinues
<1>5. CASE FindLinked(c)
  <2> DEFINE r == req[c]
  <2>1. r.at = "find" /\ users' = users /\ agreed' = agreed
    BY <1>5 DEF FindLinked, At, tables, history
  <2>2. <<r.telegram, r.user>> \in agreed
    BY <2>1 DEF Promised, Backed, Pledged
  <2>3. CASE Goes(c, "bind")
    BY <1>1, <2>1, <2>2, <2>3, PromiseGoes DEF Points
  <2>4. CASE Ends(c)
    BY <1>1, <2>1, <2>4, PromiseEnds
  <2>5. CASE \E s \in Of(r.telegram) \ {r.user} : Become(c, [r EXCEPT !.at = "lock", !.other = s])
    <3>1. PICK s : Become(c, [r EXCEPT !.at = "lock", !.other = s])
      BY <2>5
    <3> DEFINE q == [r EXCEPT !.at = "lock", !.other = s]
    <3>2. r \in Request
      BY DEF Typed, TypeOK
    <3>3. q.telegram = r.telegram /\ q.user = r.user
      BY <3>2 DEF Request
    <3>4. Become(c, q)
      BY <3>1
    <3> HIDE DEF q
    <3> QED
      BY <1>1, <2>1, <2>2, <3>3, <3>4, PromiseKept
  <2> QED
    BY <1>5, <2>3, <2>4, <2>5 DEF FindLinked
<1>6. CASE LockSource(c)
  <2> DEFINE r == req[c]
  <2>1. r.at = "lock" /\ users' = users /\ agreed' = agreed
    BY <1>6 DEF LockSource, At, history
  <2>2. <<r.telegram, r.user>> \in agreed
    BY <2>1 DEF Promised, Backed, Pledged
  <2>3. CASE Ends(c)
    BY <1>1, <2>1, <2>3, PromiseEnds
  <2>4. CASE Become(c, [r EXCEPT !.at = "take", !.yad = users[r.other].yad,
                                 !.trial = users[r.other].trial])
    <3> DEFINE q == [r EXCEPT !.at = "take", !.yad = users[r.other].yad,
                              !.trial = users[r.other].trial]
    <3>1. r \in Request
      BY DEF Typed, TypeOK
    <3>2. q.telegram = r.telegram /\ q.user = r.user
      BY <3>1 DEF Request
    <3>3. Become(c, q)
      BY <2>4
    <3> HIDE DEF q
    <3> QED
      BY <1>1, <2>1, <2>2, <3>2, <3>3, PromiseKept
  <2> QED
    BY <1>6, <2>3, <2>4 DEF LockSource
<1>7. CASE TakeDestination(c)
  <2>1. req[c].at = "take" /\ Goes(c, "move") /\ users' = users /\ agreed' = agreed
    BY <1>7 DEF TakeDestination, At, history
  <2>2. <<req[c].telegram, req[c].user>> \in agreed
    BY <2>1 DEF Promised, Backed, Pledged
  <2> QED
    BY <1>1, <2>1, <2>2, PromiseGoes DEF Points
<1>8. CASE Move(c)
  <2>1. /\ req[c].at = "move" /\ Goes(c, "bind") /\ agreed' = agreed
        /\ users' = Merged(req[c].other, req[c].user, req[c].yad, req[c].trial)
    BY <1>8 DEF Move, At, history
  <2>2. <<req[c].telegram, req[c].user>> \in agreed
    BY <2>1 DEF Promised, Backed, Pledged
  <2>3. /\ req[c].user \in Users /\ req[c].other \in Users
        /\ req[c].yad \in Nat /\ req[c].trial \in BOOLEAN
    BY <2>1, RequestType DEF Fits
  <2>4. Keeps
    BY <1>0, <2>1, <2>3, MergedType DEF Keeps
  <2> QED
    BY <2>1, <2>2, <2>4, PromiseGoes DEF Points
<1>9. CASE MergeFails(c) \/ Deadlock(c)
  <2>1. Ends(c) /\ users' = users /\ agreed' = agreed
    BY <1>9 DEF MergeFails, Deadlock, history
  <2> QED
    BY <1>1, <2>1, PromiseEnds
<1>10. CASE Clear(c) \/ Disable(c) \/ Switch(c)
  <2>1. agreed' = agreed
    BY <1>10 DEF Clear, Disable, Switch, history
  <2>2. Keeps
    BY <1>0, <1>10 DEF Clear, Disable, Switch, Keeps, Account
  <2>3. Ends(c) \/ Goes(c, "disable")
    BY <1>10 DEF Clear, Disable, Switch
  <2> QED
    BY <2>1, <2>2, <2>3, PromiseEnds, PromiseGoes DEF Points
<1> QED
  BY <1>2, <1>3, <1>4, <1>5, <1>6, <1>7, <1>8, <1>9, <1>10 DEF Serve

LEMMA BoundNext == Bound /\ [Next]_vars => Bound'
<1> SUFFICES ASSUME Bound, [Next]_vars PROVE Bound'
  OBVIOUS
<1>1. Typed'
  BY TypedNext DEF Bound
<1>2. ASSUME Keeps, agreed \subseteq agreed', Promised' PROVE Bound'
  BY <1>1, <1>2, KeepsOwners DEF Bound
<1>3. ASSUME users' = users PROVE Keeps
  BY <1>3 DEF Keeps
<1>4. ASSUME NEW c \in Requests, Serve(c) PROVE Bound'
  <2>1. CASE Bind(c)
    BY <1>1, <2>1, BindBound DEF Bound
  <2>2. CASE ~Bind(c)
    BY <1>2, <1>4, <2>2, ServeBound
  <2> QED
    BY <2>1, <2>2
<1>5. ASSUME NEW c \in Requests,
             \/ Register(c)
             \/ \E t \in Telegrams : Start(c, t) \/ Link(c, t) \/ BotToggle(c, t)
             \/ \E u \in Users : Unlink(c, u) \/ ToggleTFA(c, u)
      PROVE  Bound'
  BY <1>2, <1>3, <1>5, ArrivalsBound
<1>6. ASSUME NEW u \in Users,
             \/ GenerateLinkCode(u) \/ StoreUnlinkCode(u)
             \/ AdjustYADBalance(u) \/ SetTrialUsed(u)
      PROVE  Bound'
  <2>1. req' = req /\ agreed' = agreed
    BY <1>6 DEF GenerateLinkCode, StoreUnlinkCode, AdjustYADBalance, SetTrialUsed, history
  <2>2. users \in [Users -> Account]
    BY DEF Bound, Typed, TypeOK
  <2>3. Keeps
    BY <1>6, <2>2 DEF GenerateLinkCode, StoreUnlinkCode, AdjustYADBalance, SetTrialUsed,
                      tables, Keeps, Account
  <2>4. Promised'
    BY <2>1 DEF Bound, Promised, Backed, Pledged
  <2> QED
    BY <1>2, <2>1, <2>3, <2>4
<1>7. CASE Next
  BY <1>4, <1>5, <1>6, <1>7, UnlinkCodeStored DEF Next
<1>8. CASE UNCHANGED vars
  <2>1. users' = users /\ req' = req /\ agreed' = agreed
    BY <1>8 DEF vars, tables, history
  <2>2. Promised'
    BY <2>1 DEF Bound, Promised, Backed, Pledged
  <2> QED
    BY <1>2, <1>3, <2>1, <2>2
<1> QED
  BY <1>7, <1>8

\* However registrations, links, merges and unlinkings cross, a Telegram leads
\* to an account that was opened for it or whose code it entered, and to one.
THEOREM NoStrangersAccount == Spec => []TelegramAgreed
<1>1. Bound => TelegramAgreed
  <2> SUFFICES ASSUME Bound, NEW u \in Users, users[u].telegram # Nobody
               PROVE  /\ users[u].exists /\ <<users[u].telegram, u>> \in agreed
                      /\ Of(users[u].telegram) = {u}
    BY DEF TelegramAgreed
  <2> QED
    BY DEF Bound, Owned, Alone, Of
<1> QED
  BY <1>1, BoundInit, BoundNext, PTL DEF Spec

-----------------------------------------------------------------------------
(* What a merge moves.  A step of the handlers maps to a whole step of     *)
(* Holdings or to none, because of what a request may rely on between its  *)
(* statements: Sure says it, Ledgers what the rows say of each other.      *)

Ledgers ==
    /\ \A u \in Users : users[u].exists => u \in opened
    /\ \A u \in Users : ~users[u].exists =>
        users[u].yad = 0 /\ ~users[u].trial /\ users[u].referrer = Nobody
    /\ \A u \in Users : users[u].yad # 0 \/ users[u].trial => users[u].owns
    /\ \A u \in Users : links[u] > 0 \/ holder[u] # Nobody => u \in opened

\* An identity is inserted once; a referral is written as the row has it, if
\* both are still there; a merge has what it read under lock.
Sure(c) ==
    LET r == req[c] IN
    /\ r.at = "insert" => r.user \notin opened
    /\ r.at \in {"refer", "find", "lock", "take", "move"} => r.user \in opened
    /\ r.at = "refer" =>
        /\ r.other \in opened
        /\ users[r.user].exists /\ users[r.other].exists => users[r.user].referrer = r.other
    /\ r.at \in {"lock", "take", "move"} => r.other # r.user
    /\ r.at \in {"take", "move"} =>
        /\ holder[r.other] = c
        /\ users[r.other].exists
        /\ users[r.other].yad = r.yad /\ users[r.other].trial = r.trial
    /\ r.at = "move" /\ users[r.user].exists => holder[r.user] = c

Sole == \A c, d \in Requests :
            c # d /\ req[c].at = "insert" /\ req[d].at = "insert" => req[c].user # req[d].user

Holding == Typed /\ Ledgers /\ Sole /\ \A c \in Requests : Sure(c)

\* No account is opened, dropped or moved, and nothing is credited or used.
Still == \A u \in Users :
    /\ users'[u].exists = users[u].exists
    /\ users'[u].yad = users[u].yad /\ users'[u].trial = users[u].trial
    /\ users'[u].referrer = users[u].referrer
    /\ users[u].owns => users'[u].owns

\* What the requests other than c rely on stays.
Frame(c) ==
    /\ opened \subseteq opened'
    /\ \A u \in opened : users'[u].exists => users[u].exists
    /\ \A u \in Users : holder[u] \notin {Nobody, c} =>
        /\ holder'[u] = holder[u]
        /\ users'[u].exists = users[u].exists
        /\ users'[u].yad = users[u].yad /\ users'[u].trial = users[u].trial
    /\ \A u, v \in opened :
        users'[u].exists /\ users'[v].exists /\ users[u].referrer = v => users'[u].referrer = v

LEMMA OthersSure ==
    ASSUME Typed, NEW c, NEW d \in Requests \ {c}, Frame(c), Sure(d), req'[d] = req[d],
           req[d].at = "insert" => req[d].user \notin opened'
    PROVE  Sure(d)'
<1> DEFINE r == req[d]
<1>1. r \in Request /\ Fits(r) /\ TypeOK /\ d # Nobody
  BY ConstantTypes DEF Typed, TypeOK
<1>2. ASSUME r.at \in {"take", "move"}
      PROVE  /\ holder'[r.other] = d
             /\ users'[r.other].exists
             /\ users'[r.other].yad = r.yad /\ users'[r.other].trial = r.trial
  <2>1. r.other \in Users
    BY <1>1, <1>2 DEF Fits
  <2> QED
    BY <1>1, <1>2, <2>1 DEF Sure, Frame
<1>3. ASSUME r.at \in {"refer", "find", "lock", "take", "move"} PROVE r.user \in opened'
  BY <1>3 DEF Sure, Frame
<1>4. ASSUME r.at = "refer"
      PROVE  /\ r.other \in opened'
             /\ users'[r.user].exists /\ users'[r.other].exists => users'[r.user].referrer = r.other
  BY <1>4 DEF Sure, Frame
<1>5. ASSUME r.at = "move", users'[r.user].exists PROVE holder'[r.user] = d
  <2>1. r.user \in Users /\ r.user \in opened
    BY <1>1, <1>5 DEF Fits, Sure
  <2>2. holder[r.user] = d
    BY <1>5, <2>1 DEF Sure, Frame
  <2> QED
    BY <1>1, <2>1, <2>2 DEF Frame
<1>6. ASSUME r.at \in {"lock", "take", "move"} PROVE r.other # r.user
  BY <1>6 DEF Sure
<1> HIDE DEF r
<1>7. r = req'[d]
  BY DEF r
<1> QED
  BY <1>2, <1>3, <1>4, <1>5, <1>6, <1>7 DEF Sure, r

\* A step of c alone.
LEMMA StepHolding ==
    ASSUME Holding, Typed', Ledgers', NEW c \in Requests, Frame(c),
           \A d \in Requests \ {c} : req'[d] = req[d],
           opened' = opened \/ (req[c].at = "insert" /\ opened' = opened \cup {req[c].user}),
           req'[c].at = "insert" =>
                \A d \in Requests \ {c} : req[d].at = "insert" => req'[c].user # req[d].user,
           Sure(c)'
    PROVE  Holding'
<1>1. ASSUME NEW d \in Requests \ {c} PROVE Sure(d)'
  <2>1. req[d].at = "insert" => req[d].user \notin opened'
    BY DEF Holding, Sure, Sole
  <2> QED
    BY <2>1, OthersSure DEF Holding
<1>2. Sole'
  BY DEF Holding, Sole
<1> QED
  BY <1>1, <1>2 DEF Holding

\* A step of no request.
LEMMA QuietHolding ==
    ASSUME Holding, Typed', Ledgers', Frame(Nobody), req' = req, opened' = opened
    PROVE  Holding'
<1>1. ASSUME NEW d \in Requests PROVE Sure(d)'
  <2>1. d \in Requests \ {Nobody}
    BY ConstantTypes
  <2>2. req[d].at = "insert" => req[d].user \notin opened'
    BY DEF Holding, Sure
  <2> QED
    BY <2>1, <2>2, OthersSure DEF Holding
<1>2. Sole'
  BY DEF Holding, Sole
<1> QED
  BY <1>1, <1>2 DEF Holding

LEMMA StillLedgers ==
    ASSUME Ledgers, Still, opened' = opened,
           \A u \in Users : links'[u] > 0 \/ holder'[u] # Nobody => u \in opened
    PROVE  Ledgers'
<1>1. ASSUME NEW u \in Users, ~users'[u].exists
      PROVE  users'[u].yad = 0 /\ ~users'[u].trial /\ users'[u].referrer = Nobody
  BY <1>1 DEF Ledgers, Still
<1>2. ASSUME NEW u \in Users PROVE users'[u].yad # 0 \/ users'[u].trial => users'[u].owns
  BY DEF Ledgers, Still
<1>3. ASSUME NEW u \in Users PROVE users'[u].exists => u \in opened
  BY DEF Ledgers, Still
<1> QED
  BY <1>1, <1>2, <1>3 DEF Ledgers

LEMMA StillFrame ==
    ASSUME Typed, Still, opened' = opened, NEW c,
           \A u \in Users : holder[u] \notin {Nobody, c} => holder'[u] = holder[u]
    PROVE  Frame(c)
<1>1. opened \subseteq Users
  BY DEF Typed, TypeOK
<1> QED
  BY <1>1 DEF Still, Frame

\* A request that has nothing to rely on.
LEMMA CarefreeSure ==
    ASSUME NEW c \in Requests,
           req'[c].at \notin {"insert", "refer", "find", "lock", "take", "move"}
    PROVE  Sure(c)'
BY DEF Sure

\* What a request's record is afterwards, and those of the others.
LEMMA RequestsAfter ==
    ASSUME Typed, NEW c \in Requests
    PROVE  /\ \A r : Become(c, r) => req'[c] = r /\ \A d \in Requests \ {c} : req'[d] = req[d]
           /\ \A p : Goes(c, p) =>
                /\ req'[c] = [req[c] EXCEPT !.at = p] /\ req'[c].at = p
                /\ \A d \in Requests \ {c} : req'[d] = req[d]
           /\ Ends(c) => req'[c] = Idle /\ \A d \in Requests \ {c} : req'[d] = req[d]
<1>1. req \in [Requests -> Request] /\ req[c] \in Request
  BY DEF Typed, TypeOK
<1>2. \A r : Become(c, r) => req'[c] = r /\ \A d \in Requests \ {c} : req'[d] = req[d]
  BY <1>1 DEF Become
<1>3. ASSUME NEW p, Goes(c, p)
      PROVE  /\ req'[c] = [req[c] EXCEPT !.at = p] /\ req'[c].at = p
             /\ \A d \in Requests \ {c} : req'[d] = req[d]
  <2>1. req' = [req EXCEPT ![c] = [req[c] EXCEPT !.at = p]]
    BY <1>1, <1>3 DEF Goes
  <2>2. [req[c] EXCEPT !.at = p].at = p
    BY <1>1 DEF Request
  <2> QED
    BY <1>1, <2>1, <2>2
<1>4. Ends(c) => req'[c] = Idle /\ \A d \in Requests \ {c} : req'[d] = req[d]
  BY <1>1 DEF Ends
<1> QED
  BY <1>2, <1>3, <1>4

\* A request that ends, or goes where it has nothing to rely on.
LEMMA CarefreeStep ==
    ASSUME Holding, Typed', Ledgers', NEW c \in Requests, Frame(c),
           Ends(c) \/ Goes(c, "bind") \/ Goes(c, "disable"), opened' = opened
    PROVE  Holding'
<1>1. \A d \in Requests \ {c} : req'[d] = req[d]
  BY RequestsAfter DEF Holding
<1>2. req'[c].at \in {"idle", "bind", "disable"}
  BY RequestsAfter, IdleType DEF Holding
<1> QED
  BY <1>1, <1>2, CarefreeSure, StepHolding

LEMMA HoldingInit == Init => Holding
<1> SUFFICES ASSUME Init PROVE Holding
  OBVIOUS
<1> USE ConstantTypes
<1>1. PICK s \in BOOLEAN, b \in BOOLEAN, first \in {Site, Bot, Nobody},
           t \in {Nobody} \cup (Telegrams \ {Phone}) :
        /\ users = [u \in Users |->
             IF u = Site THEN [New(Unique, IF first = Bot THEN Bot ELSE Nobody)
                                EXCEPT !.telegram = t, !.trial = s, !.owns = s]
             ELSE IF u = Bot THEN [New(Phone, IF first = Site THEN Site ELSE Nobody)
                                EXCEPT !.telegram = Phone, !.trial = b, !.owns = b]
             ELSE Absent]
        /\ referral = [u \in Users |-> users[u].referrer]
        /\ agreed = {<<Phone, Bot>>} \cup (({t} \ {Nobody}) \X {Site})
  BY DEF Init
<1>2. users[Site].exists /\ users[Site].yad = 0 /\ (users[Site].trial => users[Site].owns)
  BY <1>1 DEF New
<1>3. users[Bot].exists /\ users[Bot].yad = 0 /\ (users[Bot].trial => users[Bot].owns)
  BY <1>1 DEF New
<1>4. ASSUME NEW u \in Users \ {Site, Bot} PROVE users[u] = Absent
  BY <1>1
<1>5. ~Absent.exists /\ Absent.yad = 0 /\ ~Absent.trial /\ Absent.referrer = Nobody
  BY DEF Absent, New
<1>6. opened = {Site, Bot} /\ links = [u \in Users |-> IF users[u].exists THEN MaxCodes ELSE 0]
  BY DEF Init
<1>7. Ledgers
  <2>1. holder = [u \in Users |-> Nobody]
    BY DEF Init
  <2> QED
    BY <2>1, <1>2, <1>3, <1>4, <1>5, <1>6 DEF Ledgers
<1>8. \A c \in Requests : req[c].at = "idle"
  BY DEF Init, Idle
<1>9. Sole /\ \A c \in Requests : Sure(c)
  BY <1>8 DEF Sole, Sure
<1> QED
  BY <1>7, <1>9, TypedInit DEF Holding

\* No account, no identity and no lock is touched.
LEMMA UntouchedHolding ==
    ASSUME Holding, Typed', users' = users, opened' = opened,
           \A u \in Users : links'[u] > 0 \/ holder'[u] # Nobody => u \in opened,
           NEW c \in Requests,
           \A u \in Users : holder[u] \notin {Nobody, c} => holder'[u] = holder[u]
    PROVE  Ledgers' /\ Frame(c)
<1>1. Still
  BY DEF Still
<1> QED
  BY <1>1, StillLedgers, StillFrame DEF Holding

\* A request that arrives has an identity of its own to give, or the account of
\* a code.
LEMMA ArrivalsHolding ==
    ASSUME Holding, NEW c \in Requests,
           \/ Register(c)
           \/ \E t \in Telegrams : Start(c, t) \/ Link(c, t) \/ BotToggle(c, t)
           \/ \E u \in Users : Unlink(c, u) \/ ToggleTFA(c, u)
    PROVE  Holding'
<1>1. Typed'
  BY ArrivalsType DEF Holding
<1>2. users' = users /\ opened' = opened /\ holder' = holder
  <2>1. CASE Register(c)
    BY <2>1 DEF Register, tables, history
  <2>2. CASE \E t \in Telegrams : Start(c, t) \/ Link(c, t) \/ BotToggle(c, t)
    BY <2>2 DEF Start, Link, BotToggle, tables, history
  <2>3. CASE \E u \in Users : Unlink(c, u) \/ ToggleTFA(c, u)
    BY <2>3 DEF Unlink, ToggleTFA, tables, history
  <2> QED
    BY <2>1, <2>2, <2>3
<1>3. \A u \in Users : links'[u] > 0 \/ holder'[u] # Nobody => u \in opened
  <2>1. links' = links \/ \E u \in Users : links' = [links EXCEPT ![u] = @ - 1]
    <3>1. CASE Register(c)
      BY <3>1 DEF Register, codes
    <3>2. CASE \E t \in Telegrams : Start(c, t) \/ Link(c, t) \/ BotToggle(c, t)
      BY <3>2 DEF Start, Link, BotToggle, codes
    <3>3. CASE \E u \in Users : Unlink(c, u) \/ ToggleTFA(c, u)
      BY <3>3 DEF Unlink, ToggleTFA, codes
    <3> QED
      BY <3>1, <3>2, <3>3
  <2>2. links \in [Users -> 0..MaxCodes] /\ MaxCodes \in Nat
    BY ConstantTypes DEF Holding, Typed, TypeOK
  <2>3. \A u \in Users : links'[u] > 0 => u \in opened
    BY <2>1, <2>2 DEF Holding, Ledgers
  <2> QED
    BY <1>2, <2>3 DEF Holding, Ledgers
<1>4. Ledgers' /\ Frame(c)
  BY <1>1, <1>2, <1>3, UntouchedHolding
<1>5. ASSUME NEW q, Become(c, q), Sure(c)', q.at # "insert" \/ q.user \in Unused
      PROVE  Holding'
  <2>1. req'[c] = q /\ \A d \in Requests \ {c} : req'[d] = req[d]
    BY <1>5, RequestsAfter DEF Holding
  <2>2. q.at = "insert" =>
            \A d \in Requests \ {c} : req[d].at = "insert" => q.user # req[d].user
    BY <1>5 DEF Unused
  <2> QED
    BY <1>1, <1>2, <1>4, <1>5, <2>1, <2>2, StepHolding
<1>6. ASSUME NEW q, Become(c, q), q.at \in {"clear", "switch"} PROVE Holding'
  <2>1. req'[c] = q
    BY <1>6, RequestsAfter DEF Holding
  <2>2. Sure(c)'
    BY <1>6, <2>1, CarefreeSure
  <2> QED
    BY <1>5, <1>6, <2>2
<1>7. ASSUME NEW q, Become(c, q), q.at = "insert", Unused # {}, q.user = NewID PROVE Holding'
  <2>1. req'[c] = q
    BY <1>7, RequestsAfter DEF Holding
  <2>2. NewID \in Unused
    BY <1>7 DEF NewID
  <2>3. q.user \notin opened
    BY <1>7, <2>2 DEF Unused
  <2>4. Sure(c)'
    BY <1>2, <1>7, <2>1, <2>3 DEF Sure
  <2> QED
    BY <1>5, <1>7, <2>2, <2>4
<1>8. CASE Register(c)
  <2>1. PICK n, s : /\ Unused # {}
                    /\ Become(c, [Idle EXCEPT !.op = "register", !.at = "insert",
                                              !.user = NewID, !.name = n, !.other = s])
    BY <1>8 DEF Register
  <2> DEFINE q == [Idle EXCEPT !.op = "register", !.at = "insert",
                     !.user = NewID, !.name = n, !.other = s]
  <2>2. q.at = "insert" /\ q.user = NewID
    BY DEF Idle
  <2>3. Become(c, q)
    BY <2>1
  <2> HIDE DEF q
  <2> QED
    BY <1>7, <2>1, <2>2, <2>3
<1>9. CASE \E t \in Telegrams : Start(c, t)
  <2>1. PICK t, s : /\ Unused # {}
                    /\ Become(c, [Idle EXCEPT !.op = "start", !.at = "insert",
                                  !.telegram = t, !.user = NewID, !.other = s,
                                  !.name = IF Taken(t) THEN Unique ELSE t,
                                  !.again = Taken(t)])
    BY <1>9 DEF Start
  <2> DEFINE q == [Idle EXCEPT !.op = "start", !.at = "insert",
                     !.telegram = t, !.user = NewID, !.other = s,
                     !.name = IF Taken(t) THEN Unique ELSE t,
                     !.again = Taken(t)]
  <2>2. q.at = "insert" /\ q.user = NewID
    BY DEF Idle
  <2>3. Become(c, q)
    BY <2>1
  <2> HIDE DEF q
  <2> QED
    BY <1>7, <2>1, <2>2, <2>3
<1>10. CASE \E t \in Telegrams : Link(c, t)
  <2>1. PICK t \in Telegrams, u \in Users :
          /\ links[u] > 0
          /\ Become(c, [Idle EXCEPT !.op = "link", !.at = "find", !.telegram = t, !.user = u])
    BY <1>10 DEF Link
  <2> DEFINE q == [Idle EXCEPT !.op = "link", !.at = "find", !.telegram = t, !.user = u]
  <2>2. q.at = "find" /\ q.user = u
    BY DEF Idle
  <2>3. Become(c, q)
    BY <2>1
  <2> HIDE DEF q
  <2>4. req'[c] = q
    BY <2>3, RequestsAfter DEF Holding
  <2>5. u \in opened
    BY <2>1 DEF Holding, Ledgers
  <2>6. Sure(c)'
    BY <1>2, <2>2, <2>4, <2>5 DEF Sure
  <2> QED
    BY <1>5, <2>2, <2>3, <2>6
<1>11. CASE \E t \in Telegrams : BotToggle(c, t)
  <2>1. PICK u : Become(c, [Idle EXCEPT !.op = "bot_tfa", !.at = "switch", !.user = u,
                                        !.on = ~users[u].tfa])
    BY <1>11 DEF BotToggle
  <2> DEFINE q == [Idle EXCEPT !.op = "bot_tfa", !.at = "switch", !.user = u,
                     !.on = ~users[u].tfa]
  <2>2. q.at = "switch"
    BY DEF Idle
  <2>3. Become(c, q)
    BY <2>1
  <2> HIDE DEF q
  <2> QED
    BY <1>6, <2>2, <2>3
<1>12. CASE \E u \in Users : Unlink(c, u)
  <2>1. PICK u : Become(c, [Idle EXCEPT !.op = "unlink", !.at = "clear", !.user = u])
    BY <1>12 DEF Unlink
  <2> DEFINE q == [Idle EXCEPT !.op = "unlink", !.at = "clear", !.user = u]
  <2>2. q.at = "clear"
    BY DEF Idle
  <2>3. Become(c, q)
    BY <2>1
  <2> HIDE DEF q
  <2> QED
    BY <1>6, <2>2, <2>3
<1>13. CASE \E u \in Users : ToggleTFA(c, u)
  <2>1. PICK u, on : Become(c, [Idle EXCEPT !.op = "tfa", !.at = "switch", !.user = u, !.on = on])
    BY <1>13 DEF ToggleTFA
  <2> DEFINE q == [Idle EXCEPT !.op = "tfa", !.at = "switch", !.user = u, !.on = on]
  <2>2. q.at = "switch"
    BY DEF Idle
  <2>3. Become(c, q)
    BY <2>1
  <2> HIDE DEF q
  <2> QED
    BY <1>6, <2>2, <2>3
<1> QED
  BY <1>8, <1>9, <1>10, <1>11, <1>12, <1>13

\* What each request deals with, by its step.
LEMMA InHand ==
    ASSUME Holding, NEW c \in Requests, req[c].at # "idle"
    PROVE  /\ Typed /\ TypeOK /\ req[c] \in Request /\ Fits(req[c]) /\ Sure(c) /\ Ledgers
           /\ req[c].user \in Users /\ req[c].other \in Users \cup {Nobody}
           /\ req[c].yad \in Nat /\ req[c].trial \in BOOLEAN
           /\ users \in [Users -> Account] /\ users[req[c].user] \in Account
           /\ holder \in [Users -> Requests \cup {Nobody}] /\ c # Nobody
BY RequestType, ConstantTypes DEF Holding, TypeOK

\* The insertion: nobody has had the identity.
LEMMA CreateHolding ==
    ASSUME Holding, NEW c \in Requests, Create(c)
    PROVE  Holding'
<1> DEFINE r == req[c]
<1>1. r.at = "insert" /\ r.at # "idle"
  BY DEF Create, At
<1>2. /\ users' = [users EXCEPT ![r.user] = New(r.name, r.other)]
      /\ opened' = opened \cup {r.user} /\ holder' = holder /\ links' = links
  BY DEF Create, codes
<1>3. /\ Ledgers /\ users \in [Users -> Account] /\ r.user \in Users
      /\ r.user \notin opened /\ ~users[r.user].exists /\ opened \subseteq Users
  BY <1>1, InHand DEF Sure, Ledgers, TypeOK
<1>4. Typed'
  BY CreateType DEF Holding
<1>5. LET n == New(r.name, r.other) IN
      n.exists /\ n.yad = 0 /\ ~n.trial /\ n.referrer = r.other
  BY DEF New
<1>6. users'[r.user] = New(r.name, r.other) /\ \A u \in Users \ {r.user} : users'[u] = users[u]
  BY <1>2, <1>3
<1>7. Ledgers'
  <2>1. ASSUME NEW u \in Users PROVE users'[u].exists => u \in opened'
    BY <1>2, <1>3, <1>6 DEF Ledgers
  <2>2. ASSUME NEW u \in Users 
        PROVE  ~users'[u].exists =>
                    users'[u].yad = 0 /\ ~users'[u].trial /\ users'[u].referrer = Nobody
    BY <1>3, <1>5, <1>6 DEF Ledgers
  <2>3. ASSUME NEW u \in Users PROVE users'[u].yad # 0 \/ users'[u].trial => users'[u].owns
    BY <1>3, <1>5, <1>6 DEF Ledgers
  <2>4. ASSUME NEW u \in Users PROVE links'[u] > 0 \/ holder'[u] # Nobody => u \in opened'
    BY <1>2, <1>3 DEF Ledgers
  <2> QED
    BY <2>1, <2>2, <2>3, <2>4 DEF Ledgers
<1>8. Frame(c)
  <2>1. holder[r.user] = Nobody
    BY <1>3 DEF Ledgers
  <2>2. ASSUME NEW u \in Users, holder[u] \notin {Nobody, c}
        PROVE  holder'[u] = holder[u] /\ users'[u] = users[u]
    BY <1>2, <1>6, <2>1, <2>2
  <2>3. ASSUME NEW u \in opened PROVE users'[u] = users[u]
    BY <1>3, <1>6
  <2> QED
    BY <1>2, <2>2, <2>3 DEF Frame
<1>9. CASE r.other # Nobody
  <2>1. Goes(c, "refer") /\ Exists(r.other)
    BY <1>9 DEF Create
  <2>2. /\ req'[c] = [r EXCEPT !.at = "refer"] /\ req'[c].at = "refer"
        /\ \A d \in Requests \ {c} : req'[d] = req[d]
    BY <2>1, RequestsAfter DEF Holding
  <2>3. req'[c].user = r.user /\ req'[c].other = r.other
    BY <1>1, <2>2, InHand DEF Request
  <2>4. r.other \in opened
    BY <1>3, <2>1 DEF Exists, Ledgers
  <2>5. users'[r.user].referrer = r.other
    BY <1>5, <1>6
  <2>6. Sure(c)'
    BY <1>2, <2>2, <2>3, <2>4, <2>5 DEF Sure
  <2> QED
    BY <1>1, <1>2, <1>4, <1>7, <1>8, <2>2, <2>6, StepHolding
<1>10. CASE r.other = Nobody
  <2>1. Ends(c) \/ Goes(c, "bind")
    BY <1>10 DEF Create, Continues, Afterwards
  <2>2. req'[c].at \in {"idle", "bind"} /\ \A d \in Requests \ {c} : req'[d] = req[d]
    BY <2>1, RequestsAfter, IdleType DEF Holding
  <2> QED
    BY <1>1, <1>2, <1>4, <1>7, <1>8, <2>2, CarefreeSure, StepHolding
<1> QED
  BY <1>9, <1>10

\* A step of the registration other than the insertion moves nothing.
LEMMA RegisterStill ==
    ASSUME Holding, NEW c \in Requests, CreateFails(c) \/ CreateReferral(c) \/ Bind(c)
    PROVE  Still
<1> DEFINE r == req[c]
<1>0. r.user \in Users /\ users \in [Users -> Account] /\ users[r.user] \in Account
  <2>1. r.at # "idle"
    BY DEF CreateFails, CreateReferral, Bind, At
  <2> QED
    BY <2>1, InHand
<1>1. CASE users' = users
  BY <1>1 DEF Still
<1>2. CASE /\ Exists(r.user)
           /\ \E t, o : \/ users' = [users EXCEPT ![r.user].telegram = t, ![r.user].owns = o]
                           /\ o \in {users[r.user].owns, TRUE}
                        \/ users' = [users EXCEPT ![r.user].owns = TRUE]
  <2>1. \A u \in Users \ {r.user} : users'[u] = users[u]
    BY <1>0, <1>2
  <2> DEFINE u == r.user
  <2>2. PICK t, o : /\ \/ users' = [users EXCEPT ![u].telegram = t, ![u].owns = o]
                       \/ users' = [users EXCEPT ![u].owns = o]
                    /\ users[u].owns => o
    BY <1>0, <1>2 DEF Account
  <2>3. \/ users'[u] = [users[u] EXCEPT !.telegram = t, !.owns = o]
        \/ users'[u] = [users[u] EXCEPT !.owns = o]
    BY <1>0, <2>2
  <2>4. /\ users'[u].exists = users[u].exists
        /\ users'[u].yad = users[u].yad /\ users'[u].trial = users[u].trial
        /\ users'[u].referrer = users[u].referrer
        /\ users'[u].owns = o
    BY <1>0, <2>3 DEF Account
  <2>5. users[u].exists
    BY <1>2 DEF Exists
  <2> HIDE DEF u
  <2>6. \A v \in Users : v = u \/ users'[v] = users[v]
    BY <2>1 DEF u
  <2> QED
    BY <2>2, <2>4, <2>5, <2>6 DEF Still
<1> QED
  BY <1>1, <1>2 DEF CreateFails, CreateReferral, Bind, tables

\* The other steps of registration and binding.
LEMMA RegisterHolding ==
    ASSUME Holding, NEW c \in Requests, CreateFails(c) \/ CreateReferral(c) \/ Bind(c)
    PROVE  Holding'
<1> DEFINE r == req[c]
<1>1. r.at # "idle"
  BY DEF CreateFails, CreateReferral, Bind, At
<1>2. /\ Typed /\ TypeOK /\ r \in Request /\ Sure(c) /\ Ledgers
      /\ r.user \in Users /\ users \in [Users -> Account] /\ users[r.user] \in Account
  BY <1>1, InHand
<1>3. Typed'
  BY CreateFailsType, CreateReferralType, BindType DEF Holding
<1>4. opened' = opened /\ holder' = holder /\ links' = links
  BY DEF CreateFails, CreateReferral, Bind, tables, codes, history
<1>5. Still
  BY RegisterStill
<1>6. Ledgers' /\ Frame(c)
  BY <1>2, <1>4, <1>5, StillLedgers, StillFrame DEF Ledgers
<1>7. CASE Ends(c) \/ Goes(c, "bind") \/ Goes(c, "disable")
  BY <1>3, <1>4, <1>6, <1>7, CarefreeStep
<1>8. CASE CreateFails(c) /\ \E second \in Again(r) : Become(c, second)
  <2>1. PICK second \in Again(r) : Become(c, second)
    BY <1>8
  <2>2. r.at = "insert"
    BY <1>8 DEF CreateFails, At
  <2>3. second.at = "insert" /\ second.user = r.user
    BY <1>2, <2>1, <2>2 DEF Again, Request
  <2>4. req'[c] = second /\ \A d \in Requests \ {c} : req'[d] = req[d]
    BY <1>2, <2>1, RequestsAfter
  <2>5. Sure(c)'
    BY <1>2, <1>4, <2>2, <2>3, <2>4 DEF Sure
  <2>6. \A d \in Requests \ {c} : req[d].at = "insert" => second.user # req[d].user
    BY <2>2, <2>3 DEF Holding, Sole
  <2> QED
    BY <1>3, <1>4, <1>6, <2>4, <2>5, <2>6, StepHolding
<1> QED
  BY <1>7, <1>8 DEF CreateFails, CreateReferral, Bind, Continues, Afterwards

\* The way to a merge: the account to be merged is another one, and its row is
\* locked as it was read.
LEMMA LockHolding ==
    ASSUME Holding, NEW c \in Requests, FindLinked(c) \/ LockSource(c) \/ TakeDestination(c)
    PROVE  Holding'
<1> DEFINE r == req[c]
<1>1. r.at # "idle"
  BY DEF FindLinked, LockSource, TakeDestination, At
<1>2. /\ Typed /\ TypeOK /\ r \in Request /\ Sure(c) /\ Ledgers /\ Fits(r)
      /\ r.user \in Users /\ users \in [Users -> Account]
      /\ holder \in [Users -> Requests \cup {Nobody}] /\ c # Nobody
  BY <1>1, InHand
<1>3. Typed'
  BY FindLinkedType, MergeType DEF Holding
<1>4. users' = users /\ opened' = opened /\ links' = links
  BY DEF FindLinked, LockSource, TakeDestination, tables, codes, history
<1>5. ASSUME holder' = holder \/ \E u \in Users : users[u].exists /\ Writable(c, u)
                                                  /\ holder' = [holder EXCEPT ![u] = c]
      PROVE  Ledgers' /\ Frame(c)
  <2>1. \A u \in Users : holder[u] \notin {Nobody, c} => holder'[u] = holder[u]
    BY <1>2, <1>5 DEF Writable
  <2>2. \A u \in Users : holder'[u] # Nobody => users[u].exists \/ holder[u] # Nobody
    BY <1>2, <1>5
  <2>3. \A u \in Users : links'[u] > 0 \/ holder'[u] # Nobody => u \in opened
    BY <1>2, <1>4, <2>2 DEF Ledgers
  <2> QED
    BY <1>3, <1>4, <2>1, <2>3, UntouchedHolding
<1>6. ASSUME NEW q, req'[c] = q, \A d \in Requests \ {c} : req'[d] = req[d],
             Ledgers', Frame(c), Sure(c)', q.at # "insert"
      PROVE  Holding'
  BY <1>3, <1>4, <1>6, StepHolding
<1>7. CASE FindLinked(c)
  <2>1. r.at = "find" /\ holder' = holder
    BY <1>7 DEF FindLinked, At, tables
  <2>2. CASE Goes(c, "bind") \/ Ends(c)
    BY <1>3, <1>4, <1>5, <2>1, <2>2, CarefreeStep
  <2>3. CASE \E s \in Of(r.telegram) \ {r.user} : Become(c, [r EXCEPT !.at = "lock", !.other = s])
    <3>1. PICK s \in Of(r.telegram) \ {r.user} : Become(c, [r EXCEPT !.at = "lock", !.other = s])
      BY <2>3
    <3> DEFINE q == [r EXCEPT !.at = "lock", !.other = s]
    <3>2. q.at = "lock" /\ q.user = r.user /\ q.other = s
      BY <1>2 DEF Request
    <3>3. Become(c, q)
      BY <3>1
    <3> HIDE DEF q
    <3>4. req'[c] = q /\ \A d \in Requests \ {c} : req'[d] = req[d]
      BY <1>2, <3>3, RequestsAfter
    <3>5. Sure(c)'
      BY <1>2, <1>4, <2>1, <3>1, <3>2, <3>4 DEF Sure
    <3> QED
      BY <1>5, <1>6, <2>1, <3>2, <3>4, <3>5
  <2> QED
    BY <1>7, <2>2, <2>3 DEF FindLinked
<1>8. CASE LockSource(c)
  <2>1. r.at = "lock" /\ r.other \in Users /\ Writable(c, r.other)
    BY <1>2, <1>8 DEF LockSource, At, Fits
  <2>2. CASE Ends(c) /\ holder' = holder
    BY <1>3, <1>4, <1>5, <2>2, CarefreeStep
  <2>3. CASE /\ users[r.other].exists /\ holder' = Locked(r.other, c)
             /\ Become(c, [r EXCEPT !.at = "take", !.yad = users[r.other].yad,
                                    !.trial = users[r.other].trial])
    <3> DEFINE q == [r EXCEPT !.at = "take", !.yad = users[r.other].yad,
                              !.trial = users[r.other].trial]
    <3>1. /\ q.at = "take" /\ q.user = r.user /\ q.other = r.other
          /\ q.yad = users[r.other].yad /\ q.trial = users[r.other].trial
      BY <1>2 DEF Request
    <3>2. Become(c, q)
      BY <2>3
    <3> HIDE DEF q
    <3>3. req'[c] = q /\ \A d \in Requests \ {c} : req'[d] = req[d]
      BY <1>2, <3>2, RequestsAfter
    <3>4. holder'[r.other] = c
      BY <1>2, <2>1, <2>3 DEF Locked
    <3>5. Ledgers' /\ Frame(c)
      BY <1>5, <2>1, <2>3 DEF Locked
    <3>6. r.other # r.user /\ r.user \in opened
      BY <1>2, <2>1 DEF Sure
    <3>7. Sure(c)'
      BY <1>4, <2>3, <3>1, <3>3, <3>4, <3>6 DEF Sure
    <3> QED
      BY <1>6, <3>1, <3>3, <3>5, <3>7
  <2> QED
    BY <1>8, <2>2, <2>3 DEF LockSource
<1>9. CASE TakeDestination(c)
  <2>1. /\ r.at = "take" /\ Goes(c, "move") /\ Writable(c, r.user)
        /\ holder' = IF Exists(r.user) THEN [holder EXCEPT ![r.user] = c] ELSE holder
    BY <1>9 DEF TakeDestination, At
  <2>2. /\ req'[c] = [r EXCEPT !.at = "move"] /\ req'[c].at = "move"
        /\ \A d \in Requests \ {c} : req'[d] = req[d]
    BY <1>2, <2>1, RequestsAfter
  <2>3. /\ req'[c].user = r.user /\ req'[c].other = r.other
        /\ req'[c].yad = r.yad /\ req'[c].trial = r.trial
    BY <1>2, <2>2 DEF Request
  <2>4. Ledgers' /\ Frame(c)
    BY <1>2, <1>5, <2>1 DEF Exists
  <2>5. /\ r.user \in opened /\ r.other # r.user /\ r.other \in Users
        /\ holder[r.other] = c /\ users[r.other].exists
        /\ users[r.other].yad = r.yad /\ users[r.other].trial = r.trial
    BY <1>2, <2>1 DEF Sure, Fits
  <2>6. holder'[r.other] = c /\ (users[r.user].exists => holder'[r.user] = c)
    BY <1>2, <2>1, <2>5 DEF Exists
  <2>7. Sure(c)'
    BY <1>4, <2>2, <2>3, <2>5, <2>6 DEF Sure
  <2> QED
    BY <1>6, <2>2, <2>4, <2>7
<1> QED
  BY <1>7, <1>8, <1>9

\* A merge that does not commit and the switches move nothing.
LEMMA SwitchStill ==
    ASSUME Holding, NEW c \in Requests,
           MergeFails(c) \/ Deadlock(c) \/ Clear(c) \/ Disable(c) \/ Switch(c)
    PROVE  Still
<1> DEFINE r == req[c]
<1>0. ASSUME users' # users
      PROVE  r.user \in Users /\ users \in [Users -> Account] /\ users[r.user] \in Account
  <2>1. r.at # "idle"
    BY <1>0 DEF MergeFails, Deadlock, Clear, Disable, Switch, At
  <2> QED
    BY <2>1, InHand
<1>1. CASE users' = users
  BY <1>1 DEF Still
<1>2. CASE /\ users' # users
           /\ \/ users' = [users EXCEPT ![r.user].telegram = Nobody]
              \/ users' = [users EXCEPT ![r.user].tfa = FALSE]
              \/ users' = [users EXCEPT ![r.user].tfa = r.on]
  <2>1. \A u \in Users \ {r.user} : users'[u] = users[u]
    BY <1>0, <1>2
  <2>2. /\ users'[r.user].exists = users[r.user].exists
        /\ users'[r.user].yad = users[r.user].yad
        /\ users'[r.user].trial = users[r.user].trial
        /\ users'[r.user].referrer = users[r.user].referrer
        /\ users'[r.user].owns = users[r.user].owns
    BY <1>0, <1>2 DEF Account
  <2> QED
    BY <2>1, <2>2 DEF Still
<1> QED
  BY <1>1, <1>2 DEF MergeFails, Deadlock, Clear, Disable, Switch

\* A merge that does not commit, and the switches of an account.
LEMMA SwitchHolding ==
    ASSUME Holding, NEW c \in Requests,
           MergeFails(c) \/ Deadlock(c) \/ Clear(c) \/ Disable(c) \/ Switch(c)
    PROVE  Holding'
<1> DEFINE r == req[c]
<1>1. r.at # "idle"
  <2>1. CASE Deadlock(c)
    <3>1. WaitsFor(c) # {}
      BY <2>1 DEF Deadlock
    <3>2. Wants(c) # {}
      BY <3>1 DEF WaitsFor
    <3> QED
      BY <3>2 DEF Wants, At
  <2>2. CASE MergeFails(c) \/ Clear(c) \/ Disable(c) \/ Switch(c)
    BY <2>2 DEF MergeFails, Clear, Disable, Switch, At
  <2> QED
    BY <2>1, <2>2
<1>2. /\ Typed /\ TypeOK /\ Ledgers /\ r.user \in Users /\ users \in [Users -> Account]
      /\ users[r.user] \in Account /\ holder \in [Users -> Requests \cup {Nobody}]
  BY <1>1, InHand
<1>3. Typed'
  BY MergeType, SwitchType DEF Holding
<1>4. opened' = opened /\ links' = links /\ (holder' = holder \/ holder' = Released(c))
  BY DEF MergeFails, Deadlock, Clear, Disable, Switch, codes, history
<1>5. \A u \in Users : /\ holder[u] \notin {Nobody, c} => holder'[u] = holder[u]
                       /\ holder'[u] # Nobody => holder[u] # Nobody
  BY <1>2, <1>4 DEF Released
<1>6. Still
  BY SwitchStill
<1>7. Ledgers' /\ Frame(c)
  BY <1>2, <1>4, <1>5, <1>6, StillLedgers, StillFrame DEF Ledgers
<1> QED
  BY <1>3, <1>4, <1>7, CarefreeStep DEF MergeFails, Deadlock, Clear, Disable, Switch

\* The table that a merge leaves, row by row.
LEMMA MergedRows ==
    ASSUME TypeOK, Ledgers, NEW s \in Users, NEW d \in Users \ {s}, NEW yad \in Nat, NEW trial \in BOOLEAN,
           users' = Merged(s, d, yad, trial)
    PROVE  /\ ~users'[s].exists /\ users'[s].yad = 0 /\ ~users'[s].trial /\ users'[s].referrer = Nobody
           /\ users[d].exists =>
                /\ users'[d].exists /\ users'[d].yad = users[d].yad + yad
                /\ users'[d].trial = (users[d].trial \/ trial)
                /\ users'[d].owns = (users[d].owns \/ users[s].owns)
                /\ users'[d].referrer = IF users[d].referrer = s THEN Nobody ELSE users[d].referrer
           /\ \A u \in Users \ {s} : u # d \/ ~users[d].exists =>
                /\ users'[u].exists = users[u].exists /\ users'[u].yad = users[u].yad
                /\ users'[u].trial = users[u].trial /\ users'[u].owns = users[u].owns
                /\ users'[u].referrer = IF users[u].referrer = s THEN d ELSE users[u].referrer
<1>1. users \in [Users -> Account] /\ s # Nobody
  BY ConstantTypes DEF TypeOK
<1>2. users'[s] = Absent
  BY DEF Merged
<1>3. ~Absent.exists /\ Absent.yad = 0 /\ ~Absent.trial /\ Absent.referrer = Nobody
  BY DEF Absent, New
<1>4. ASSUME users[d].exists
      PROVE  /\ users'[d].exists /\ users'[d].yad = users[d].yad + yad
             /\ users'[d].trial = (users[d].trial \/ trial)
             /\ users'[d].owns = (users[d].owns \/ users[s].owns)
             /\ users'[d].referrer = IF users[d].referrer = s THEN Nobody ELSE users[d].referrer
  <2>1. users'[d] = Gaining(s, d, yad, trial)
    BY <1>4 DEF Merged
  <2>2. users[d] \in Account /\ users[s] \in Account
    BY <1>1
  <2> DEFINE y == Transferred(d, yad)
             t == users[d].trial \/ trial
             o == users[d].owns \/ users[s].owns
             r == IF users[d].referrer = s THEN Nobody ELSE users[d].referrer
  <2>3. users'[d] = [users[d] EXCEPT !.yad = y, !.trial = t, !.owns = o, !.referrer = r]
    BY <2>1, Zenon DEF Gaining
  <2> HIDE DEF y, t, o, r
  <2>4. /\ users'[d].exists = users[d].exists /\ users'[d].yad = y
        /\ users'[d].trial = t /\ users'[d].owns = o /\ users'[d].referrer = r
    BY <2>2, <2>3 DEF Account
  <2> QED
    BY <1>4, <2>4 DEF y, t, o, r, Transferred
<1>5. ASSUME NEW u \in Users \ {s}, u # d \/ ~users[d].exists
      PROVE  /\ users'[u].exists = users[u].exists /\ users'[u].yad = users[u].yad
             /\ users'[u].trial = users[u].trial /\ users'[u].owns = users[u].owns
             /\ users'[u].referrer = IF users[u].referrer = s THEN d ELSE users[u].referrer
  <2>1. users'[u] = Redirected(users[u], s, d)
    BY <1>5 DEF Merged
  <2>2. users[u] \in Account
    BY <1>1
  <2> DEFINE r == IF users[u].referrer = s /\ users[u].referrer # Nobody THEN d ELSE users[u].referrer
  <2>3. users'[u] = [users[u] EXCEPT !.referrer = r]
    BY <2>1, Zenon DEF Redirected
  <2>4. r = IF users[u].referrer = s THEN d ELSE users[u].referrer
    BY <1>1
  <2> HIDE DEF r
  <2> QED
    BY <2>2, <2>3, <2>4 DEF Account
<1> QED
  BY <1>2, <1>3, <1>4, <1>5

\* What a merge commits was read under lock, and is what there still is.
LEMMA MoveMeans ==
    ASSUME Holding, NEW c \in Requests, Move(c)
    PROVE  LET s == req[c].other
               d == req[c].user
           IN  /\ s \in Users /\ d \in Users \ {s}
               /\ users[s].exists /\ users[s].yad \in Nat /\ users[s].trial \in BOOLEAN
               /\ holder[s] = c /\ (users[d].exists => holder[d] = c) /\ d \in opened
               /\ users' = Merged(s, d, users[s].yad, users[s].trial)
               /\ referral' = MergedReferrals(s, d)
               /\ users[d].exists \/
                    /\ ~users[s].owns
                    /\ \A u \in Users : (users[u].exists => users[u].referrer # s) /\ referral[u] # s
<1> DEFINE r == req[c]
<1>1. r.at = "move" /\ r.at # "idle"
  BY DEF Move, At
<1>2. Fits(r) /\ Sure(c) /\ r.yad \in Nat /\ r.trial \in BOOLEAN
  BY <1>1, InHand
<1>3. /\ r.other \in Users /\ r.user \in Users \ {r.other}
      /\ users[r.other].exists /\ users[r.other].yad = r.yad /\ users[r.other].trial = r.trial
      /\ holder[r.other] = c /\ (users[r.user].exists => holder[r.user] = c) /\ r.user \in opened
  BY <1>1, <1>2 DEF Fits, Sure
<1>4. /\ users' = Merged(r.other, r.user, r.yad, r.trial)
      /\ referral' = MergedReferrals(r.other, r.user) /\ ~Refused(c)
  BY DEF Move
<1>5. \/ users[r.user].exists
      \/ /\ ~users[r.other].owns /\ Referred(r.other) = {}
         /\ \A u \in Users : referral[u] # r.other
  BY <1>3, <1>4 DEF Refused, Exists
<1> QED
  BY <1>2, <1>3, <1>4, <1>5 DEF Referred

LEMMA MoveHolding ==
    ASSUME Holding, NEW c \in Requests, Move(c)
    PROVE  Holding'
<1> DEFINE s == req[c].other
           d == req[c].user
<1>1. /\ s \in Users /\ d \in Users \ {s}
      /\ users[s].exists /\ users[s].yad \in Nat /\ users[s].trial \in BOOLEAN
      /\ holder[s] = c /\ (users[d].exists => holder[d] = c) /\ d \in opened
      /\ users' = Merged(s, d, users[s].yad, users[s].trial)
  BY MoveMeans
<1>2. TypeOK /\ Ledgers /\ s # Nobody /\ holder \in [Users -> Requests \cup {Nobody}]
  BY <1>1, ConstantTypes DEF Holding, Typed, TypeOK
<1>3. Typed'
  BY MergeType DEF Holding
<1>4. Goes(c, "bind") /\ opened' = opened /\ links' = links /\ holder' = Released(c)
  BY DEF Move, codes, history
<1> HIDE DEF s, d
<1>5. /\ ~users'[s].exists /\ users'[s].yad = 0 /\ ~users'[s].trial /\ users'[s].referrer = Nobody
      /\ users[d].exists =>
           /\ users'[d].exists /\ users'[d].yad = users[d].yad + users[s].yad
           /\ users'[d].trial = (users[d].trial \/ users[s].trial)
           /\ users'[d].owns = (users[d].owns \/ users[s].owns)
           /\ users'[d].referrer = IF users[d].referrer = s THEN Nobody ELSE users[d].referrer
      /\ \A u \in Users \ {s} : u # d \/ ~users[d].exists =>
           /\ users'[u].exists = users[u].exists /\ users'[u].yad = users[u].yad
           /\ users'[u].trial = users[u].trial /\ users'[u].owns = users[u].owns
           /\ users'[u].referrer = IF users[u].referrer = s THEN d ELSE users[u].referrer
  BY <1>1, <1>2, MergedRows
<1>6. Ledgers'
  <2>1. ASSUME NEW u \in Users PROVE users'[u].exists => u \in opened
    BY <1>1, <1>2, <1>5 DEF Ledgers
  <2>2. ASSUME NEW u \in Users, ~users'[u].exists
        PROVE  users'[u].yad = 0 /\ ~users'[u].trial /\ users'[u].referrer = Nobody
    BY <1>1, <1>2, <1>5, <2>2 DEF Ledgers
  <2>3. ASSUME NEW u \in Users, users'[u].yad # 0 \/ users'[u].trial PROVE users'[u].owns
    <3>1. CASE u = d /\ users[d].exists
      <4>1. CASE users'[u].yad # 0
        <5>1. users'[u].yad = users[d].yad + users[s].yad
          BY <1>5, <3>1
        <5>2. users[d].yad # 0 \/ users[s].yad # 0
          BY <4>1, <5>1
        <5> QED
          BY <1>1, <1>2, <1>5, <3>1, <5>2 DEF Ledgers
      <4>2. CASE users'[u].trial
        <5>1. users[d].trial \/ users[s].trial
          BY <1>5, <3>1, <4>2
        <5> QED
          BY <1>1, <1>2, <1>5, <3>1, <5>1 DEF Ledgers
      <4> QED
        BY <2>3, <4>1, <4>2
    <3>2. CASE ~(u = d /\ users[d].exists)
      BY <1>1, <1>2, <1>5, <2>3, <3>2 DEF Ledgers
    <3> QED
      BY <3>1, <3>2
  <2>4. ASSUME NEW u \in Users PROVE links'[u] > 0 \/ holder'[u] # Nobody => u \in opened
    BY <1>2, <1>4 DEF Released, Ledgers
  <2> QED
    BY <1>4, <2>1, <2>2, <2>3, <2>4 DEF Ledgers
<1>7. Frame(c)
  <2>1. ASSUME NEW u \in Users, holder[u] \notin {Nobody, c}
        PROVE  /\ holder'[u] = holder[u]
               /\ users'[u].exists = users[u].exists
               /\ users'[u].yad = users[u].yad /\ users'[u].trial = users[u].trial
    <3>1. u # s /\ (users[d].exists => u # d)
      BY <1>1, <2>1
    <3> QED
      BY <1>2, <1>4, <1>5, <2>1, <3>1 DEF Released
  <2>2. ASSUME NEW u \in Users, users'[u].exists PROVE users[u].exists
    BY <1>1, <1>5, <2>2
  <2>3. ASSUME NEW u \in Users, NEW v \in Users,
               users'[u].exists, users'[v].exists, users[u].referrer = v
        PROVE  users'[u].referrer = v
    BY <1>1, <1>5, <2>3
  <2>4. opened \subseteq Users
    BY <1>2 DEF TypeOK
  <2> QED
    BY <1>4, <2>1, <2>2, <2>3, <2>4 DEF Frame
<1> QED
  BY <1>3, <1>4, <1>6, <1>7, CarefreeStep

\* What is done to an account without a request under way.
LEMMA AccountHolding ==
    ASSUME Holding, NEW u \in Users,
           \/ GenerateLinkCode(u) \/ StoreUnlinkCode(u)
           \/ AdjustYADBalance(u) \/ SetTrialUsed(u)
    PROVE  Holding'
<1>1. Typed'
  BY AccountType DEF Holding
<1>2. /\ TypeOK /\ Typed /\ Ledgers /\ users \in [Users -> Account] /\ users[u] \in Account
      /\ links \in [Users -> 0..MaxCodes]
  BY DEF Holding, Typed, TypeOK
<1>3. req' = req /\ opened' = opened /\ holder' = holder
  BY DEF GenerateLinkCode, StoreUnlinkCode, AdjustYADBalance, SetTrialUsed, tables, history
<1>4. CASE GenerateLinkCode(u) \/ StoreUnlinkCode(u)
  <2>1. users' = users
    BY <1>4 DEF GenerateLinkCode, StoreUnlinkCode, tables
  <2>2. Still
    BY <2>1 DEF Still
  <2>3. links' = links \/ (users[u].exists /\ links' = [links EXCEPT ![u] = @ + 1])
    BY <1>4 DEF GenerateLinkCode, StoreUnlinkCode, Exists
  <2>4. \A v \in Users : links'[v] > 0 \/ holder'[v] # Nobody => v \in opened
    BY <1>2, <1>3, <2>3 DEF Ledgers
  <2> QED
    BY <1>1, <1>2, <1>3, <2>2, <2>4, StillLedgers, StillFrame, QuietHolding
<1>5. CASE AdjustYADBalance(u) \/ SetTrialUsed(u)
  <2>1. /\ users[u].exists /\ holder[u] = Nobody /\ links' = links
        /\ \/ users' = [users EXCEPT ![u].yad = @ + 1, ![u].owns = TRUE]
           \/ users' = [users EXCEPT ![u].trial = TRUE, ![u].owns = TRUE]
    BY <1>5 DEF AdjustYADBalance, SetTrialUsed, Exists, codes
  <2>2. \A v \in Users \ {u} : users'[v] = users[v]
    BY <1>2, <2>1
  <2>3. \/ users'[u] = [users[u] EXCEPT !.yad = @ + 1, !.owns = TRUE]
        \/ users'[u] = [users[u] EXCEPT !.trial = TRUE, !.owns = TRUE]
    BY <1>2, <2>1
  <2>4. /\ users'[u].exists = users[u].exists /\ users'[u].owns
        /\ users'[u].referrer = users[u].referrer
    BY <1>2, <2>3 DEF Account
  <2>5. Ledgers'
    <3>1. ASSUME NEW v \in Users PROVE users'[v].exists => v \in opened
      BY <1>2, <2>1, <2>2 DEF Ledgers
    <3>2. ASSUME NEW v \in Users
          PROVE  ~users'[v].exists =>
                    users'[v].yad = 0 /\ ~users'[v].trial /\ users'[v].referrer = Nobody
      BY <1>2, <2>1, <2>2, <2>4 DEF Ledgers
    <3>3. ASSUME NEW v \in Users PROVE users'[v].yad # 0 \/ users'[v].trial => users'[v].owns
      BY <1>2, <2>2, <2>4 DEF Ledgers
    <3> QED
      BY <1>2, <1>3, <2>1, <3>1, <3>2, <3>3 DEF Ledgers
  <2>6. Frame(Nobody)
    <3>1. ASSUME NEW v \in Users PROVE users'[v].exists = users[v].exists
                                     /\ users'[v].referrer = users[v].referrer
      BY <2>1, <2>2, <2>4
    <3>2. ASSUME NEW v \in Users, holder[v] # Nobody PROVE users'[v] = users[v]
      BY <2>1, <2>2, <3>2
    <3>3. opened \subseteq Users
      BY <1>2 DEF TypeOK
    <3> QED
      BY <1>3, <3>1, <3>2, <3>3 DEF Frame
  <2> QED
    BY <1>1, <1>3, <2>5, <2>6, QuietHolding
<1> QED
  BY <1>4, <1>5

LEMMA HoldingNext == Holding /\ [Next]_vars => Holding'
<1> SUFFICES ASSUME Holding, [Next]_vars PROVE Holding'
  OBVIOUS
<1>1. ASSUME NEW c \in Requests, Serve(c) PROVE Holding'
  BY <1>1, CreateHolding, RegisterHolding, LockHolding, MoveHolding, SwitchHolding DEF Serve
<1>2. CASE Next
  BY <1>1, <1>2, ArrivalsHolding, AccountHolding, UnlinkCodeStored DEF Next
<1>3. CASE UNCHANGED vars
  <2>1. /\ users' = users /\ holder' = holder /\ links' = links /\ req' = req /\ opened' = opened
        /\ Typed'
    BY <1>3, TypedNext DEF vars, tables, codes, history, Holding
  <2>2. Still
    BY <2>1 DEF Still
  <2> QED
    BY <2>1, <2>2, StillLedgers, StillFrame, QuietHolding DEF Holding, Ledgers
<1> QED
  BY <1>2, <1>3

-----------------------------------------------------------------------------
(* The steps of Holdings.                                                  *)

\* Nothing that Holdings speaks of has changed.
LEMMA KeptStill ==
    ASSUME Still, referral' = referral
    PROVE  UNCHANGED Kept!vars
<1>1. /\ {u \in Users : users'[u].exists} = {u \in Users : users[u].exists}
      /\ [u \in Users |-> users'[u].yad] = [u \in Users |-> users[u].yad]
      /\ {u \in Users : users'[u].trial} = {u \in Users : users[u].trial}
      /\ [u \in Users |-> users'[u].referrer] = [u \in Users |-> users[u].referrer]
  BY DEF Still
<1> QED
  BY <1>1 DEF Kept!vars

LEMMA KeptInit ==
    ASSUME Init
    PROVE  Kept!Init
<1> USE ConstantTypes
<1>1. PICK s \in BOOLEAN, b \in BOOLEAN, first \in {Site, Bot, Nobody},
           t \in {Nobody} \cup (Telegrams \ {Phone}) :
        /\ users = [u \in Users |->
             IF u = Site THEN [New(Unique, IF first = Bot THEN Bot ELSE Nobody)
                                EXCEPT !.telegram = t, !.trial = s, !.owns = s]
             ELSE IF u = Bot THEN [New(Phone, IF first = Site THEN Site ELSE Nobody)
                                EXCEPT !.telegram = Phone, !.trial = b, !.owns = b]
             ELSE Absent]
        /\ referral = [u \in Users |-> users[u].referrer]
        /\ agreed = {<<Phone, Bot>>} \cup (({t} \ {Nobody}) \X {Site})
  BY DEF Init
<1>2. users[Site].exists /\ users[Site].yad = 0 /\ users[Site].referrer \in {Bot, Nobody}
  BY <1>1 DEF New
<1>3. users[Bot].exists /\ users[Bot].yad = 0 /\ users[Bot].referrer \in {Site, Nobody}
  BY <1>1 DEF New
<1>4. ASSUME NEW u \in Users \ {Site, Bot}
      PROVE  ~users[u].exists /\ users[u].yad = 0 /\ ~users[u].trial /\ users[u].referrer = Nobody
  <2>1. users[u] = Absent
    BY <1>1
  <2> QED
    BY <2>1 DEF Absent, New
<1>5. [u \in Users |-> users[u].yad] = [u \in Users |-> 0]
  BY <1>2, <1>3, <1>4
<1>6. {u \in Users : users[u].trial} \in SUBSET {u \in Users : users[u].exists}
  BY <1>2, <1>3, <1>4
<1>7. [u \in Users |-> users[u].referrer]
        \in [Users -> {u \in Users : users[u].exists} \cup {Nobody}]
  BY <1>2, <1>3, <1>4
<1> QED
  BY <1>1, <1>5, <1>6, <1>7 DEF Kept!Init

\* The insertion opens an account.
LEMMA CreateOpens ==
    ASSUME Holding, NEW c \in Requests, Create(c)
    PROVE  Kept!Next
<1>0. PICK u, by : u = req[c].user /\ by = req[c].other
  OBVIOUS
<1>1. req[c].at = "insert" /\ req[c].at # "idle"
  BY DEF Create, At
<1>2. /\ users' = [users EXCEPT ![u] = New(req[c].name, by)] /\ referral' = referral
      /\ by # Nobody => Exists(by)
  BY <1>0 DEF Create
<1>3. /\ Ledgers /\ users \in [Users -> Account] /\ u \in Users /\ by \in Users \cup {Nobody}
      /\ ~users[u].exists
  BY <1>0, <1>1, InHand DEF Sure, Ledgers
<1>4. LET n == New(req[c].name, by) IN
      n.exists /\ n.yad = 0 /\ ~n.trial /\ n.referrer = by
  BY DEF New
<1>5. /\ users'[u].exists /\ users'[u].yad = 0 /\ ~users'[u].trial /\ users'[u].referrer = by
      /\ \A v \in Users \ {u} : users'[v] = users[v]
  BY <1>2, <1>3, <1>4
<1>6. users[u].yad = 0 /\ ~users[u].trial
  BY <1>3 DEF Ledgers
<1>7. {v \in Users : users'[v].exists} = {v \in Users : users[v].exists} \cup {u}
  BY <1>3, <1>5
<1>8. [v \in Users |-> users'[v].yad] = [v \in Users |-> users[v].yad]
  BY <1>3, <1>5, <1>6
<1>9. {v \in Users : users'[v].trial} = {v \in Users : users[v].trial}
  BY <1>3, <1>5, <1>6
<1>10. [v \in Users |-> users'[v].referrer] = [[v \in Users |-> users[v].referrer] EXCEPT ![u] = by]
  BY <1>3, <1>5
<1>11. u \notin {v \in Users : users[v].exists} /\ by \in {v \in Users : users[v].exists} \cup {Nobody}
  BY <1>2, <1>3 DEF Exists
<1>12. Kept!Open(u, by)
  BY <1>2, <1>7, <1>8, <1>9, <1>10, <1>11 DEF Kept!Open
<1> QED
  BY <1>3, <1>12 DEF Kept!Next

\* The late referral is the row's, or there is none.
LEMMA ReferralEnlists ==
    ASSUME Holding, NEW c \in Requests, CreateReferral(c)
    PROVE  Kept!Next \/ UNCHANGED Kept!vars
<1>0. PICK u, by : u = req[c].user /\ by = req[c].other
  OBVIOUS
<1>1. req[c].at = "refer" /\ req[c].at # "idle" /\ users' = users
  BY DEF CreateReferral, At
<1>2. Fits(req[c]) /\ Sure(c)
  BY <1>1, InHand
<1>3. u \in Users /\ by \in Users
  BY <1>0, <1>1, <1>2 DEF Fits
<1>4. users[u].exists /\ users[by].exists => users[u].referrer = by
  BY <1>0, <1>1, <1>2 DEF Sure
<1>5. CASE referral' = referral
  <2>1. Still
    BY <1>1 DEF Still
  <2> QED
    BY <1>5, <2>1, KeptStill
<1>6. CASE Exists(by) /\ Exists(u) /\ referral' = [referral EXCEPT ![u] = by]
  <2>1. users[u].exists /\ users[by].exists /\ users[u].referrer = by
    BY <1>4, <1>6 DEF Exists
  <2>2. [v \in Users |-> users[v].referrer][u] = by
    BY <1>3, <2>1
  <2>3. {u, by} \subseteq {v \in Users : users[v].exists}
    BY <1>3, <2>1
  <2> QED
    BY <1>1, <1>3, <1>6, <2>2, <2>3 DEF Kept!Next, Kept!Enlist
<1> QED
  BY <1>0, <1>5, <1>6 DEF CreateReferral

\* The commit of MergeUsers is a whole merge; if the destination is gone, it
\* drops an account that has nothing.
LEMMA MoveMerges ==
    ASSUME Holding, NEW c \in Requests, Move(c)
    PROVE  Kept!Next
<1>0. PICK s, d : s = req[c].other /\ d = req[c].user
  OBVIOUS
<1>1. /\ s \in Users /\ d \in Users \ {s}
      /\ users[s].exists /\ users[s].yad \in Nat /\ users[s].trial \in BOOLEAN
      /\ users' = Merged(s, d, users[s].yad, users[s].trial)
      /\ referral' = MergedReferrals(s, d)
      /\ users[d].exists \/
           /\ ~users[s].owns
           /\ \A u \in Users : (users[u].exists => users[u].referrer # s) /\ referral[u] # s
  BY <1>0, MoveMeans
<1>2. /\ TypeOK /\ Ledgers /\ users \in [Users -> Account]
      /\ referral \in [Users -> Users \cup {Nobody}] /\ s # Nobody
  BY <1>1, ConstantTypes DEF Holding, Typed, TypeOK
<1>3. /\ ~users'[s].exists /\ users'[s].yad = 0 /\ ~users'[s].trial /\ users'[s].referrer = Nobody
      /\ users[d].exists =>
           /\ users'[d].exists /\ users'[d].yad = users[d].yad + users[s].yad
           /\ users'[d].trial = (users[d].trial \/ users[s].trial)
           /\ users'[d].referrer = IF users[d].referrer = s THEN Nobody ELSE users[d].referrer
      /\ \A u \in Users \ {s} : u # d \/ ~users[d].exists =>
           /\ users'[u].exists = users[u].exists /\ users'[u].yad = users[u].yad
           /\ users'[u].trial = users[u].trial
           /\ users'[u].referrer = IF users[u].referrer = s THEN d ELSE users[u].referrer
  BY <1>1, <1>2, MergedRows
<1>4. {u \in Users : users'[u].exists} = {u \in Users : users[u].exists} \ {s}
  BY <1>1, <1>3
<1>5. CASE users[d].exists
  <2>1. [u \in Users |-> users'[u].yad] =
          [[u \in Users |-> users[u].yad] EXCEPT ![d] = @ + [u \in Users |-> users[u].yad][s],
                                                 ![s] = 0]
    BY <1>1, <1>3, <1>5
  <2>2. {u \in Users : users'[u].trial} =
          (IF s \in {u \in Users : users[u].trial} THEN {u \in Users : users[u].trial} \cup {d}
                                                   ELSE {u \in Users : users[u].trial}) \ {s}
    BY <1>1, <1>3, <1>5
  <2>3. [u \in Users |-> users'[u].referrer] = Kept!Inherited([u \in Users |-> users[u].referrer], s, d)
    BY <1>1, <1>3, <1>5 DEF Kept!Inherited
  <2>4. referral' = Kept!Inherited(referral, s, d)
    BY <1>1 DEF MergedReferrals, Kept!Inherited
  <2>5. {s, d} \subseteq {u \in Users : users[u].exists} /\ s # d
    BY <1>1, <1>5
  <2>6. Kept!Merge(s, d)
    BY <1>4, <2>1, <2>2, <2>3, <2>4, <2>5 DEF Kept!Merge
  <2> QED
    BY <1>1, <2>6 DEF Kept!Next
<1>6. CASE ~users[d].exists
  <2>1. users[s].yad = 0 /\ ~users[s].trial
    BY <1>1, <1>2, <1>6 DEF Ledgers
  <2>2. \A u \in Users : users[u].referrer # s /\ referral[u] # s
    BY <1>1, <1>2, <1>6 DEF Ledgers
  <2>3. [u \in Users |-> users'[u].yad] = [u \in Users |-> users[u].yad]
    BY <1>1, <1>3, <1>6, <2>1
  <2>4. {u \in Users : users'[u].trial} = {u \in Users : users[u].trial}
    BY <1>1, <1>3, <1>6, <2>1
  <2>5. [u \in Users |-> users'[u].referrer] = [[u \in Users |-> users[u].referrer] EXCEPT ![s] = Nobody]
    BY <1>1, <1>3, <1>6, <2>2
  <2>6. referral' = [referral EXCEPT ![s] = Nobody]
    BY <1>1, <1>2, <2>2 DEF MergedReferrals
  <2>7. /\ s \in {u \in Users : users[u].exists} \ {u \in Users : users[u].trial}
        /\ [u \in Users |-> users[u].yad][s] = 0
        /\ \A v \in Users : s \notin {[u \in Users |-> users[u].referrer][v], referral[v]}
    BY <1>1, <2>1, <2>2
  <2>8. Kept!Drop(s)
    BY <1>4, <2>3, <2>4, <2>5, <2>6, <2>7 DEF Kept!Drop
  <2> QED
    BY <1>1, <2>8 DEF Kept!Next
<1> QED
  BY <1>5, <1>6

\* Credits and trials.
LEMMA AccountEarns ==
    ASSUME Holding, NEW u \in Users, AdjustYADBalance(u) \/ SetTrialUsed(u)
    PROVE  Kept!Next
<1>1. users \in [Users -> Account] /\ users[u] \in Account /\ users[u].exists /\ referral' = referral
  BY DEF Holding, Typed, TypeOK, AdjustYADBalance, SetTrialUsed, Exists
<1>2. CASE AdjustYADBalance(u)
  <2>1. users' = [users EXCEPT ![u].yad = @ + 1, ![u].owns = TRUE]
    BY <1>2 DEF AdjustYADBalance
  <2>2. users'[u] = [users[u] EXCEPT !.yad = @ + 1, !.owns = TRUE]
        /\ \A v \in Users \ {u} : users'[v] = users[v]
    BY <1>1, <2>1
  <2>3. /\ users'[u].exists = users[u].exists /\ users'[u].yad = users[u].yad + 1
        /\ users'[u].trial = users[u].trial /\ users'[u].referrer = users[u].referrer
    BY <1>1, <2>2 DEF Account
  <2>4. /\ {v \in Users : users'[v].exists} = {v \in Users : users[v].exists}
        /\ {v \in Users : users'[v].trial} = {v \in Users : users[v].trial}
    BY <2>2, <2>3
  <2>5. /\ [v \in Users |-> users'[v].yad] = [[v \in Users |-> users[v].yad] EXCEPT ![u] = @ + 1]
        /\ [v \in Users |-> users'[v].referrer] = [v \in Users |-> users[v].referrer]
    BY <2>2, <2>3
  <2> QED
    BY <1>1, <2>4, <2>5 DEF Kept!Next, Kept!Earn
<1>3. CASE SetTrialUsed(u)
  <2>1. users' = [users EXCEPT ![u].trial = TRUE, ![u].owns = TRUE] /\ ~users[u].trial
    BY <1>3 DEF SetTrialUsed
  <2>2. users'[u] = [users[u] EXCEPT !.trial = TRUE, !.owns = TRUE]
        /\ \A v \in Users \ {u} : users'[v] = users[v]
    BY <1>1, <2>1
  <2>3. /\ users'[u].exists = users[u].exists /\ users'[u].yad = users[u].yad
        /\ users'[u].trial /\ users'[u].referrer = users[u].referrer
    BY <1>1, <2>2 DEF Account
  <2>4. /\ {v \in Users : users'[v].exists} = {v \in Users : users[v].exists}
        /\ {v \in Users : users'[v].trial} = {v \in Users : users[v].trial} \cup {u}
    BY <2>2, <2>3
  <2>5. /\ [v \in Users |-> users'[v].yad] = [v \in Users |-> users[v].yad]
        /\ [v \in Users |-> users'[v].referrer] = [v \in Users |-> users[v].referrer]
    BY <2>2, <2>3
  <2> QED
    BY <1>1, <2>1, <2>4, <2>5 DEF Kept!Next, Kept!Try
<1> QED
  BY <1>2, <1>3

\* What a request does before and after it commits does not show.
LEMMA ServeKept ==
    ASSUME Holding, NEW c \in Requests, Serve(c)
    PROVE  [Kept!Next]_(Kept!vars)
<1>1. CASE Create(c)
  BY <1>1, CreateOpens
<1>2. CASE CreateReferral(c)
  BY <1>2, ReferralEnlists
<1>3. CASE Move(c)
  BY <1>3, MoveMerges
<1>4. CASE CreateFails(c) \/ Bind(c)
  <2>1. referral' = referral
    BY <1>4 DEF CreateFails, Bind, tables
  <2> QED
    BY <1>4, <2>1, RegisterStill, KeptStill
<1>5. CASE FindLinked(c) \/ LockSource(c) \/ TakeDestination(c)
  <2>1. users' = users /\ referral' = referral
    BY <1>5 DEF FindLinked, LockSource, TakeDestination, tables
  <2>2. Still
    BY <2>1 DEF Still
  <2> QED
    BY <2>1, <2>2, KeptStill
<1>6. CASE MergeFails(c) \/ Deadlock(c) \/ Clear(c) \/ Disable(c) \/ Switch(c)
  <2>1. referral' = referral
    BY <1>6 DEF MergeFails, Deadlock, Clear, Disable, Switch
  <2> QED
    BY <1>6, <2>1, SwitchStill, KeptStill
<1> QED
  BY <1>1, <1>2, <1>3, <1>4, <1>5, <1>6 DEF Serve

\* Codes and requests that arrive are none of Holdings' business.
LEMMA ArrivalsKept ==
    ASSUME NEW c \in Requests,
           \/ Register(c)
           \/ \E t \in Telegrams : Start(c, t) \/ Link(c, t) \/ BotToggle(c, t)
           \/ \E u \in Users : Unlink(c, u) \/ ToggleTFA(c, u)
    PROVE  UNCHANGED Kept!vars
<1>1. users' = users /\ referral' = referral
  <2>1. CASE Register(c)
    BY <2>1 DEF Register, tables
  <2>2. CASE \E t \in Telegrams : Start(c, t) \/ Link(c, t) \/ BotToggle(c, t)
    BY <2>2 DEF Start, Link, BotToggle, tables
  <2>3. CASE \E u \in Users : Unlink(c, u) \/ ToggleTFA(c, u)
    BY <2>3 DEF Unlink, ToggleTFA, tables
  <2> QED
    BY <2>1, <2>2, <2>3
<1>2. Still
  BY <1>1 DEF Still
<1> QED
  BY <1>1, <1>2, KeptStill

LEMMA KeptNext == Holding /\ [Next]_vars => [Kept!Next]_(Kept!vars)
<1> SUFFICES ASSUME Holding, [Next]_vars PROVE [Kept!Next]_(Kept!vars)
  OBVIOUS
<1>1. ASSUME users' = users, referral' = referral PROVE UNCHANGED Kept!vars
  <2>1. Still
    BY <1>1 DEF Still
  <2> QED
    BY <1>1, <2>1, KeptStill
<1>2. ASSUME NEW u \in Users, GenerateLinkCode(u) \/ StoreUnlinkCode(u)
      PROVE  UNCHANGED Kept!vars
  BY <1>1, <1>2 DEF GenerateLinkCode, StoreUnlinkCode, tables
<1>4. CASE Next
  BY <1>2, <1>4, AccountEarns, ServeKept, ArrivalsKept, UnlinkCodeStored DEF Next
<1>5. CASE UNCHANGED vars
  BY <1>1, <1>5 DEF vars, tables
<1> QED
  BY <1>4, <1>5

\* However registrations, credits, trials and merges cross, the balances, the
\* trials and the referrals of the accounts move as Holdings says: a merge
\* takes all there is, in one instant, and leaves nothing behind; only an
\* account that has nothing is ever dropped (MergeUsers in user_repo.go).
THEOREM MergesLoseNothing == Spec => ImplementsHoldings
<1>1. Spec => []Holding
  BY HoldingInit, HoldingNext, PTL DEF Spec
<1> QED
  BY <1>1, KeptInit, KeptNext, PTL DEF Spec, ImplementsHoldings, Kept!Spec
=============================================================================
