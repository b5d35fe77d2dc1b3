------------------------- MODULE SessionProperties -------------------------
(***************************************************************************)
(* What sessions must satisfy.  A session is a chain of pairs of tokens,   *)
(* each but the first given for the one before; it is named by its first.  *)
(***************************************************************************)
EXTENDS Sessions

Chains == {pairs[p].chain : p \in DOMAIN pairs}

\* Requests that have a session's next pair in hand: what they were given is
\* used up, what they will give is not there yet.
Turning(r) ==
    {c \in Requests :
        /\ \/ req[c].op = "refresh" /\ req[c].pc \in {"ban", "mint"}
           \/ req[c].pc = "register"
        /\ pairs[req[c].pair].chain = r}

\* A refresh token is good for one answer: whatever tabs, retries and lost
\* answers do, a session never has two pairs that could be refreshed
\* (ValidateAndRevokeRefreshToken: "atomically validates and consumes").
SingleUse ==
    \A r \in Chains :
        Cardinality({p \in allowed : pairs[p].chain = r}) + Cardinality(Turning(r)) <= 1

\* A password is being changed, or a change of it was cut short before pw:ver
\* was written and none has been completed since.
Halfway == halfway \/ \E c \in Requests : Writing(c)

\* A password change puts an end to every session begun with an older
\* password once pw:ver is written, for every route, although the family may
\* not be revoked yet, or never, and although the key itself runs out
\* ("Invalidate all tokens issued before this moment", ChangePassword).  What
\* remains is given out after that write for a sign-in or a rotation that was
\* checked before it, by a request under way or a later poll of an old
\* challenge (loose), or was minted after the clock was read for the write, or
\* in that very second, and before the write arrived (Slipped).
OldPasswordIsOut ==
    Halfway \/ \A p \in DOMAIN pairs :
        (Refreshable(p) \/ Authenticated(p)) /\ pairs[p].password < user.password
            => pairs[p].loose \/ Slipped(p)

\* The session can still be continued, or a request is doing so.
Open(r) ==
    \/ \E p \in allowed : pairs[p].chain = r /\ Refreshable(p)
    \/ \E c \in Requests :
        /\ req[c].op = "refresh" /\ req[c].pc = "consume"
        /\ req[c].pair \in allowed
        /\ pairs[req[c].pair].chain = r
    \/ Turning(r) # {}

\* A session that has ended does not come back, neither when the keys that
\* ended it run out nor when a slow request registers its token after the
\* family was revoked.  Only a pw:ver that goes back, as two overlapping
\* changes may write it in the wrong order, can bring one back.
EndedStaysEnded ==
    [][version'.time >= version.time => \A r \in Chains : ~Open(r) => ~Open(r)']_vars

\* What a user held when a ban began is no good under /api as long as the ban
\* lasts: the ban key stops it, and by the time the key runs out it is no good
\* anywhere, neither to be refreshed nor under /api/admin, where the ban is not
\* asked for and a token of before the ban is served until it runs out
\* (SetBanKey, BannedCheck, RefreshTTL; main.go, the two groups of routes).
BannedIsOut ==
    user.banned /\ banKey > 0 =>
        \A p \in DOMAIN pairs :
            pairs[p].iat <= banKey =>
                /\ ~Served(p)
                /\ Refreshable(p) \/ AdminServed(p) => Barred
=============================================================================
