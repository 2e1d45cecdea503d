--------------------------- MODULE RefreshRotation ---------------------------
(***************************************************************************)
(* Sessions and refresh-token rotation of the auth service: AuthService's  *)
(* login tail, refreshTokens, handleTokenReuse, revokeSession and          *)
(* revokeAllSessionsForUser, the expiry marking done while a session is    *)
(* loaded, the hourly cleaner, and the suspension of a tenant.             *)
(*                                                                         *)
(* Every handler is a process that runs in parallel with every other one;  *)
(* one action is one database round trip (one `await`), because that is    *)
(* where the Node event loop, and any other replica, may interleave.  A    *)
(* single Prisma call is atomic; nothing wider is.                         *)
(***************************************************************************)
EXTENDS Integers, FiniteSets

CONSTANTS
  Sessions,   \* session rows that may be created
  Tokens,     \* refresh tokens that may be minted, each with its CSRF twin
  Users,      \* users
  Owner,      \* the user a session is created for
  Requests,   \* HTTP requests in flight at the same time
  TTL,        \* validity of sessions and refresh tokens (7 days)
  Retention,  \* how long a used token stays on record (14 days)
  MaxTime,    \* bound of the model's clock
  CanAbort,   \* TRUE iff requests may die half-way (crash, database error)
  NoToken, NoSession

ASSUME OwnerAssumption == Owner \in [Sessions -> Users]
ASSUME TimeAssumption ==
  /\ TTL \in Nat /\ Retention \in Nat /\ MaxTime \in Nat
  /\ TTL <= Retention
ASSUME NullAssumption ==
  /\ NoToken \notin Tokens /\ NoSession \notin Sessions
  /\ CanAbort \in BOOLEAN

VARIABLES
  session,      \* the Session table
  token,        \* the RefreshToken table
  usedAt,       \* the UsedRefreshToken table: when a token's use was recorded
  req,          \* the requests in flight
  issued,       \* tokens (with their CSRF twin) that reached a client
  reuseLogged,  \* families for which TOKEN_REUSE was logged
  cron,         \* where the hourly cleaner stands
  now           \* the clock

vars == <<session, token, usedAt, req, issued, reuseLogged, cron, now>>

-----------------------------------------------------------------------------
(* Rows and types *)

NoUse == -1
Time == 0..(MaxTime + TTL)

SessionRow == [state: {"none", "active", "revoked"},
               expires: Time,
               current: Tokens \cup {NoToken}]

TokenRow == [state: {"none", "live", "revoked"},
             sess: Sessions \cup {NoSession},
             family: Tokens \cup {NoToken},
             parent: Tokens \cup {NoToken},
             expires: Time]

PC == {"idle", "mark",
       "login", "bind", "reply",
       "load", "claim", "miss", "record", "mint", "rotate",
       "staleSession", "staleFamily",
       "reuseFamily", "reuseSession", "reuseRecord", "reuseLog",
       "outLoad", "outSession", "outTokens", "allLoad", "allRevoke"}

RequestRow == [pc: PC,
               sess: Sessions \cup {NoSession},
               tok: Tokens \cup {NoToken},
               child: Tokens \cup {NoToken},
               at: Time,
               seen: SUBSET Sessions]

\* Places in refreshTokens where the presented token is still looked at.
HoldsToken == {"load", "claim", "miss", "record", "mint", "rotate",
               "staleSession", "staleFamily",
               "reuseFamily", "reuseSession", "reuseRecord", "reuseLog"}

\* Places from which a request will give its session a new current token.
Rotating == {"login", "record", "mint", "bind", "rotate", "reply"}

\* The steps of handleTokenReuse.
Answering == {"reuseFamily", "reuseSession", "reuseRecord", "reuseLog"}

Idle == [pc |-> "idle", sess |-> NoSession, tok |-> NoToken,
         child |-> NoToken, at |-> 0, seen |-> {}]

TypeOK ==
  /\ session \in [Sessions -> SessionRow]
  /\ token \in [Tokens -> TokenRow]
  /\ usedAt \in [Tokens -> 0..MaxTime \cup {NoUse}]
  /\ req \in [Requests -> RequestRow]
  /\ issued \in SUBSET Tokens
  /\ reuseLogged \in SUBSET Tokens
  /\ cron \in {"idle", "purge"}
  /\ now \in 0..MaxTime

Init ==
  /\ session = [s \in Sessions |->
                  [state |-> "none", expires |-> 0, current |-> NoToken]]
  /\ token = [t \in Tokens |->
                [state |-> "none", sess |-> NoSession, family |-> NoToken,
                 parent |-> NoToken, expires |-> 0]]
  /\ usedAt = [t \in Tokens |-> NoUse]
  /\ req = [r \in Requests |-> Idle]
  /\ issued = {}
  /\ reuseLogged = {}
  /\ cron = "idle"
  /\ now = 0

-----------------------------------------------------------------------------
(* State formulae *)

Active(s) == session[s].state = "active"
Live(t)   == token[t].state = "live"
Expired(s) == session[s].expires < now

\* What a token is good for: refreshTokens honours it only in an active session.
Usable(t) == /\ Live(t)
             /\ token[t].sess \in Sessions
             /\ Active(token[t].sess)

Family(f)    == {t \in Tokens : token[t].family = f}
TokensOf(ss) == {t \in Tokens : token[t].sess \in ss}

\* The cookies a client can present for session s: CsrfGuard compares the CSRF
\* cookie with the one stored beside the session's current refresh hash.
CsrfPasses(s) == Active(s) /\ session[s].current \in issued

-----------------------------------------------------------------------------
(* Table updates, each one database call *)

RevokeSessions(ss) ==
  session' = [s \in Sessions |->
                IF s \in ss /\ session[s].state # "none"
                THEN [session[s] EXCEPT !.state = "revoked"] ELSE session[s]]

RevokeTokens(ts) ==
  token' = [t \in Tokens |->
              IF t \in ts /\ token[t].state # "none"
              THEN [token[t] EXCEPT !.state = "revoked"] ELSE token[t]]

\* Mutant: the binding also writes revoked: false.
BindSessionReviving(s, t, expires) ==
  session' = [session EXCEPT ![s] = [state |-> "active", current |-> t,
                                     expires |-> expires]]

\* Mutant: the binding computes the expiry anew.
BindSessionAfresh(s, t, expires) ==
  session' = [session EXCEPT ![s].current = t, ![s].expires = now + TTL]

BindSession(s, t, expires) ==
  session' = [session EXCEPT ![s].current = t, ![s].expires = expires]

NewExpiry == now + TTL

CreateToken(t, s, family, parent, expires) ==
  /\ token[t].state = "none"
  /\ token' = [token EXCEPT ![t] =
                 [state |-> "live", sess |-> s, family |-> family,
                  parent |-> parent, expires |-> expires]]

\* How a request moves: it starts for a session and a presented token, goes to
\* its next await, remembers the token it made, ends.
Start(r, pc, s, t) ==
  req' = [req EXCEPT ![r] = [pc |-> pc, sess |-> s, tok |-> t,
                             child |-> NoToken, at |-> 0, seen |-> {}]]
Goto(r, pc) == req' = [req EXCEPT ![r].pc = pc]
Minted(r, pc, t) == req' = [req EXCEPT ![r].pc = pc, ![r].child = t]
Finish(r) == req' = [req EXCEPT ![r] = Idle]

-----------------------------------------------------------------------------
(* verifyOtp, from the session row on *)

LoginSession(r) ==
  /\ req[r].pc = "idle"
  /\ \E s \in Sessions :
       /\ session[s].state = "none"
       /\ session' = [session EXCEPT ![s] =
                        [state |-> "active", expires |-> NewExpiry,
                         current |-> NoToken]]
       /\ Start(r, "login", s, NoToken)
  /\ UNCHANGED <<token, usedAt, issued, reuseLogged, cron, now>>

LoginToken(r) ==
  /\ req[r].pc = "login"
  /\ \E t \in Tokens :
       /\ CreateToken(t, req[r].sess, t, NoToken,
                      session[req[r].sess].expires)
       /\ Minted(r, "bind", t)
  /\ UNCHANGED <<session, usedAt, issued, reuseLogged, cron, now>>

\* Sets refreshHash and csrfToken; the expiry stays as created.
LoginBind(r) ==
  /\ req[r].pc = "bind"
  /\ BindSession(req[r].sess, req[r].child, session[req[r].sess].expires)
  /\ Goto(r, "reply")
  /\ UNCHANGED <<token, usedAt, issued, reuseLogged, cron, now>>

\* The cookies leave with the response, of a login or of a refresh.
Reply(r) ==
  /\ req[r].pc = "reply"
  /\ issued' = issued \cup {req[r].child}
  /\ Finish(r)
  /\ UNCHANGED <<session, token, usedAt, reuseLogged, cron, now>>

-----------------------------------------------------------------------------
(* refreshTokens: the CSRF guard, the load, the conditional claim, the      *)
(* record of the use, the heir, the rotation of the session                *)

RefreshGuard(r) ==
  /\ req[r].pc = "idle"
  /\ \E s \in Sessions, t \in issued :
       /\ CsrfPasses(s)
       /\ Start(r, "load", s, t)
  /\ UNCHANGED <<session, token, usedAt, issued, reuseLogged, cron, now>>

\* `now` is taken just before the session is read and kept for every later
\* comparison of this request.
RefreshLoad(r) ==
  LET s == req[r].sess IN
  /\ req[r].pc = "load"
  /\ \/ Active(s) /\ ~Expired(s)
        /\ req' = [req EXCEPT ![r].pc = "claim", ![r].at = now]
     \/ Active(s) /\ Expired(s) /\ Goto(r, "mark")
     \/ ~Active(s) /\ Finish(r)
  /\ UNCHANGED <<session, token, usedAt, issued, reuseLogged, cron, now>>

\* Mutant: the claim does not ask for revoked: false.
ClaimableTwice(r, t) == /\ token[t].state # "none"
                        /\ token[t].sess = req[r].sess
                        /\ token[t].expires >= req[r].at

Claimable(r, t) == /\ Live(t)
                   /\ token[t].sess = req[r].sess
                   /\ token[t].expires >= req[r].at

\* Mutant: a read takes the place of the conditional update.
RefreshClaimByRead(r) ==
  /\ req[r].pc = "claim"
  /\ Goto(r, IF Claimable(r, req[r].tok) THEN "record" ELSE "miss")
  /\ UNCHANGED <<session, token, usedAt, issued, reuseLogged, cron, now>>

\* The conditional update: of all requests that present t, one gets it.
RefreshClaim(r) ==
  /\ req[r].pc = "claim"
  /\ \/ Claimable(r, req[r].tok) /\ RevokeTokens({req[r].tok})
                                 /\ Goto(r, "record")
     \/ ~Claimable(r, req[r].tok) /\ Goto(r, "miss") /\ UNCHANGED token
  /\ UNCHANGED <<session, usedAt, issued, reuseLogged, cron, now>>

\* tokenHash is unique in UsedRefreshToken: a second insert throws P2002.
RefreshRecord(r) ==
  LET t == req[r].tok IN
  /\ req[r].pc = "record"
  /\ \/ usedAt[t] = NoUse /\ usedAt' = [usedAt EXCEPT ![t] = now]
                          /\ Goto(r, "mint")
     \/ usedAt[t] # NoUse /\ Finish(r) /\ UNCHANGED usedAt
  /\ UNCHANGED <<session, token, issued, reuseLogged, cron, now>>

\* The heir; the parent is already revoked, its second revocation is a no-op.
RefreshMint(r) ==
  LET p == req[r].tok IN
  /\ req[r].pc = "mint"
  /\ \E t \in Tokens :
       /\ CreateToken(t, req[r].sess, token[p].family, p, NewExpiry)
       /\ Minted(r, "rotate", t)
  /\ UNCHANGED <<session, usedAt, issued, reuseLogged, cron, now>>

RefreshRotate(r) ==
  /\ req[r].pc = "rotate"
  /\ BindSession(req[r].sess, req[r].child, token[req[r].child].expires)
  /\ Goto(r, "reply")
  /\ UNCHANGED <<token, usedAt, issued, reuseLogged, cron, now>>

\* P2025: the token is read again to find out why the claim failed.
RefreshMiss(r) ==
  LET t == req[r].tok IN
  /\ req[r].pc = "miss"
  /\ \/ token[t].state = "revoked" /\ Goto(r, "reuseFamily")
     \/ Live(t) /\ token[t].expires < req[r].at /\ Goto(r, "staleSession")
     \/ Live(t) /\ token[t].expires >= req[r].at /\ Finish(r)
  /\ UNCHANGED <<session, token, usedAt, issued, reuseLogged, cron, now>>

\* An expired token ends the caller's session, then the token's family.
StaleSession(r) ==
  /\ req[r].pc = "staleSession"
  /\ RevokeSessions({req[r].sess})
  /\ Goto(r, "staleFamily")
  /\ UNCHANGED <<token, usedAt, issued, reuseLogged, cron, now>>

StaleFamily(r) ==
  /\ req[r].pc = "staleFamily"
  /\ RevokeTokens(Family(token[req[r].tok].family))
  /\ Finish(r)
  /\ UNCHANGED <<session, usedAt, issued, reuseLogged, cron, now>>

-----------------------------------------------------------------------------
(* handleTokenReuse *)

ReuseFamily(r) ==
  /\ req[r].pc = "reuseFamily"
  /\ RevokeTokens(Family(token[req[r].tok].family))
  /\ Goto(r, "reuseSession")
  /\ UNCHANGED <<session, usedAt, issued, reuseLogged, cron, now>>

\* Mutant: reuse ends the family and leaves the session.
ReuseSessionKept(r) ==
  /\ req[r].pc = "reuseSession"
  /\ Goto(r, "reuseRecord")
  /\ UNCHANGED <<session, token, usedAt, issued, reuseLogged, cron, now>>

ReuseSession(r) ==
  /\ req[r].pc = "reuseSession"
  /\ RevokeSessions({token[req[r].tok].sess})
  /\ Goto(r, "reuseRecord")
  /\ UNCHANGED <<token, usedAt, issued, reuseLogged, cron, now>>

\* A duplicate insert is ignored here.
ReuseRecord(r) ==
  LET t == req[r].tok IN
  /\ req[r].pc = "reuseRecord"
  /\ usedAt' = [usedAt EXCEPT ![t] = IF @ = NoUse THEN now ELSE @]
  /\ Goto(r, "reuseLog")
  /\ UNCHANGED <<session, token, issued, reuseLogged, cron, now>>

\* logEvent answers null when it cannot store the event, and the handler ends
\* all the same.
ReuseLog(r) ==
  /\ req[r].pc = "reuseLog"
  /\ \/ reuseLogged' = reuseLogged \cup {token[req[r].tok].family}
     \/ UNCHANGED reuseLogged
  /\ Finish(r)
  /\ UNCHANGED <<session, token, usedAt, issued, cron, now>>

-----------------------------------------------------------------------------
(* Loading a session on any guarded request (JwtStrategy.validate,         *)
(* getUserBySessionId); logout; revoke-all                                 *)

\* A load that finds an expired session goes on to mark it revoked; every
\* other outcome of the load changes nothing.
AccessLoad(r) ==
  /\ req[r].pc = "idle"
  /\ \E s \in Sessions :
       /\ Active(s) /\ Expired(s)
       /\ Start(r, "mark", s, NoToken)
  /\ UNCHANGED <<session, token, usedAt, issued, reuseLogged, cron, now>>

\* The update names the row's id only: nothing is checked again.
MarkExpired(r) ==
  /\ req[r].pc = "mark"
  /\ RevokeSessions({req[r].sess})
  /\ Finish(r)
  /\ UNCHANGED <<token, usedAt, issued, reuseLogged, cron, now>>

LogoutGuard(r) ==
  /\ req[r].pc = "idle"
  /\ \E s \in Sessions :
       /\ CsrfPasses(s)
       /\ Start(r, "outLoad", s, NoToken)
  /\ UNCHANGED <<session, token, usedAt, issued, reuseLogged, cron, now>>

LogoutLoad(r) ==
  LET s == req[r].sess IN
  /\ req[r].pc = "outLoad"
  /\ \/ Active(s) /\ ~Expired(s) /\ Goto(r, "outSession")
     \/ Active(s) /\ Expired(s) /\ Goto(r, "mark")
     \/ ~Active(s) /\ Finish(r)
  /\ UNCHANGED <<session, token, usedAt, issued, reuseLogged, cron, now>>

LogoutSession(r) ==
  /\ req[r].pc = "outSession"
  /\ RevokeSessions({req[r].sess})
  /\ Goto(r, "outTokens")
  /\ UNCHANGED <<token, usedAt, issued, reuseLogged, cron, now>>

\* What follows (a load that finds the session revoked, the events) changes
\* none of these tables.
LogoutTokens(r) ==
  /\ req[r].pc = "outTokens"
  /\ RevokeTokens(TokensOf({req[r].sess}))
  /\ Finish(r)
  /\ UNCHANGED <<session, usedAt, issued, reuseLogged, cron, now>>

RevokeAllGuard(r) ==
  /\ req[r].pc = "idle"
  /\ \E s \in Sessions :
       /\ CsrfPasses(s)
       /\ Start(r, "allLoad", s, NoToken)
  /\ UNCHANGED <<session, token, usedAt, issued, reuseLogged, cron, now>>

SessionsOf(u) == {s \in Sessions : Owner[s] = u}

\* findMany: every session of the user that exists by now, whatever its state.
RevokeAllLoad(r) ==
  /\ req[r].pc = "allLoad"
  /\ req' = [req EXCEPT
               ![r].pc = "allRevoke",
               ![r].seen = {s \in SessionsOf(Owner[req[r].sess]) :
                              session[s].state # "none"}]
  /\ UNCHANGED <<session, token, usedAt, issued, reuseLogged, cron, now>>

\* One transaction: the sessions by user, the tokens by the ids read before.
RevokeAllCommit(r) ==
  /\ req[r].pc = "allRevoke"
  /\ RevokeSessions(SessionsOf(Owner[req[r].sess]))
  /\ RevokeTokens(TokensOf(req[r].seen))
  /\ Finish(r)
  /\ UNCHANGED <<usedAt, issued, reuseLogged, cron, now>>

\* TenantsService.remove: one transaction reads the users of the tenant and
\* revokes their sessions; their refresh tokens it leaves alone.
SuspendTenant ==
  /\ \E us \in SUBSET Users :
       RevokeSessions({s \in Sessions : Owner[s] \in us})
  /\ UNCHANGED <<token, usedAt, req, issued, reuseLogged, cron, now>>

-----------------------------------------------------------------------------
(* The hourly cleaner, the clock, failures *)

\* Mutant: the filter selects the sessions that are revoked already.
PrunableWrong == {s \in Sessions : session[s].state = "revoked" /\ Expired(s)}

Prunable == {s \in Sessions : Active(s) /\ Expired(s)}

PruneSessions ==
  /\ cron = "idle"
  /\ RevokeSessions(Prunable)
  /\ cron' = "purge"
  /\ UNCHANGED <<token, usedAt, req, issued, reuseLogged, now>>

\* Mutant: off by one, a use exactly Retention old goes too.
ForgettableEarly(t) == usedAt[t] <= now - Retention

Forgettable(t) == usedAt[t] < now - Retention

PurgeUsed ==
  /\ cron = "purge"
  /\ usedAt' = [t \in Tokens |->
                  IF Forgettable(t) THEN NoUse ELSE usedAt[t]]
  /\ cron' = "idle"
  /\ UNCHANGED <<session, token, req, issued, reuseLogged, now>>

Tick ==
  /\ now < MaxTime
  /\ now' = now + 1
  /\ UNCHANGED <<session, token, usedAt, req, issued, reuseLogged, cron>>

\* The process dies, a call fails, or the response is lost: what was committed
\* stays, the rest of the handler never runs.
Abort(r) ==
  /\ CanAbort
  /\ req[r].pc # "idle"
  /\ Finish(r)
  /\ UNCHANGED <<session, token, usedAt, issued, reuseLogged, cron, now>>

-----------------------------------------------------------------------------

Begin(r) == \/ LoginSession(r) \/ RefreshGuard(r) \/ AccessLoad(r)
            \/ LogoutGuard(r) \/ RevokeAllGuard(r)

Continue(r) ==
  \/ LoginToken(r) \/ LoginBind(r) \/ Reply(r)
  \/ RefreshLoad(r) \/ RefreshClaim(r) \/ RefreshRecord(r) \/ RefreshMint(r)
  \/ RefreshRotate(r) \/ RefreshMiss(r) \/ StaleSession(r) \/ StaleFamily(r)
  \/ ReuseFamily(r) \/ ReuseSession(r) \/ ReuseRecord(r) \/ ReuseLog(r)
  \/ MarkExpired(r)
  \/ LogoutLoad(r) \/ LogoutSession(r) \/ LogoutTokens(r)
  \/ RevokeAllLoad(r) \/ RevokeAllCommit(r)

Clean == PruneSessions \/ PurgeUsed

Next == \/ \E r \in Requests : Begin(r) \/ Continue(r) \/ Abort(r)
        \/ SuspendTenant
        \/ Clean
        \/ Tick

Spec == Init /\ [][Next]_vars

\* A handler that has started keeps running (the event loop serves every
\* settled promise) and the cleaner keeps being scheduled; nobody is obliged
\* to send a request, and the clock owes nothing.
Fairness == /\ \A r \in Requests : WF_vars(Continue(r))
            /\ WF_vars(PruneSessions) /\ WF_vars(PurgeUsed)

FairSpec == Spec /\ Fairness

-----------------------------------------------------------------------------
(* Properties *)

\* A refresh token is exchanged at most once, whatever number of requests
\* present it at the same time: no two tokens have the same parent.
OneHeirPerToken ==
  \A t1, t2 \in Tokens :
    (token[t1].parent # NoToken /\ token[t1].parent = token[t2].parent)
      => t1 = t2

\* A session never has two tokens that could be exchanged: rotation, crashes,
\* lost races and reuse handling leave at most one live one behind.
OneLiveTokenPerSession ==
  \A t1, t2 \in Tokens :
    (Live(t1) /\ Live(t2) /\ token[t1].sess = token[t2].sess) => t1 = t2

\* Once TOKEN_REUSE is logged no token of the family is honoured again, even
\* one that an earlier winner mints after the family was revoked.
ReuseEndsFamily ==
  \A f \in reuseLogged : \A t \in Family(f) : ~Usable(t)

\* A usable token in a client's hands is the one its session is bound to, so
\* the client also holds the CSRF twin that lets it through the guard, and
\* token and session expire together.
IssuedTokenMatchesSession ==
  \A t \in issued : Usable(t) =>
    LET s == token[t].sess IN /\ session[s].current = t
                              /\ session[s].expires = token[t].expires

\* The record of a use outlives the token it is about: as long as an exchanged
\* token has not expired its use is on file, cleaner or not.
UsedKeptWhileValid ==
  \A t \in Tokens :
    (/\ \E c \in Tokens : token[c].parent = t
     /\ token[t].expires >= now) => usedAt[t] # NoUse

\* Nothing brings a revoked session or a revoked token back: not a login's
\* binding, not a rotation that was under way when the revocation landed.
RevocationIsFinal ==
  [][/\ \A s \in Sessions :
          session[s].state = "revoked" => session'[s].state = "revoked"
     /\ \A t \in Tokens :
          token[t].state = "revoked" => token'[t].state = "revoked"]_vars

\* What a session's client can count on: a live token in its hands, a request
\* that will give it one, or a reuse handler that is about to end the session.
Held(s)     == \E t \in issued : Live(t) /\ token[t].sess = s
Promised(s) == \E r \in Requests : req[r].pc \in Rotating /\ req[r].sess = s
Ending(s)   == \E r \in Requests : /\ req[r].pc = "reuseSession"
                                   /\ token[req[r].tok].sess = s

\* A request that began before a token expired may exchange it afterwards: the
\* heir is minted later than a token's life after its parent.
Overtime(s) == \E t \in Tokens :
  /\ token[t].sess = s /\ token[t].parent # NoToken
  /\ token[t].expires > token[token[t].parent].expires + TTL

\* Rotation never strands a client: an active session that has not expired has
\* a token left to exchange or a request at work that will provide one or end
\* it, whichever requests lose a race, unless one died half-way.  The exception
\* is a token exchanged after it expired: a request of another session that
\* found it expired before may still revoke its family.
NobodyStranded ==
  ~CanAbort => \A s \in Sessions : (Active(s) /\ ~Expired(s))
                 => Held(s) \/ Promised(s) \/ Ending(s) \/ Overtime(s)

\* "If expired => mark revoked", as far as it goes: the update does not look at
\* the expiry again, but a session that it is about to revoke though it has not
\* expired is bound to an heir, so a refresh has renewed it.
MarkedWasExpired ==
  \A r \in Requests :
    (req[r].pc = "mark" /\ Active(req[r].sess) /\ ~Expired(req[r].sess))
      => LET t == session[req[r].sess].current IN
         t \in Tokens /\ token[t].parent # NoToken

\* More exactly: the request found the session expired when it loaded it, and
\* from then on nothing but a refresh of the session makes it good again.
MarkFollowsRenewal ==
  [][\A r \in Requests : (req'[r].pc = "mark" /\ ~Expired(req[r].sess)')
       => /\ req[r].pc = "mark" /\ req'[r].sess = req[r].sess
          /\ \/ ~Expired(req[r].sess)
             \/ \E q \in Requests : RefreshRotate(q) /\ req[q].sess = req[r].sess]_vars

\* "First request wins", as far as it goes: a winner that finds its token's use
\* on record already, and so fails, has its session revoked by a reuse handler.
WinnerLosesOnlyRevoked ==
  \A r \in Requests :
    (req[r].pc = "record" /\ usedAt[req[r].tok] # NoUse) => ~Active(req[r].sess)

\* A detected reuse is answered before its handler ends, whatever the others do
\* meanwhile and whether or not the event could be stored: its session is revoked,
\* none of the family's tokens is honoured, and the use is on record as long as
\* the token is valid.  Only a handler whose process dies may stop before.
ReuseEndsAnswered ==
  [][\A r \in Requests :
       (~CanAbort /\ req[r].pc \in Answering /\ req'[r].pc \notin Answering)
         => LET t == req[r].tok IN
            /\ session'[token[t].sess].state = "revoked"
            /\ \A u \in Family(token[t].family) : ~Usable(u)'
            /\ token[t].expires >= now => usedAt'[t] # NoUse]_vars

\* An expired session does not stay active: it is revoked, by a request or by
\* the cleaner, or a refresh that was under way renews it.
ExpiredSessionsEnd ==
  \A s \in Sessions :
    (Active(s) /\ Expired(s)) ~> (~Active(s) \/ ~Expired(s))

\* "If expired => mark revoked": a session that is marked revoked for being
\* expired is expired when it is marked.
ExpiryRevokesOnlyExpired ==
  [][\A r \in Requests :
       (/\ req[r].pc = "mark" /\ req'[r].pc = "idle"
        /\ Active(req[r].sess) /\ session'[req[r].sess].state = "revoked")
         => Expired(req[r].sess)]_vars

\* "First request wins": the request whose claim succeeded goes on to mint.
FirstRequestWins ==
  [][\A r \in Requests :
       req[r].pc = "record" => req'[r].pc \in {"record", "mint"}]_vars

-----------------------------------------------------------------------------
(* The service implements TokenLineage: the live tokens are the good ones,  *)
(* a request between its claim and its mint holds the entitlement.          *)

Lineage == INSTANCE TokenLineage WITH
  home   <- [t \in Tokens |-> token[t].sess],
  good   <- {t \in Tokens : Live(t)},
  owed   <- {t \in Tokens : \E r \in Requests :
               req[r].pc \in {"record", "mint"} /\ req[r].tok = t},
  closed <- {s \in Sessions : session[s].state = "revoked"}

\* Every behaviour of the handlers, racing, crashing and expiring, is one of
\* single-use tokens with one heir each.
ImplementsLineage == Lineage!LineageSpec

-----------------------------------------------------------------------------
(* The invariant behind the properties: what every row and every request    *)
(* in flight may rely on.  RefreshRotationProofs shows it inductive.        *)

RowsInv ==
  /\ \A t \in Tokens :
       token[t].state = "none" => /\ token[t].family = NoToken
                                  /\ token[t].sess = NoSession
                                  /\ token[t].parent = NoToken
  /\ \A t \in Tokens :
       token[t].state # "none" =>
         /\ token[t].sess \in Sessions
         /\ session[token[t].sess].state # "none"
         /\ token[t].family \in Tokens
         /\ token[token[t].family].state # "none"
         /\ token[token[t].family].sess = token[t].sess
  /\ issued \subseteq {t \in Tokens : token[t].state # "none"}

RequestInv ==
  \A r \in Requests :
    /\ req[r].pc # "idle" => /\ req[r].sess \in Sessions
                             /\ session[req[r].sess].state # "none"
    /\ req[r].pc \in HoldsToken => req[r].tok \in issued
    /\ req[r].pc \in {"record", "mint"} =>
         /\ token[req[r].tok].state = "revoked"
         /\ token[req[r].tok].sess = req[r].sess
         /\ \A t \in Tokens : token[t].parent # req[r].tok
    /\ req[r].pc \in {"bind", "rotate", "reply"} =>
         /\ req[r].child \in Tokens \ issued
         /\ token[req[r].child].state # "none"
         /\ token[req[r].child].sess = req[r].sess

\* At most one request at a time is about to give a session a new token, and
\* while it is, the session has no other token to exchange.
RotationInv ==
  /\ \A r, q \in Requests :
       (/\ req[r].pc \in Rotating /\ req[q].pc \in Rotating
        /\ req[r].sess = req[q].sess) => r = q
  /\ \A r \in Requests, t \in Tokens :
       token[t].sess = req[r].sess =>
         /\ req[r].pc # "login"
         /\ req[r].pc \in {"record", "mint"} => ~Live(t)
         /\ req[r].pc \in {"bind", "rotate", "reply"} =>
              (Live(t) => t = req[r].child)

ParentsInv ==
  \A t \in Tokens :
    token[t].parent # NoToken => /\ token[t].parent \in Tokens
                                 /\ token[token[t].parent].state = "revoked"

BindingInv ==
  /\ \A t \in issued :
       Live(t) => /\ session[token[t].sess].current = t
                  /\ session[token[t].sess].expires = token[t].expires
  /\ \A r \in Requests :
       /\ req[r].pc = "reply" =>
            /\ session[req[r].sess].current = req[r].child
            /\ session[req[r].sess].expires = token[req[r].child].expires
       /\ req[r].pc = "bind" =>
            session[req[r].sess].expires = token[req[r].child].expires

ReuseInv ==
  /\ \A r \in Requests :
       req[r].pc \in {"reuseRecord", "reuseLog"} =>
         session[token[req[r].tok].sess].state = "revoked"
  /\ \A f \in reuseLogged : /\ token[f].state # "none"
                             /\ session[token[f].sess].state = "revoked"

UseInv ==
  /\ \A t \in Tokens : token[t].expires <= now + TTL
  /\ \A s \in Sessions : session[s].expires <= now + TTL
  /\ \A t \in Tokens :
       usedAt[t] # NoUse => /\ token[t].state # "none"
                            /\ token[t].expires <= usedAt[t] + TTL
  /\ \A t \in Tokens :
       (/\ \/ \E c \in Tokens : token[c].parent = t
           \/ \E r \in Requests :
                req[r].pc \in {"mint", "reuseLog"} /\ req[r].tok = t
        /\ token[t].expires >= now) => usedAt[t] # NoUse

\* The record of a use is kept only of revoked tokens; if it is there before
\* the winner of the token made it, a reuse handler did, and ended the session.
RecordInv ==
  /\ \A t \in Tokens : usedAt[t] # NoUse => token[t].state = "revoked"
  /\ \A r \in Requests :
       req[r].pc \in Answering => token[req[r].tok].state = "revoked"
  /\ WinnerLosesOnlyRevoked

\* What may still come of the session of a token: itself or its heir, no other.
LastToken(t) ==
  /\ \A c \in Tokens : Live(c) /\ token[c].sess = token[t].sess => c = t
  /\ \A q \in Requests :
       (req[q].pc \in {"record", "mint"} /\ req[q].sess = token[t].sess)
         => req[q].tok = t

\* A token that a request found expired is the last one of its session, unless
\* its heir was minted in overtime.
StaleInv ==
  \A r \in Requests :
    /\ req[r].pc \in {"claim", "miss"} => req[r].at <= now
    /\ req[r].pc \in {"staleSession", "staleFamily"} =>
         /\ token[req[r].tok].expires < now
         /\ Overtime(token[req[r].tok].sess) \/ LastToken(req[r].tok)

\* A login binds a session that nothing was bound to, a refresh binds an heir.
MarkInv ==
  /\ MarkedWasExpired
  /\ \A r \in Requests :
       /\ req[r].pc \in {"login", "bind"} => session[req[r].sess].current = NoToken
       /\ req[r].pc = "rotate" => token[req[r].child].parent # NoToken

\* No handler loses a token without the session's end or another token in view.
StrandInv ==
  /\ \A s \in Sessions :
       Active(s) => Held(s) \/ Promised(s) \/ Ending(s) \/ Overtime(s) \/ Expired(s)
  /\ \A r \in Requests :
       LET s == req[r].sess  t == req[r].tok IN
       /\ req[r].pc \in {"bind", "rotate", "reply"} /\ Active(s) =>
            Live(req[r].child) \/ Ending(s) \/ Overtime(s)
       /\ req[r].pc \in {"outTokens", "staleFamily"} => ~Active(s)
       /\ req[r].pc = "allRevoke" => req[r].seen \subseteq SessionsOf(Owner[s])

IInv == /\ TypeOK /\ RowsInv /\ RequestInv /\ RotationInv /\ ParentsInv
        /\ OneHeirPerToken /\ OneLiveTokenPerSession
        /\ BindingInv /\ ReuseInv /\ UseInv

=============================================================================
