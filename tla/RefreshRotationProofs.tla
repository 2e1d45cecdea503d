------------------------ MODULE RefreshRotationProofs ------------------------
(* Proofs about RefreshRotation, for all values of its constants.  The     *)
(* properties follow from IInv, which holds initially and is preserved by  *)
(* every action; the proof of each of its parts names the parts it needs.  *)
EXTENDS RefreshRotation, TLAPS

-----------------------------------------------------------------------------
(* What the table updates and the moves of a request do to the types. *)

(* Revoking sessions keeps the Session table typed. *)
LEMMA RevokeSessionsType ==
  ASSUME session \in [Sessions -> SessionRow], NEW ss, RevokeSessions(ss)
  PROVE  session' \in [Sessions -> SessionRow]
BY DEF RevokeSessions, SessionRow

(* Revoking tokens keeps the RefreshToken table typed. *)
LEMMA RevokeTokensType ==
  ASSUME token \in [Tokens -> TokenRow], NEW ts, RevokeTokens(ts)
  PROVE  token' \in [Tokens -> TokenRow]
BY DEF RevokeTokens, TokenRow

(* Binding a token to a session keeps the Session table typed. *)
LEMMA BindSessionType ==
  ASSUME session \in [Sessions -> SessionRow], NEW s \in Sessions,
         NEW t \in Tokens, NEW e \in Time, BindSession(s, t, e)
  PROVE  session' \in [Sessions -> SessionRow]
BY DEF BindSession, SessionRow

(* A new token row is typed, its expiry at most a TTL past the clock. *)
LEMMA CreateTokenType ==
  ASSUME token \in [Tokens -> TokenRow], NEW t \in Tokens,
         NEW s \in Sessions, NEW f \in Tokens, NEW p \in Tokens \cup {NoToken},
         NEW e \in Time, CreateToken(t, s, f, p, e)
  PROVE  token' \in [Tokens -> TokenRow]
BY DEF CreateToken, TokenRow

(* A request that starts is a typed request. *)
LEMMA StartType ==
  ASSUME req \in [Requests -> RequestRow], NEW r \in Requests, NEW pc \in PC,
         NEW s \in Sessions, NEW t \in Tokens \cup {NoToken},
         Start(r, pc, s, t)
  PROVE  req' \in [Requests -> RequestRow]
BY TimeAssumption DEF Start, RequestRow, Time

(* A request that goes on is a typed request. *)
LEMMA GotoType ==
  ASSUME req \in [Requests -> RequestRow], NEW r \in Requests,
         NEW pc \in PC, Goto(r, pc)
  PROVE  req' \in [Requests -> RequestRow]
BY DEF Goto, RequestRow

(* A request that made a token is a typed request. *)
LEMMA MintedType ==
  ASSUME req \in [Requests -> RequestRow], NEW r \in Requests,
         NEW pc \in PC, NEW t \in Tokens, Minted(r, pc, t)
  PROVE  req' \in [Requests -> RequestRow]
BY DEF Minted, RequestRow

(* A request that ended is a typed request. *)
LEMMA FinishType ==
  ASSUME req \in [Requests -> RequestRow], NEW r \in Requests, Finish(r)
  PROVE  req' \in [Requests -> RequestRow]
BY TimeAssumption DEF Finish, RequestRow, Idle, PC, Time

-----------------------------------------------------------------------------
(* Type correctness *)

(* The empty tables are typed. *)
LEMMA TypeInit == Init => TypeOK
BY TimeAssumption, NullAssumption
DEF Init, TypeOK, SessionRow, TokenRow, RequestRow, Idle, PC, Time, NoUse

(* Every action keeps the types, given what a request may rely on. *)
LEMMA TypeNext ==
  ASSUME TypeOK, RowsInv, RequestInv, [Next]_vars
  PROVE  TypeOK'
<1> USE TimeAssumption DEF TypeOK
<1>pc. PC = {"idle", "mark", "login", "bind", "reply",
             "load", "claim", "miss", "record", "mint", "rotate",
             "staleSession", "staleFamily",
             "reuseFamily", "reuseSession", "reuseRecord", "reuseLog",
             "outLoad", "outSession", "outTokens", "allLoad", "allRevoke"}
  BY DEF PC
<1>e. now \in Time /\ now + TTL \in Time
  BY DEF Time
<1>1. ASSUME NEW r \in Requests, LoginSession(r) PROVE TypeOK'
  BY <1>1, <1>pc, <1>e, StartType DEF LoginSession, SessionRow, NewExpiry
<1>2. ASSUME NEW r \in Requests, RefreshGuard(r) PROVE TypeOK'
  BY <1>2, <1>pc, <1>e, StartType DEF RefreshGuard
<1>3. ASSUME NEW r \in Requests, AccessLoad(r) PROVE TypeOK'
  BY <1>3, <1>pc, <1>e, StartType DEF AccessLoad
<1>4. ASSUME NEW r \in Requests, LogoutGuard(r) PROVE TypeOK'
  BY <1>4, <1>pc, <1>e, StartType DEF LogoutGuard
<1>5. ASSUME NEW r \in Requests, RevokeAllGuard(r) PROVE TypeOK'
  BY <1>5, <1>pc, <1>e, StartType DEF RevokeAllGuard
<1>6. ASSUME NEW r \in Requests, LoginToken(r) PROVE TypeOK'
  <2>1. PICK t \in Tokens : /\ CreateToken(t, req[r].sess, t, NoToken,
                                          session[req[r].sess].expires)
                            /\ Minted(r, "bind", t)
    BY <1>6 DEF LoginToken
  <2>2. /\ req[r].sess \in Sessions
        /\ session[req[r].sess].expires \in Time
    BY <1>6 DEF LoginToken, RequestInv, SessionRow
  <2>3. token' \in [Tokens -> TokenRow] /\ req' \in [Requests -> RequestRow]
    BY <2>1, <2>2, <1>pc, CreateTokenType, MintedType
  <2>4. QED
    BY <1>6, <2>3 DEF LoginToken
<1>7. ASSUME NEW r \in Requests, LoginBind(r) PROVE TypeOK'
  <2>1. /\ req[r].sess \in Sessions /\ req[r].child \in Tokens
        /\ session[req[r].sess].expires \in Time
    BY <1>7 DEF LoginBind, RequestInv, SessionRow
  <2>2. session' \in [Sessions -> SessionRow]
    BY <1>7, <2>1, BindSessionType DEF LoginBind
  <2>3. req' \in [Requests -> RequestRow]
    BY <1>7, <1>pc, GotoType DEF LoginBind
  <2>4. QED
    BY <1>7, <2>2, <2>3 DEF LoginBind
<1>8. ASSUME NEW r \in Requests, Reply(r) PROVE TypeOK'
  <2>1. req[r].child \in Tokens
    BY <1>8 DEF Reply, RequestInv
  <2>2. QED
    BY <1>8, <2>1, FinishType DEF Reply
<1>9. ASSUME NEW r \in Requests, RefreshLoad(r) PROVE TypeOK'
  BY <1>9, <1>pc, <1>e, GotoType, FinishType DEF RefreshLoad, RequestRow
<1>10. ASSUME NEW r \in Requests, RefreshClaim(r) PROVE TypeOK'
  BY <1>10, <1>pc, <1>e, RevokeTokensType, GotoType DEF RefreshClaim
<1>11. ASSUME NEW r \in Requests, RefreshRecord(r) PROVE TypeOK'
  BY <1>11, <1>pc, <1>e, GotoType, FinishType DEF RefreshRecord
<1>12. ASSUME NEW r \in Requests, RefreshMint(r) PROVE TypeOK'
  <2>1. PICK t \in Tokens :
          /\ CreateToken(t, req[r].sess, token[req[r].tok].family, req[r].tok,
                         NewExpiry)
          /\ Minted(r, "rotate", t)
    BY <1>12 DEF RefreshMint
  <2>2. /\ req[r].sess \in Sessions /\ req[r].tok \in Tokens
        /\ token[req[r].tok].family \in Tokens
    BY <1>12 DEF RefreshMint, RequestInv, RowsInv, HoldsToken
  <2>3. token' \in [Tokens -> TokenRow] /\ req' \in [Requests -> RequestRow]
    BY <2>1, <2>2, <1>pc, <1>e, CreateTokenType, MintedType DEF NewExpiry
  <2>4. QED
    BY <1>12, <2>3 DEF RefreshMint
<1>13. ASSUME NEW r \in Requests, RefreshRotate(r) PROVE TypeOK'
  <2>1. /\ req[r].sess \in Sessions /\ req[r].child \in Tokens
        /\ token[req[r].child].expires \in Time
    BY <1>13 DEF RefreshRotate, RequestInv, TokenRow
  <2>2. session' \in [Sessions -> SessionRow]
    BY <1>13, <2>1, BindSessionType DEF RefreshRotate
  <2>3. req' \in [Requests -> RequestRow]
    BY <1>13, <1>pc, GotoType DEF RefreshRotate
  <2>4. QED
    BY <1>13, <2>2, <2>3 DEF RefreshRotate
<1>14. ASSUME NEW r \in Requests, RefreshMiss(r) PROVE TypeOK'
  BY <1>14, <1>pc, <1>e, GotoType, FinishType DEF RefreshMiss
<1>15. ASSUME NEW r \in Requests, StaleSession(r) PROVE TypeOK'
  BY <1>15, <1>pc, <1>e, RevokeSessionsType, GotoType DEF StaleSession
<1>16. ASSUME NEW r \in Requests, StaleFamily(r) PROVE TypeOK'
  BY <1>16, <1>pc, <1>e, RevokeTokensType, FinishType DEF StaleFamily
<1>17. ASSUME NEW r \in Requests, ReuseFamily(r) PROVE TypeOK'
  BY <1>17, <1>pc, <1>e, RevokeTokensType, GotoType DEF ReuseFamily
<1>18. ASSUME NEW r \in Requests, ReuseSession(r) PROVE TypeOK'
  BY <1>18, <1>pc, <1>e, RevokeSessionsType, GotoType DEF ReuseSession
<1>19. ASSUME NEW r \in Requests, ReuseRecord(r) PROVE TypeOK'
  BY <1>19, <1>pc, <1>e, GotoType DEF ReuseRecord
<1>20. ASSUME NEW r \in Requests, ReuseLog(r) PROVE TypeOK'
  <2>1. token[req[r].tok].family \in Tokens
    BY <1>20 DEF ReuseLog, RequestInv, RowsInv, HoldsToken
  <2>2. QED
    BY <1>20, <2>1, FinishType DEF ReuseLog
<1>21. ASSUME NEW r \in Requests, MarkExpired(r) PROVE TypeOK'
  BY <1>21, <1>pc, <1>e, RevokeSessionsType, FinishType DEF MarkExpired
<1>22. ASSUME NEW r \in Requests, LogoutLoad(r) PROVE TypeOK'
  BY <1>22, <1>pc, <1>e, GotoType, FinishType DEF LogoutLoad
<1>23. ASSUME NEW r \in Requests, LogoutSession(r) PROVE TypeOK'
  BY <1>23, <1>pc, <1>e, RevokeSessionsType, GotoType DEF LogoutSession
<1>24. ASSUME NEW r \in Requests, LogoutTokens(r) PROVE TypeOK'
  BY <1>24, <1>pc, <1>e, RevokeTokensType, FinishType DEF LogoutTokens
<1>25. ASSUME NEW r \in Requests, RevokeAllLoad(r) PROVE TypeOK'
  <2>1. PICK ss \in SUBSET Sessions :
          req' = [req EXCEPT ![r].pc = "allRevoke", ![r].seen = ss]
    BY <1>25, Zenon DEF RevokeAllLoad, SessionsOf
  <2>2. ASSUME NEW q \in Requests PROVE req'[q] \in RequestRow
    <3>1. req[q] \in RequestRow
      OBVIOUS
    <3>2. CASE q = r
      <4>1. req'[q] = [req[q] EXCEPT !.pc = "allRevoke", !.seen = ss]
        BY <2>1, <3>2
      <4>2. QED
        BY <4>1, <3>1, <1>pc DEF RequestRow
    <3>3. CASE q # r
      BY <2>1, <3>1, <3>3
    <3>4. QED
      BY <3>2, <3>3
  <2>3. req' \in [Requests -> RequestRow]
    BY <2>1, <2>2
  <2>4. QED
    BY <1>25, <2>3 DEF RevokeAllLoad
<1>26. ASSUME NEW r \in Requests, RevokeAllCommit(r) PROVE TypeOK'
  BY <1>26, <1>pc, <1>e, RevokeSessionsType, RevokeTokensType, FinishType
     DEF RevokeAllCommit
<1>27. ASSUME NEW r \in Requests, Abort(r) PROVE TypeOK'
  BY <1>27, <1>pc, <1>e, FinishType DEF Abort
<1>28. CASE PruneSessions
  BY <1>28, RevokeSessionsType DEF PruneSessions
<1>33. CASE SuspendTenant
  BY <1>33, RevokeSessionsType DEF SuspendTenant
<1>29. CASE PurgeUsed
  BY <1>29 DEF PurgeUsed, Forgettable
<1>30. CASE Tick
  BY <1>30 DEF Tick
<1>31. CASE UNCHANGED vars
  BY <1>31 DEF vars
<1>32. QED
  BY <1>1, <1>2, <1>3, <1>4, <1>5, <1>6, <1>7, <1>8, <1>9, <1>10, <1>11,
     <1>12, <1>13, <1>14, <1>15, <1>16, <1>17, <1>18, <1>19, <1>20, <1>21,
     <1>22, <1>23, <1>24, <1>25, <1>26, <1>27, <1>28, <1>29, <1>30, <1>31,
     <1>33 DEF Next, Begin, Continue, Clean

-----------------------------------------------------------------------------
(* Most actions revoke rows at most and give no session a new token.       *)

CoreInv == /\ RowsInv /\ RequestInv /\ RotationInv /\ ParentsInv
           /\ OneHeirPerToken /\ OneLiveTokenPerSession /\ BindingInv

OnlyRevokes ==
  /\ \A t \in Tokens :
       /\ token'[t].sess = token[t].sess
       /\ token'[t].family = token[t].family
       /\ token'[t].parent = token[t].parent
       /\ token'[t].expires = token[t].expires
       /\ \/ token'[t].state = token[t].state
          \/ token[t].state # "none" /\ token'[t].state = "revoked"
  /\ \A s \in Sessions :
       /\ session'[s].current = session[s].current
       /\ session'[s].expires = session[s].expires
       /\ \/ session'[s].state = session[s].state
          \/ session[s].state # "none" /\ session'[s].state = "revoked"
  /\ issued' = issued

\* What becomes of the record of uses, the reuse events and the clock.
OrdinaryRecords ==
  /\ \A t \in Tokens :
       \/ usedAt'[t] = usedAt[t]
       \/ usedAt'[t] = now /\ token[t].state # "none"
       \/ usedAt'[t] = NoUse /\ usedAt[t] < now - Retention
  /\ \A f \in reuseLogged' :
       \/ f \in reuseLogged
       \/ \E r \in Requests : /\ req[r].pc = "reuseLog"
                             /\ f = token[req[r].tok].family
  /\ now <= now'

OrdinaryMove(q) ==
  /\ req'[q].pc # "idle" => /\ req'[q].sess \in Sessions
                            /\ session[req'[q].sess].state # "none"
  /\ req'[q].pc \in HoldsToken => req'[q].tok \in issued
  /\ req'[q].pc \in Rotating =>
       /\ \/ req'[q].pc = req[q].pc
          \/ /\ req[q].pc = "record" /\ req'[q].pc = "mint"
             /\ usedAt'[req[q].tok] # NoUse
       /\ req'[q].sess = req[q].sess
       /\ req'[q].tok = req[q].tok
       /\ req'[q].child = req[q].child
  /\ req'[q].pc = "reuseLog" =>
       \/ req[q].pc = "reuseLog" /\ req'[q].tok = req[q].tok
       \/ usedAt'[req'[q].tok] # NoUse
  /\ req'[q].pc \in {"reuseRecord", "reuseLog"} =>
       /\ req'[q].tok = req[q].tok
       /\ \/ req[q].pc \in {"reuseRecord", "reuseLog"}
          \/ session'[token[req[q].tok].sess].state = "revoked"

(* What the revocation of sessions does to one row. *)
LEMMA RevokeSessionsRows ==
  ASSUME session \in [Sessions -> SessionRow], NEW ss, RevokeSessions(ss),
         NEW s \in Sessions
  PROVE  /\ session'[s].current = session[s].current
         /\ session'[s].expires = session[s].expires
         /\ \/ session'[s].state = session[s].state
            \/ session[s].state # "none" /\ session'[s].state = "revoked"
BY DEF RevokeSessions, SessionRow

(* What the revocation of tokens does to one row. *)
LEMMA RevokeTokensRows ==
  ASSUME token \in [Tokens -> TokenRow], NEW ts, RevokeTokens(ts),
         NEW t \in Tokens
  PROVE  /\ token'[t].sess = token[t].sess
         /\ token'[t].family = token[t].family
         /\ token'[t].parent = token[t].parent
         /\ token'[t].expires = token[t].expires
         /\ \/ token'[t].state = token[t].state
            \/ token[t].state # "none" /\ token'[t].state = "revoked"
BY DEF RevokeTokens, TokenRow

Ordinary == OnlyRevokes /\ OrdinaryRecords /\ \A q \in Requests : OrdinaryMove(q)

OrdinaryStep(r) ==
  \/ RefreshGuard(r)
  \/ AccessLoad(r)
  \/ LogoutGuard(r)
  \/ RevokeAllGuard(r)
  \/ RefreshLoad(r)
  \/ RefreshRecord(r)
  \/ RefreshMiss(r)
  \/ StaleSession(r)
  \/ StaleFamily(r)
  \/ ReuseFamily(r)
  \/ ReuseSession(r)
  \/ ReuseRecord(r)
  \/ ReuseLog(r)
  \/ MarkExpired(r)
  \/ LogoutLoad(r)
  \/ LogoutSession(r)
  \/ LogoutTokens(r)
  \/ RevokeAllLoad(r)
  \/ RevokeAllCommit(r)
  \/ Abort(r)

(* All actions but the seven that make, bind, claim or hand out a token
   are ordinary. *)
LEMMA OrdinarySteps ==
  ASSUME TypeOK, TypeOK', RequestInv, RowsInv,
         \/ \E r \in Requests : OrdinaryStep(r)
         \/ PruneSessions \/ SuspendTenant \/ PurgeUsed \/ Tick \/ UNCHANGED vars
  PROVE  Ordinary
<1> USE DEF TypeOK
<1>q. ASSUME NEW q \in Requests, req'[q] = req[q] PROVE OrdinaryMove(q)
  BY <1>q DEF RequestInv, OrdinaryMove
<1>1. ASSUME NEW r \in Requests, RefreshGuard(r) PROVE Ordinary
  <2>1. OnlyRevokes
    BY <1>1 DEF RefreshGuard, OnlyRevokes
  <2>2. OrdinaryMove(r)
    BY <1>1 DEF RefreshGuard, Start, OrdinaryMove, RequestInv, RequestRow,
             HoldsToken, Rotating, CsrfPasses, Active
  <2>3. ASSUME NEW q \in Requests, q # r PROVE req'[q] = req[q]
    BY <1>1, <2>3 DEF RefreshGuard, Start
  <2>4. OrdinaryRecords
    BY <1>1 DEF RefreshGuard, OrdinaryRecords
  <2>5. QED
    BY <2>1, <2>2, <2>3, <2>4, <1>q DEF Ordinary
<1>2. ASSUME NEW r \in Requests, AccessLoad(r) PROVE Ordinary
  <2>1. OnlyRevokes
    BY <1>2 DEF AccessLoad, OnlyRevokes
  <2>2. OrdinaryMove(r)
    BY <1>2 DEF AccessLoad, Start, OrdinaryMove, RequestInv, RequestRow,
             HoldsToken, Rotating, CsrfPasses, Active
  <2>3. ASSUME NEW q \in Requests, q # r PROVE req'[q] = req[q]
    BY <1>2, <2>3 DEF AccessLoad, Start
  <2>4. OrdinaryRecords
    BY <1>2 DEF AccessLoad, OrdinaryRecords
  <2>5. QED
    BY <2>1, <2>2, <2>3, <2>4, <1>q DEF Ordinary
<1>3. ASSUME NEW r \in Requests, LogoutGuard(r) PROVE Ordinary
  <2>1. OnlyRevokes
    BY <1>3 DEF LogoutGuard, OnlyRevokes
  <2>2. OrdinaryMove(r)
    BY <1>3 DEF LogoutGuard, Start, OrdinaryMove, RequestInv, RequestRow,
             HoldsToken, Rotating, CsrfPasses, Active
  <2>3. ASSUME NEW q \in Requests, q # r PROVE req'[q] = req[q]
    BY <1>3, <2>3 DEF LogoutGuard, Start
  <2>4. OrdinaryRecords
    BY <1>3 DEF LogoutGuard, OrdinaryRecords
  <2>5. QED
    BY <2>1, <2>2, <2>3, <2>4, <1>q DEF Ordinary
<1>4. ASSUME NEW r \in Requests, RevokeAllGuard(r) PROVE Ordinary
  <2>1. OnlyRevokes
    BY <1>4 DEF RevokeAllGuard, OnlyRevokes
  <2>2. OrdinaryMove(r)
    BY <1>4 DEF RevokeAllGuard, Start, OrdinaryMove, RequestInv, RequestRow,
             HoldsToken, Rotating, CsrfPasses, Active
  <2>3. ASSUME NEW q \in Requests, q # r PROVE req'[q] = req[q]
    BY <1>4, <2>3 DEF RevokeAllGuard, Start
  <2>4. OrdinaryRecords
    BY <1>4 DEF RevokeAllGuard, OrdinaryRecords
  <2>5. QED
    BY <2>1, <2>2, <2>3, <2>4, <1>q DEF Ordinary
<1>5. ASSUME NEW r \in Requests, RefreshLoad(r) PROVE Ordinary
  <2>1. OnlyRevokes
    BY <1>5 DEF RefreshLoad, OnlyRevokes
  <2>2. OrdinaryMove(r)
    BY <1>5 DEF RefreshLoad, Goto, Finish, OrdinaryMove, RequestInv, RequestRow,
             HoldsToken, Rotating, Idle
  <2>3. ASSUME NEW q \in Requests, q # r PROVE req'[q] = req[q]
    BY <1>5, <2>3 DEF RefreshLoad, Goto, Finish
  <2>4. OrdinaryRecords
    BY <1>5 DEF RefreshLoad, OrdinaryRecords
  <2>5. QED
    BY <2>1, <2>2, <2>3, <2>4, <1>q DEF Ordinary
<1>6. ASSUME NEW r \in Requests, RefreshRecord(r) PROVE Ordinary
  <2>1. OnlyRevokes
    BY <1>6 DEF RefreshRecord, OnlyRevokes
  <2>2. OrdinaryMove(r)
    <3>1. /\ req[r].pc = "record" /\ req[r].tok \in Tokens
          /\ req[r].tok \in issued
          /\ req[r].sess \in Sessions /\ session[req[r].sess].state # "none"
      BY <1>6 DEF RefreshRecord, RequestInv, HoldsToken
    <3>2. \/ req'[r] = Idle
          \/ /\ req'[r] = [req[r] EXCEPT !.pc = "mint"]
             /\ usedAt'[req[r].tok] = now
      BY <1>6, <3>1 DEF RefreshRecord, Goto, Finish
    <3>3. now # NoUse
      BY DEF NoUse
    <3>4. QED
      BY <3>1, <3>2, <3>3
      DEF OrdinaryMove, RequestRow, HoldsToken, Rotating, Idle
  <2>3. ASSUME NEW q \in Requests, q # r PROVE req'[q] = req[q]
    BY <1>6, <2>3 DEF RefreshRecord, Goto, Finish
  <2>4. OrdinaryRecords
    BY <1>6 DEF RefreshRecord, OrdinaryRecords, RequestInv, RowsInv, HoldsToken
  <2>5. QED
    BY <2>1, <2>2, <2>3, <2>4, <1>q DEF Ordinary
<1>7. ASSUME NEW r \in Requests, RefreshMiss(r) PROVE Ordinary
  <2>1. OnlyRevokes
    BY <1>7 DEF RefreshMiss, OnlyRevokes
  <2>2. OrdinaryMove(r)
    <3>1. /\ req[r].sess \in Sessions /\ req[r].tok \in issued
          /\ session[req[r].sess].state # "none"
      BY <1>7 DEF RefreshMiss, RequestInv, HoldsToken
    <3>2. \/ req'[r] = Idle
          \/ \E pc \in {"reuseFamily", "staleSession"} :
               req'[r] = [req[r] EXCEPT !.pc = pc]
      BY <1>7 DEF RefreshMiss, Goto, Finish
    <3>3. QED
      BY <3>1, <3>2 DEF OrdinaryMove, RequestRow, HoldsToken, Rotating, Idle
  <2>3. ASSUME NEW q \in Requests, q # r PROVE req'[q] = req[q]
    BY <1>7, <2>3 DEF RefreshMiss, Goto, Finish
  <2>4. OrdinaryRecords
    BY <1>7 DEF RefreshMiss, OrdinaryRecords
  <2>5. QED
    BY <2>1, <2>2, <2>3, <2>4, <1>q DEF Ordinary
<1>8. ASSUME NEW r \in Requests, StaleSession(r) PROVE Ordinary
  <2>1. OnlyRevokes
    BY <1>8, RevokeSessionsRows DEF StaleSession, OnlyRevokes
  <2>2. OrdinaryMove(r)
    BY <1>8 DEF StaleSession, Goto, OrdinaryMove, RequestInv, RequestRow,
             HoldsToken, Rotating
  <2>3. ASSUME NEW q \in Requests, q # r PROVE req'[q] = req[q]
    BY <1>8, <2>3 DEF StaleSession, Goto
  <2>4. OrdinaryRecords
    BY <1>8 DEF StaleSession, OrdinaryRecords
  <2>5. QED
    BY <2>1, <2>2, <2>3, <2>4, <1>q DEF Ordinary
<1>9. ASSUME NEW r \in Requests, StaleFamily(r) PROVE Ordinary
  <2>1. OnlyRevokes
    BY <1>9, RevokeTokensRows DEF StaleFamily, OnlyRevokes
  <2>2. OrdinaryMove(r)
    BY <1>9 DEF StaleFamily, Finish, OrdinaryMove, RequestInv, RequestRow,
             HoldsToken, Rotating, Idle
  <2>3. ASSUME NEW q \in Requests, q # r PROVE req'[q] = req[q]
    BY <1>9, <2>3 DEF StaleFamily, Finish
  <2>4. OrdinaryRecords
    BY <1>9 DEF StaleFamily, OrdinaryRecords
  <2>5. QED
    BY <2>1, <2>2, <2>3, <2>4, <1>q DEF Ordinary
<1>10. ASSUME NEW r \in Requests, ReuseFamily(r) PROVE Ordinary
  <2>1. OnlyRevokes
    BY <1>10, RevokeTokensRows DEF ReuseFamily, OnlyRevokes
  <2>2. OrdinaryMove(r)
    BY <1>10 DEF ReuseFamily, Goto, OrdinaryMove, RequestInv, RequestRow,
             HoldsToken, Rotating
  <2>3. ASSUME NEW q \in Requests, q # r PROVE req'[q] = req[q]
    BY <1>10, <2>3 DEF ReuseFamily, Goto
  <2>4. OrdinaryRecords
    BY <1>10 DEF ReuseFamily, OrdinaryRecords
  <2>5. QED
    BY <2>1, <2>2, <2>3, <2>4, <1>q DEF Ordinary
<1>11. ASSUME NEW r \in Requests, ReuseSession(r) PROVE Ordinary
  <2>1. OnlyRevokes
    BY <1>11, RevokeSessionsRows DEF ReuseSession, OnlyRevokes
  <2>2. OrdinaryMove(r)
    <3>1. /\ req[r].pc = "reuseSession" /\ req[r].tok \in issued
          /\ req[r].sess \in Sessions /\ session[req[r].sess].state # "none"
      BY <1>11 DEF ReuseSession, RequestInv, HoldsToken
    <3>2. session'[token[req[r].tok].sess].state = "revoked"
      BY <1>11, <3>1 DEF ReuseSession, RevokeSessions, RowsInv, SessionRow
    <3>3. req'[r] = [req[r] EXCEPT !.pc = "reuseRecord"]
      BY <1>11 DEF ReuseSession, Goto
    <3>4. QED
      BY <3>1, <3>2, <3>3 DEF OrdinaryMove, RequestRow, HoldsToken, Rotating
  <2>3. ASSUME NEW q \in Requests, q # r PROVE req'[q] = req[q]
    BY <1>11, <2>3 DEF ReuseSession, Goto
  <2>4. OrdinaryRecords
    BY <1>11 DEF ReuseSession, OrdinaryRecords
  <2>5. QED
    BY <2>1, <2>2, <2>3, <2>4, <1>q DEF Ordinary
<1>12. ASSUME NEW r \in Requests, ReuseRecord(r) PROVE Ordinary
  <2>1. OnlyRevokes
    BY <1>12 DEF ReuseRecord, OnlyRevokes
  <2>2. OrdinaryMove(r)
    <3>1. req[r].tok \in Tokens /\ token[req[r].tok].state # "none"
      BY <1>12 DEF ReuseRecord, RequestInv, RowsInv, HoldsToken
    <3>2. usedAt'[req[r].tok] # NoUse
      BY <1>12, <3>1, TimeAssumption DEF ReuseRecord, TypeOK, NoUse
    <3>3. req'[r] = [req[r] EXCEPT !.pc = "reuseLog"] /\ session' = session
      BY <1>12 DEF ReuseRecord, Goto, TypeOK
    <3>4. QED
      BY <1>12, <3>1, <3>2, <3>3 DEF ReuseRecord, OrdinaryMove, RequestInv, RequestRow,
             HoldsToken, Rotating
  <2>3. ASSUME NEW q \in Requests, q # r PROVE req'[q] = req[q]
    BY <1>12, <2>3 DEF ReuseRecord, Goto
  <2>4. OrdinaryRecords
    BY <1>12 DEF ReuseRecord, OrdinaryRecords, RequestInv, RowsInv, HoldsToken
  <2>5. QED
    BY <2>1, <2>2, <2>3, <2>4, <1>q DEF Ordinary
<1>13. ASSUME NEW r \in Requests, ReuseLog(r) PROVE Ordinary
  <2>1. OnlyRevokes
    BY <1>13 DEF ReuseLog, OnlyRevokes
  <2>2. OrdinaryMove(r)
    BY <1>13 DEF ReuseLog, Finish, OrdinaryMove, RequestInv, RequestRow,
             HoldsToken, Rotating, Idle
  <2>3. ASSUME NEW q \in Requests, q # r PROVE req'[q] = req[q]
    BY <1>13, <2>3 DEF ReuseLog, Finish
  <2>4. OrdinaryRecords
    BY <1>13 DEF ReuseLog, OrdinaryRecords
  <2>5. QED
    BY <2>1, <2>2, <2>3, <2>4, <1>q DEF Ordinary
<1>14. ASSUME NEW r \in Requests, MarkExpired(r) PROVE Ordinary
  <2>1. OnlyRevokes
    BY <1>14, RevokeSessionsRows DEF MarkExpired, OnlyRevokes
  <2>2. OrdinaryMove(r)
    BY <1>14 DEF MarkExpired, Finish, OrdinaryMove, RequestInv, RequestRow,
             HoldsToken, Rotating, Idle
  <2>3. ASSUME NEW q \in Requests, q # r PROVE req'[q] = req[q]
    BY <1>14, <2>3 DEF MarkExpired, Finish
  <2>4. OrdinaryRecords
    BY <1>14 DEF MarkExpired, OrdinaryRecords
  <2>5. QED
    BY <2>1, <2>2, <2>3, <2>4, <1>q DEF Ordinary
<1>15. ASSUME NEW r \in Requests, LogoutLoad(r) PROVE Ordinary
  <2>1. OnlyRevokes
    BY <1>15 DEF LogoutLoad, OnlyRevokes
  <2>2. OrdinaryMove(r)
    BY <1>15 DEF LogoutLoad, Goto, Finish, OrdinaryMove, RequestInv, RequestRow,
             HoldsToken, Rotating, Idle
  <2>3. ASSUME NEW q \in Requests, q # r PROVE req'[q] = req[q]
    BY <1>15, <2>3 DEF LogoutLoad, Goto, Finish
  <2>4. OrdinaryRecords
    BY <1>15 DEF LogoutLoad, OrdinaryRecords
  <2>5. QED
    BY <2>1, <2>2, <2>3, <2>4, <1>q DEF Ordinary
<1>16. ASSUME NEW r \in Requests, LogoutSession(r) PROVE Ordinary
  <2>1. OnlyRevokes
    BY <1>16, RevokeSessionsRows DEF LogoutSession, OnlyRevokes
  <2>2. OrdinaryMove(r)
    BY <1>16 DEF LogoutSession, Goto, OrdinaryMove, RequestInv, RequestRow,
             HoldsToken, Rotating
  <2>3. ASSUME NEW q \in Requests, q # r PROVE req'[q] = req[q]
    BY <1>16, <2>3 DEF LogoutSession, Goto
  <2>4. OrdinaryRecords
    BY <1>16 DEF LogoutSession, OrdinaryRecords
  <2>5. QED
    BY <2>1, <2>2, <2>3, <2>4, <1>q DEF Ordinary
<1>17. ASSUME NEW r \in Requests, LogoutTokens(r) PROVE Ordinary
  <2>1. OnlyRevokes
    BY <1>17, RevokeTokensRows DEF LogoutTokens, OnlyRevokes
  <2>2. OrdinaryMove(r)
    BY <1>17 DEF LogoutTokens, Finish, OrdinaryMove, RequestInv, RequestRow,
             HoldsToken, Rotating, Idle
  <2>3. ASSUME NEW q \in Requests, q # r PROVE req'[q] = req[q]
    BY <1>17, <2>3 DEF LogoutTokens, Finish
  <2>4. OrdinaryRecords
    BY <1>17 DEF LogoutTokens, OrdinaryRecords
  <2>5. QED
    BY <2>1, <2>2, <2>3, <2>4, <1>q DEF Ordinary
<1>18. ASSUME NEW r \in Requests, RevokeAllLoad(r) PROVE Ordinary
  <2>1. OnlyRevokes
    BY <1>18 DEF RevokeAllLoad, OnlyRevokes
  <2>2. OrdinaryMove(r)
    BY <1>18 DEF RevokeAllLoad, RequestRow, OrdinaryMove, RequestInv,
       RequestRow,
             HoldsToken, Rotating
  <2>3. ASSUME NEW q \in Requests, q # r PROVE req'[q] = req[q]
    BY <1>18, <2>3 DEF RevokeAllLoad, RequestRow
  <2>4. OrdinaryRecords
    BY <1>18 DEF RevokeAllLoad, OrdinaryRecords
  <2>5. QED
    BY <2>1, <2>2, <2>3, <2>4, <1>q DEF Ordinary
<1>19. ASSUME NEW r \in Requests, RevokeAllCommit(r) PROVE Ordinary
  <2>1. OnlyRevokes
    BY <1>19, RevokeSessionsRows, RevokeTokensRows DEF RevokeAllCommit,
       OnlyRevokes
  <2>2. OrdinaryMove(r)
    BY <1>19 DEF RevokeAllCommit, Finish, OrdinaryMove, RequestInv, RequestRow,
             HoldsToken, Rotating, Idle
  <2>3. ASSUME NEW q \in Requests, q # r PROVE req'[q] = req[q]
    BY <1>19, <2>3 DEF RevokeAllCommit, Finish
  <2>4. OrdinaryRecords
    BY <1>19 DEF RevokeAllCommit, OrdinaryRecords
  <2>5. QED
    BY <2>1, <2>2, <2>3, <2>4, <1>q DEF Ordinary
<1>20. ASSUME NEW r \in Requests, Abort(r) PROVE Ordinary
  <2>1. OnlyRevokes
    BY <1>20 DEF Abort, OnlyRevokes
  <2>2. OrdinaryMove(r)
    BY <1>20 DEF Abort, Finish, OrdinaryMove, RequestInv, RequestRow,
             HoldsToken, Rotating, Idle
  <2>3. ASSUME NEW q \in Requests, q # r PROVE req'[q] = req[q]
    BY <1>20, <2>3 DEF Abort, Finish
  <2>4. OrdinaryRecords
    BY <1>20 DEF Abort, OrdinaryRecords
  <2>5. QED
    BY <2>1, <2>2, <2>3, <2>4, <1>q DEF Ordinary
<1>21. CASE PruneSessions
  BY <1>21, <1>q, RevokeSessionsRows DEF PruneSessions, Ordinary,
     OnlyRevokes, OrdinaryRecords
<1>26. CASE SuspendTenant
  BY <1>26, <1>q, RevokeSessionsRows
  DEF SuspendTenant, Ordinary, OnlyRevokes, OrdinaryRecords
<1>22. CASE PurgeUsed
  BY <1>22, <1>q DEF PurgeUsed, Ordinary, OnlyRevokes, OrdinaryRecords,
     Forgettable
<1>23. CASE Tick
  BY <1>23, <1>q DEF Tick, Ordinary, OnlyRevokes, OrdinaryRecords
<1>24. CASE UNCHANGED vars
  BY <1>24, <1>q DEF vars, Ordinary, OnlyRevokes, OrdinaryRecords
<1>25. QED
  BY <1>1, <1>2, <1>3, <1>4, <1>5, <1>6, <1>7, <1>8, <1>9, <1>10, <1>11,
     <1>12, <1>13, <1>14, <1>15, <1>16, <1>17, <1>18, <1>19, <1>20, <1>21,
     <1>22, <1>23, <1>24, <1>26 DEF OrdinaryStep

(* An ordinary step keeps rows, requests, rotation and bindings in order. *)
LEMMA OrdinaryPreserves ==
  ASSUME TypeOK, TypeOK', CoreInv, Ordinary
  PROVE  CoreInv'
<1> USE DEF CoreInv, Ordinary
<1>1. RowsInv'
  BY DEF RowsInv, OnlyRevokes
<1>2. RequestInv'
  <2>1. issued \subseteq Tokens /\ issued' = issued
    BY DEF OnlyRevokes, TypeOK
  <2>2. ASSUME NEW r \in Requests PROVE RequestInv!(r)'
    BY <2>1 DEF RequestInv, OnlyRevokes, OrdinaryMove, Rotating, HoldsToken
  <2>3. QED
    BY <2>2 DEF RequestInv
<1>3. RotationInv'
  BY DEF RotationInv, OnlyRevokes, OrdinaryMove, Rotating, Live
<1>4. ParentsInv'
  BY DEF ParentsInv, OnlyRevokes
<1>5. OneHeirPerToken'
  BY DEF OneHeirPerToken, OnlyRevokes
<1>6. OneLiveTokenPerSession'
  BY DEF OneLiveTokenPerSession, OnlyRevokes, Live
<1>7. BindingInv'
  <2>1. \A t \in issued : t \in Tokens /\ token[t].sess \in Sessions
    BY DEF RowsInv, TypeOK
  <2>2. \A t \in issued' :
          Live(t)' => /\ session'[token'[t].sess].current = t
                      /\ session'[token'[t].sess].expires = token'[t].expires
    BY <2>1 DEF BindingInv, OnlyRevokes, Live
  <2>3. \A r \in Requests :
          req'[r].pc \in {"bind", "reply"} =>
            /\ req'[r].pc = req[r].pc
            /\ req'[r].sess = req[r].sess /\ req'[r].sess \in Sessions
            /\ req'[r].child = req[r].child /\ req'[r].child \in Tokens
    BY DEF OrdinaryMove, RequestInv, Rotating
  <2>4. QED
    BY <2>2, <2>3 DEF BindingInv, OnlyRevokes
<1>8. QED
  BY <1>1, <1>2, <1>3, <1>4, <1>5, <1>6, <1>7

-----------------------------------------------------------------------------
(* The actions that make a token, bind it or hand it out, one lemma each.   *)

(* A new session has no token yet and no request but its own. *)
LEMMA LoginSessionPreserves ==
  ASSUME TypeOK, TypeOK', CoreInv, NEW r \in Requests, LoginSession(r)
  PROVE  CoreInv'
<1> USE DEF CoreInv
<1>1. PICK s \in Sessions : /\ session[s].state = "none"
                            /\ session' = [session EXCEPT ![s] =
                                 [state |-> "active", expires |-> NewExpiry,
                                  current |-> NoToken]]
                            /\ Start(r, "login", s, NoToken)
  BY DEF LoginSession
<1>2. /\ session'[s].state = "active"
      /\ \A o \in Sessions : o # s => session'[o] = session[o]
      /\ token' = token /\ issued' = issued
  BY <1>1 DEF LoginSession, TypeOK
<1>3. /\ req'[r].pc = "login" /\ req'[r].sess = s
      /\ \A q \in Requests : q # r => req'[q] = req[q]
  BY <1>1 DEF Start, TypeOK
\* Nothing knows of a session that is not there yet.
<1>4. /\ \A t \in Tokens : token[t].sess # s
      /\ \A q \in Requests : req[q].pc # "idle" => req[q].sess # s
  <2>1. \A t \in Tokens : token[t].state # "none" => token[t].sess # s
    BY <1>1 DEF RowsInv
  <2>2. \A t \in Tokens : token[t].state = "none" => token[t].sess # s
    BY NullAssumption DEF RowsInv
  <2>3. QED
    BY <1>1, <2>1, <2>2 DEF RequestInv
<1>5. RowsInv'
  BY <1>2, <1>4 DEF RowsInv
<1>6. RequestInv'
  BY <1>2, <1>3, <1>4 DEF RequestInv, HoldsToken
<1>7. RotationInv'
  BY <1>2, <1>3, <1>4 DEF RotationInv, Rotating, Live
<1>8. ParentsInv' /\ OneHeirPerToken' /\ OneLiveTokenPerSession'
  BY <1>2 DEF ParentsInv, OneHeirPerToken, OneLiveTokenPerSession, Live
<1>9. BindingInv'
  <2>1. \A t \in issued : t \in Tokens /\ token[t].sess \in Sessions
    BY DEF RowsInv, TypeOK
  <2>2. \A q \in Requests : req'[q].pc \in {"bind", "reply"} =>
          q # r /\ req[q].sess # s /\ req[q].sess \in Sessions
    BY <1>3, <1>4 DEF RequestInv
  <2>3. QED
    BY <1>2, <1>3, <1>4, <2>1, <2>2 DEF BindingInv, Live
<1>10. QED
  BY <1>5, <1>6, <1>7, <1>8, <1>9

\* A token made by a request that rotates is the first live one of its session.
LEMMA MintingPreserves ==
  ASSUME TypeOK, TypeOK', CoreInv, NEW r \in Requests,
         NEW t \in Tokens, NEW f \in Tokens, NEW p \in Tokens \cup {NoToken},
         NEW e \in Time, NEW pc \in {"bind", "rotate"},
         req[r].pc \in {"login", "mint"},
         CreateToken(t, req[r].sess, f, p, e), Minted(r, pc, t),
         f = t \/ (token[f].state # "none" /\ token[f].sess = req[r].sess),
         p # NoToken => req[r].pc = "mint" /\ p = req[r].tok,
         pc = "rotate" => req[r].pc = "mint",
         pc = "bind" => session[req[r].sess].expires = e,
         UNCHANGED <<session, issued>>
  PROVE  CoreInv'
<1> USE DEF CoreInv
<1>1. /\ token[t].state = "none"
      /\ token'[t] = [state |-> "live", sess |-> req[r].sess, family |-> f,
                      parent |-> p, expires |-> e]
      /\ \A u \in Tokens : u # t => token'[u] = token[u]
  BY DEF CreateToken, TypeOK
<1>2. /\ req'[r].pc = pc /\ req'[r].child = t
      /\ req'[r].sess = req[r].sess /\ req'[r].tok = req[r].tok
      /\ \A q \in Requests : q # r => req'[q] = req[q]
  BY DEF Minted, TypeOK, RequestRow
<1>3. /\ req[r].sess \in Sessions /\ session[req[r].sess].state # "none"
      /\ req[r].pc = "mint" => /\ req[r].tok \in issued
                               /\ token[req[r].tok].state = "revoked"
      /\ \A u \in Tokens : token[u].sess = req[r].sess => ~Live(u)
      /\ t \notin issued /\ issued \subseteq Tokens
  BY <1>1 DEF RequestInv, RotationInv, RowsInv, HoldsToken, TypeOK
<1>4. RowsInv'
  <2>1. \A u \in Tokens : token[u].state # "none" =>
          /\ u # t /\ token[u].family # t /\ token[u].sess \in Sessions
          /\ token'[u] = token[u] /\ token'[token[u].family] = token[token[u].family]
    BY <1>1 DEF RowsInv
  <2>2. token'[f].state # "none" /\ token'[f].sess = req[r].sess
    BY <1>1
  <2>3. QED
    BY <1>1, <1>3, <2>1, <2>2 DEF RowsInv
<1>5. RequestInv'
  <2>1. ASSUME NEW q \in Requests PROVE RequestInv!(q)'
    <3>1. CASE q = r
      BY <1>1, <1>2, <1>3, <3>1 DEF RequestInv, HoldsToken
    <3>2. CASE q # r
      <4>1. req[q].pc \in {"record", "mint"} =>
              /\ req[q].tok \in issued /\ req[q].tok # t
              /\ req[q].sess # req[r].sess
        BY <3>2, <1>3 DEF RequestInv, RotationInv, Rotating, HoldsToken
      <4>2. p # NoToken => p \in issued /\ token[p].sess = req[r].sess
        BY <1>3 DEF RequestInv
      <4>3. req[q].pc \in {"bind", "rotate", "reply"} => req[q].child # t
        BY <1>1 DEF RequestInv
      <4>4. req[q].pc \in {"record", "mint"} => p # req[q].tok
        BY <4>1, <4>2, NullAssumption, <1>3 DEF RequestInv
      <4>5. QED
        BY <1>1, <1>2, <3>2, <4>1, <4>3, <4>4, <1>3 DEF RequestInv
    <3>3. QED
      BY <3>1, <3>2
  <2>2. QED
    BY <2>1 DEF RequestInv
<1>6. RotationInv'
  <2>1. \A q, q2 \in Requests :
          (/\ req'[q].pc \in Rotating /\ req'[q2].pc \in Rotating
           /\ req'[q].sess = req'[q2].sess) => q = q2
    BY <1>2 DEF RotationInv, Rotating
  <2>2. \A q \in Requests : q # r /\ req[q].pc \in Rotating
                              => req[q].sess # req[r].sess
    BY DEF RotationInv, Rotating
  <2>3. QED
    BY <1>1, <1>2, <1>3, <2>1, <2>2 DEF RotationInv, Live, Rotating
<1>7. ParentsInv'
  BY <1>1, <1>3 DEF ParentsInv
<1>8. OneHeirPerToken'
  BY <1>1, NullAssumption DEF OneHeirPerToken, RequestInv
<1>9. OneLiveTokenPerSession'
  BY <1>1, <1>3 DEF OneLiveTokenPerSession, Live
<1>10. BindingInv'
  <2>1. \A q \in Requests : req[q].pc \in {"bind", "reply"} /\ q # r =>
          req[q].child \in Tokens /\ req[q].child # t
    BY <1>1 DEF RequestInv
  <2>2. QED
    BY <1>1, <1>2, <1>3, <2>1 DEF BindingInv, Live
<1>11. QED
  BY <1>4, <1>5, <1>6, <1>7, <1>8, <1>9, <1>10

(* The first token of a login is a minting. *)
LEMMA LoginTokenPreserves ==
  ASSUME TypeOK, TypeOK', CoreInv, NEW r \in Requests, LoginToken(r)
  PROVE  CoreInv'
<1>1. PICK t \in Tokens : /\ CreateToken(t, req[r].sess, t, NoToken,
                                        session[req[r].sess].expires)
                          /\ Minted(r, "bind", t)
  BY DEF LoginToken
<1>2. req[r].pc = "login" /\ UNCHANGED <<session, issued>>
  BY DEF LoginToken
<1>3. session[req[r].sess].expires \in Time
  BY <1>2 DEF CoreInv, RequestInv, TypeOK, SessionRow
<1>4. QED
  BY <1>1, <1>2, <1>3, MintingPreserves

(* The heir of a claimed token is a minting. *)
LEMMA RefreshMintPreserves ==
  ASSUME TypeOK, TypeOK', CoreInv, NEW r \in Requests, RefreshMint(r)
  PROVE  CoreInv'
<1>1. PICK t \in Tokens :
        /\ CreateToken(t, req[r].sess, token[req[r].tok].family, req[r].tok,
                       NewExpiry)
        /\ Minted(r, "rotate", t)
  BY DEF RefreshMint
<1>2. req[r].pc = "mint" /\ UNCHANGED <<session, issued>>
  BY DEF RefreshMint
<1>3. NewExpiry \in Time
  BY TimeAssumption DEF NewExpiry, Time, TypeOK
<1>4. /\ req[r].tok \in Tokens
      /\ token[req[r].tok].family \in Tokens
      /\ token[token[req[r].tok].family].state # "none"
      /\ token[token[req[r].tok].family].sess = req[r].sess
  BY <1>2 DEF CoreInv, RequestInv, RowsInv, HoldsToken
<1>5. QED
  BY <1>1, <1>2, <1>3, <1>4, MintingPreserves

\* Binding a token: the live tokens of its session are that token at most, and
\* it has not been handed out.
LEMMA BindingPreserves ==
  ASSUME TypeOK, TypeOK', CoreInv, NEW r \in Requests,
         req[r].pc \in {"bind", "rotate"}, NEW e \in Time,
         e = token[req[r].child].expires,
         BindSession(req[r].sess, req[r].child, e), Goto(r, "reply"),
         UNCHANGED <<token, issued>>
  PROVE  CoreInv'
<1> USE DEF CoreInv
<1>1. /\ req[r].sess \in Sessions /\ req[r].child \in Tokens
      /\ req[r].child \notin issued
      /\ \A t \in Tokens : token[t].sess = req[r].sess /\ Live(t)
                             => t = req[r].child
  BY DEF RequestInv, RotationInv
<1>2. /\ session'[req[r].sess].current = req[r].child
      /\ session'[req[r].sess].expires = e
      /\ \A s \in Sessions : session'[s].state = session[s].state
      /\ \A s \in Sessions : s # req[r].sess => session'[s] = session[s]
  BY <1>1 DEF BindSession, TypeOK, SessionRow
<1>3. /\ req'[r].pc = "reply" /\ req'[r].child = req[r].child
      /\ req'[r].sess = req[r].sess /\ req'[r].tok = req[r].tok
      /\ \A q \in Requests : q # r => req'[q] = req[q]
  BY DEF Goto, TypeOK, RequestRow
<1>4. RowsInv'
  BY <1>2 DEF RowsInv
<1>5. RequestInv'
  <2>1. ASSUME NEW q \in Requests PROVE RequestInv!(q)'
    <3>1. CASE q = r
      BY <1>1, <1>2, <1>3, <3>1 DEF RequestInv, HoldsToken
    <3>2. CASE q # r
      BY <1>2, <1>3, <3>2 DEF RequestInv
    <3>3. QED
      BY <3>1, <3>2
  <2>2. QED
    BY <2>1 DEF RequestInv
<1>6. RotationInv'
  BY <1>1, <1>3 DEF RotationInv, Rotating, Live
<1>7. ParentsInv' /\ OneHeirPerToken' /\ OneLiveTokenPerSession'
  BY DEF ParentsInv, OneHeirPerToken, OneLiveTokenPerSession, Live
<1>8. BindingInv'
  <2>1. \A t \in issued : Live(t) => /\ token[t].sess \in Sessions
                                     /\ token[t].sess # req[r].sess
    BY <1>1 DEF RowsInv, TypeOK, Live
  <2>2. \A q \in Requests : q # r /\ req[q].pc \in {"bind", "reply"} =>
          req[q].sess \in Sessions /\ req[q].sess # req[r].sess
    BY DEF RequestInv, RotationInv, Rotating
  <2>3. QED
    BY <1>1, <1>2, <1>3, <2>1, <2>2 DEF BindingInv, Live
<1>9. QED
  BY <1>4, <1>5, <1>6, <1>7, <1>8

(* The binding of a login keeps the expiry the session was created with. *)
LEMMA LoginBindPreserves ==
  ASSUME TypeOK, TypeOK', CoreInv, NEW r \in Requests, LoginBind(r)
  PROVE  CoreInv'
<1>1. /\ req[r].pc = "bind" /\ Goto(r, "reply") /\ UNCHANGED <<token, issued>>
      /\ BindSession(req[r].sess, req[r].child, session[req[r].sess].expires)
  BY DEF LoginBind
<1>2. /\ session[req[r].sess].expires = token[req[r].child].expires
      /\ session[req[r].sess].expires \in Time
  BY <1>1 DEF CoreInv, BindingInv, RequestInv, TypeOK, SessionRow
<1>3. QED
  BY <1>1, <1>2, BindingPreserves

(* The rotation binds the heir with the heir's own expiry. *)
LEMMA RefreshRotatePreserves ==
  ASSUME TypeOK, TypeOK', CoreInv, NEW r \in Requests, RefreshRotate(r)
  PROVE  CoreInv'
<1>1. /\ req[r].pc = "rotate" /\ Goto(r, "reply") /\ UNCHANGED <<token, issued>>
      /\ BindSession(req[r].sess, req[r].child, token[req[r].child].expires)
  BY DEF RefreshRotate
<1>2. token[req[r].child].expires \in Time
  BY <1>1 DEF CoreInv, RequestInv, TypeOK, TokenRow
<1>3. QED
  BY <1>1, <1>2, BindingPreserves

(* A token handed out is the one its session is bound to, or is dead. *)
LEMMA ReplyPreserves ==
  ASSUME TypeOK, TypeOK', CoreInv, NEW r \in Requests, Reply(r)
  PROVE  CoreInv'
<1> USE DEF CoreInv
<1>1. /\ issued' = issued \cup {req[r].child}
      /\ session' = session /\ token' = token
      /\ req[r].pc = "reply" /\ req'[r] = Idle
      /\ \A q \in Requests : q # r => req'[q] = req[q]
  BY DEF Reply, Finish, TypeOK
<1>2. /\ req[r].child \in Tokens /\ token[req[r].child].state # "none"
      /\ token[req[r].child].sess = req[r].sess
      /\ session[req[r].sess].current = req[r].child
      /\ session[req[r].sess].expires = token[req[r].child].expires
  BY <1>1 DEF RequestInv, BindingInv
<1>3. RowsInv'
  BY <1>1, <1>2 DEF RowsInv
<1>4. RequestInv'
  <2>1. \A q \in Requests :
          q # r /\ req[q].pc \in {"bind", "rotate", "reply"} =>
            req[q].child # req[r].child
    BY <1>1, <1>2 DEF RequestInv, RotationInv, Rotating
  <2>2. ASSUME NEW q \in Requests PROVE RequestInv!(q)'
    <3>1. CASE q = r
      BY <1>1, <3>1 DEF RequestInv, HoldsToken, Idle
    <3>2. CASE q # r
      BY <1>1, <3>2, <2>1 DEF RequestInv
    <3>3. QED
      BY <3>1, <3>2
  <2>3. QED
    BY <2>2 DEF RequestInv
<1>5. RotationInv'
  BY <1>1 DEF RotationInv, Rotating, Live, Idle
<1>6. ParentsInv' /\ OneHeirPerToken' /\ OneLiveTokenPerSession'
  BY <1>1 DEF ParentsInv, OneHeirPerToken, OneLiveTokenPerSession, Live
<1>7. BindingInv'
  BY <1>1, <1>2 DEF BindingInv, Idle, Live
<1>8. QED
  BY <1>3, <1>4, <1>5, <1>6, <1>7

\* The claim: a live token that a client presents tells that no other request
\* is rotating the session, and claiming it leaves the session without one.
LEMMA RefreshClaimPreserves ==
  ASSUME TypeOK, TypeOK', CoreInv, NEW r \in Requests, RefreshClaim(r)
  PROVE  CoreInv'
<1> USE DEF CoreInv
<1>1. /\ req[r].pc = "claim" /\ req[r].tok \in issued /\ req[r].tok \in Tokens
      /\ req[r].sess \in Sessions /\ session[req[r].sess].state # "none"
      /\ session' = session /\ issued' = issued
  BY DEF RefreshClaim, RequestInv, HoldsToken, TypeOK
<1>2. CASE ~Claimable(r, req[r].tok)
  <2>1. /\ token' = token /\ req'[r] = [req[r] EXCEPT !.pc = "miss"]
        /\ \A q \in Requests : q # r => req'[q] = req[q]
    BY <1>2 DEF RefreshClaim, Goto, TypeOK
  <2>2. /\ req'[r].pc = "miss" /\ req'[r].sess = req[r].sess
        /\ req'[r].tok = req[r].tok
    BY <2>1 DEF TypeOK, RequestRow
  <2>3. OnlyRevokes /\ OrdinaryRecords /\ \A q \in Requests : OrdinaryMove(q)
    <3>1. OnlyRevokes /\ OrdinaryRecords
      BY <1>1, <2>1 DEF RefreshClaim, OrdinaryRecords, OnlyRevokes, TypeOK
    <3>2. \A q \in Requests : OrdinaryMove(q)
      BY <1>1, <2>1, <2>2 DEF OrdinaryMove, RequestInv, Rotating, HoldsToken
    <3>3. QED
      BY <3>1, <3>2
  <2>4. QED
    BY <2>3, OrdinaryPreserves DEF Ordinary
<1>3. CASE Claimable(r, req[r].tok)
  <2>1. /\ RevokeTokens({req[r].tok}) /\ Goto(r, "record")
        /\ Live(req[r].tok) /\ token[req[r].tok].sess = req[r].sess
    BY <1>3 DEF RefreshClaim, Claimable
  <2>2. /\ token'[req[r].tok].state = "revoked"
        /\ \A t \in Tokens : t # req[r].tok => token'[t] = token[t]
    BY <2>1, <1>1 DEF RevokeTokens, Live, TypeOK, TokenRow
  <2>3. OnlyRevokes
    BY <2>1, <1>1, RevokeTokensRows DEF OnlyRevokes, TypeOK
  <2>4. /\ req'[r].pc = "record" /\ req'[r].sess = req[r].sess
        /\ req'[r].tok = req[r].tok
        /\ \A q \in Requests : q # r => req'[q] = req[q]
    BY <2>1 DEF Goto, TypeOK, RequestRow
  <2>5. \A q \in Requests : req[q].pc \in Rotating
                              => req[q].sess # req[r].sess
    BY <1>1, <2>1 DEF RotationInv, RequestInv, Rotating
  <2>6. \A t \in Tokens : token[t].sess = req[r].sess => ~Live(t)'
    BY <2>1, <2>2, <1>1 DEF OneLiveTokenPerSession, Live
  <2>7. RowsInv'
    BY <1>1, <2>3 DEF RowsInv, OnlyRevokes
  <2>8. RequestInv'
    <3>1. ASSUME NEW q \in Requests PROVE RequestInv!(q)'
      <4>1. CASE q = r
        BY <1>1, <2>1, <2>2, <2>3, <2>4, <4>1, NullAssumption
        DEF RequestInv, ParentsInv, OnlyRevokes, Live, HoldsToken
      <4>2. CASE q # r
        BY <1>1, <2>2, <2>3, <2>4, <4>2
        DEF RequestInv, OnlyRevokes, HoldsToken, TypeOK
      <4>3. QED
        BY <4>1, <4>2
    <3>2. QED
      BY <3>1 DEF RequestInv
  <2>9. RotationInv'
    <3>1. \A t \in Tokens : token'[t].sess = token[t].sess
                            /\ (Live(t)' => Live(t))
      BY <2>3 DEF OnlyRevokes, Live
    <3>2. \A q, q2 \in Requests :
            (/\ req'[q].pc \in Rotating /\ req'[q2].pc \in Rotating
             /\ req'[q].sess = req'[q2].sess) => q = q2
      BY <2>4, <2>5 DEF RotationInv
    <3>3. QED
      BY <2>4, <2>6, <3>1, <3>2 DEF RotationInv
  <2>10. ParentsInv' /\ OneHeirPerToken' /\ OneLiveTokenPerSession'
    BY <2>3
    DEF OnlyRevokes, ParentsInv, OneHeirPerToken, OneLiveTokenPerSession, Live
  <2>11. BindingInv'
    <3>1. \A q \in Requests : req'[q].pc \in {"bind", "reply"} =>
            q # r /\ req[q].child \in Tokens
      BY <2>4 DEF RequestInv
    <3>2. \A t \in issued : t \in Tokens
      BY DEF TypeOK
    <3>3. QED
      BY <1>1, <2>3, <2>4, <3>1, <3>2 DEF BindingInv, OnlyRevokes, Live
  <2>12. QED
    BY <2>7, <2>8, <2>9, <2>10, <2>11
<1>4. QED
  BY <1>2, <1>3

-----------------------------------------------------------------------------
(* Reuse handling and the record of uses *)

AuditInv == ReuseInv /\ UseInv

(* An ordinary step keeps the reuse events and the record of uses true. *)
LEMMA OrdinaryAudit ==
  ASSUME TypeOK, TypeOK', CoreInv, AuditInv, Ordinary
  PROVE  AuditInv'
<1> USE TimeAssumption DEF CoreInv, AuditInv, Ordinary
<1>t. /\ issued \subseteq Tokens /\ reuseLogged \subseteq Tokens
      /\ now \in Nat /\ now' \in Nat
      /\ \A t \in Tokens : token[t].expires \in Nat
      /\ \A s \in Sessions : session[s].expires \in Nat
      /\ usedAt \in [Tokens -> Nat \cup {NoUse}]
  BY DEF TypeOK, TokenRow, SessionRow, Time
<1>1. ReuseInv'
  <2>1. ASSUME NEW t \in Tokens, token[t].state # "none"
        PROVE  /\ token'[t].state # "none" /\ token'[t].sess = token[t].sess
               /\ session[token[t].sess].state = "revoked"
                    => session'[token[t].sess].state = "revoked"
    BY <2>1 DEF OnlyRevokes, RowsInv
  <2>2. ASSUME NEW r \in Requests, req'[r].pc \in {"reuseRecord", "reuseLog"}
        PROVE  session'[token'[req'[r].tok].sess].state = "revoked"
    <3>1. req'[r].tok \in Tokens /\ token[req'[r].tok].state # "none"
      BY <1>t, <2>2 DEF OrdinaryMove, HoldsToken, RowsInv
    <3>2. QED
      BY <2>1, <2>2, <3>1 DEF OrdinaryMove, ReuseInv
  <2>3. ASSUME NEW f \in reuseLogged'
        PROVE  token'[f].state # "none"
               /\ session'[token'[f].sess].state = "revoked"
    <3>1. CASE f \in reuseLogged
      BY <1>t, <2>1, <3>1 DEF ReuseInv
    <3>2. CASE \E r \in Requests : /\ req[r].pc = "reuseLog"
                                  /\ f = token[req[r].tok].family
      <4>1. PICK r \in Requests : /\ req[r].pc = "reuseLog"
                                  /\ f = token[req[r].tok].family
        BY <3>2
      <4>2. req[r].tok \in Tokens /\ token[req[r].tok].state # "none"
        BY <1>t, <4>1 DEF RequestInv, HoldsToken, RowsInv
      <4>3. /\ f \in Tokens /\ token[f].state # "none"
            /\ session[token[f].sess].state = "revoked"
        BY <4>1, <4>2 DEF RowsInv, ReuseInv
      <4>4. QED
        BY <4>3, <2>1
    <3>3. QED
      BY <3>1, <3>2 DEF OrdinaryRecords
  <2>4. QED
    BY <2>2, <2>3 DEF ReuseInv
<1>2. UseInv'
  <2>1. /\ \A t \in Tokens : token'[t].expires <= now' + TTL
        /\ \A s \in Sessions : session'[s].expires <= now' + TTL
    BY <1>t DEF UseInv, OnlyRevokes, OrdinaryRecords
  <2>2. ASSUME NEW t \in Tokens, usedAt'[t] # NoUse
        PROVE  /\ token'[t].state # "none"
               /\ token'[t].expires <= usedAt'[t] + TTL
    BY <1>t, <2>2 DEF UseInv, OnlyRevokes, OrdinaryRecords
  <2>3. ASSUME NEW t \in Tokens, token'[t].expires >= now',
               \/ \E c \in Tokens : token'[c].parent = t
               \/ \E r \in Requests :
                    req'[r].pc \in {"mint", "reuseLog"} /\ req'[r].tok = t
        PROVE  usedAt'[t] # NoUse
    <3>1. token[t].expires >= now
      BY <1>t, <2>3 DEF OnlyRevokes, OrdinaryRecords
    <3>2. \/ \E c \in Tokens : token[c].parent = t
          \/ \E r \in Requests :
               req[r].pc \in {"mint", "reuseLog"} /\ req[r].tok = t
          \/ usedAt'[t] # NoUse
      BY <2>3 DEF OnlyRevokes, OrdinaryMove, Rotating
    <3>3. CASE usedAt[t] # NoUse
      <4>1. token[t].expires <= usedAt[t] + TTL
        BY <3>3 DEF UseInv
      <4>2. ~(usedAt[t] < now - Retention)
        BY <1>t, <3>1, <3>3, <4>1
      <4>3. now # NoUse
        BY <1>t DEF NoUse
      <4>4. QED
        BY <3>3, <4>2, <4>3 DEF OrdinaryRecords
    <3>4. QED
      BY <3>1, <3>2, <3>3 DEF UseInv
  <2>4. QED
    BY <2>1, <2>2, <2>3 DEF UseInv
<1>3. QED
  BY <1>1, <1>2

\* The actions that make, bind, hand out or claim a token touch neither record.
LEMMA SpecialAudit ==
  ASSUME TypeOK, TypeOK', CoreInv, AuditInv, NEW r \in Requests,
         \/ LoginSession(r) \/ LoginToken(r) \/ LoginBind(r) \/ Reply(r)
         \/ RefreshClaim(r) \/ RefreshMint(r) \/ RefreshRotate(r)
  PROVE  AuditInv'
<1> USE TimeAssumption DEF CoreInv, AuditInv
<1>t. /\ issued \subseteq Tokens /\ reuseLogged \subseteq Tokens
      /\ now \in Nat
      /\ \A t \in Tokens : token[t].expires \in Nat
      /\ \A s \in Sessions : session[s].expires \in Nat
      /\ usedAt \in [Tokens -> Nat \cup {NoUse}]
  BY DEF TypeOK, TokenRow, SessionRow, Time
<1>1. UNCHANGED <<usedAt, reuseLogged, now>>
  BY DEF LoginSession, LoginToken, LoginBind, Reply, RefreshClaim, RefreshMint,
         RefreshRotate
\* What stays of the rows.
<1>2. /\ \A t \in Tokens : token[t].state # "none" =>
           /\ token'[t].state # "none" /\ token'[t].sess = token[t].sess
           /\ token'[t].parent = token[t].parent
           /\ token'[t].expires = token[t].expires
      /\ \A s \in Sessions : session[s].state = "revoked" =>
           session'[s].state = "revoked"
  <2>1. CASE LoginSession(r)
    BY <2>1 DEF LoginSession, TypeOK
  <2>2. CASE LoginToken(r)
    BY <2>2 DEF LoginToken, CreateToken, TypeOK
  <2>3. CASE LoginBind(r)
    BY <2>3 DEF LoginBind, BindSession, TypeOK, SessionRow
  <2>4. CASE Reply(r)
    BY <2>4 DEF Reply
  <2>5. CASE RefreshClaim(r)
    BY <2>5, RevokeTokensRows DEF RefreshClaim, TypeOK
  <2>6. CASE RefreshMint(r)
    BY <2>6 DEF RefreshMint, CreateToken, TypeOK
  <2>7. CASE RefreshRotate(r)
    BY <2>7 DEF RefreshRotate, BindSession, TypeOK, SessionRow
  <2>8. QED
    BY <2>1, <2>2, <2>3, <2>4, <2>5, <2>6, <2>7
<1>3. /\ \A t \in Tokens : token'[t].expires <= now + TTL
      /\ \A s \in Sessions : session'[s].expires <= now + TTL
  <2>1. CASE LoginSession(r)
    BY <2>1 DEF LoginSession, NewExpiry, UseInv, TypeOK
  <2>2. CASE LoginToken(r)
    BY <2>2 DEF LoginToken, CreateToken, UseInv, RequestInv, TypeOK
  <2>3. CASE LoginBind(r)
    BY <2>3 DEF LoginBind, BindSession, UseInv, RequestInv, TypeOK, SessionRow
  <2>4. CASE Reply(r)
    BY <2>4 DEF Reply, UseInv
  <2>5. CASE RefreshClaim(r)
    BY <2>5, RevokeTokensRows DEF RefreshClaim, UseInv, TypeOK
  <2>6. CASE RefreshMint(r)
    BY <2>6 DEF RefreshMint, CreateToken, NewExpiry, UseInv, TypeOK
  <2>7. CASE RefreshRotate(r)
    BY <2>7
    DEF RefreshRotate, BindSession, UseInv, RequestInv, TypeOK, SessionRow
  <2>8. QED
    BY <2>1, <2>2, <2>3, <2>4, <2>5, <2>6, <2>7
<1>4. \A q \in Requests :
        req'[q].pc \in {"reuseRecord", "reuseLog", "mint"} => req'[q] = req[q]
  BY DEF LoginSession, LoginToken, LoginBind, Reply, RefreshClaim, RefreshMint,
         RefreshRotate, Start, Minted, Goto, Finish, Idle, TypeOK, RequestRow
<1>5. \A t, c \in Tokens : token'[c].parent = t =>
        \/ token[c].parent = t
        \/ \E q \in Requests : req[q].pc = "mint" /\ req[q].tok = t
  <2>1. CASE LoginToken(r)
    BY <2>1, NullAssumption DEF LoginToken, CreateToken, TypeOK
  <2>2. CASE RefreshMint(r)
    BY <2>2 DEF RefreshMint, CreateToken, TypeOK
  <2>3. CASE RefreshClaim(r)
    BY <2>3, RevokeTokensRows DEF RefreshClaim, TypeOK
  <2>4. CASE LoginSession(r) \/ LoginBind(r) \/ Reply(r) \/ RefreshRotate(r)
    BY <2>4 DEF LoginSession, LoginBind, Reply, RefreshRotate
  <2>5. QED
    BY <2>1, <2>2, <2>3, <2>4
<1>6. ReuseInv'
  <2>1. \A q \in Requests : req[q].pc \in HoldsToken =>
          req[q].tok \in Tokens /\ token[req[q].tok].state # "none"
    BY <1>t DEF RequestInv, RowsInv
  <2>2. \A t \in Tokens : token[t].state # "none" => token[t].sess \in Sessions
    BY DEF RowsInv
  <2>3. QED
    BY <1>t, <1>1, <1>2, <1>4, <2>1, <2>2 DEF ReuseInv, HoldsToken
<1>7. UseInv'
  <2>1. ASSUME NEW t \in Tokens, token'[t].expires >= now',
               \/ \E c \in Tokens : token'[c].parent = t
               \/ \E q \in Requests :
                    req'[q].pc \in {"mint", "reuseLog"} /\ req'[q].tok = t
        PROVE  usedAt'[t] # NoUse
    <3>1. \/ \E c \in Tokens : token[c].parent = t
          \/ \E q \in Requests :
               req[q].pc \in {"mint", "reuseLog"} /\ req[q].tok = t
      BY <2>1, <1>4, <1>5
    <3>2. token[t].state # "none"
      BY <3>1, NullAssumption, <1>t
      DEF ParentsInv, RequestInv, HoldsToken, RowsInv
    <3>3. QED
      BY <1>1, <1>2, <2>1, <3>1, <3>2 DEF UseInv
  <2>2. QED
    BY <1>1, <1>2, <1>3, <2>1 DEF UseInv
<1>8. QED
  BY <1>6, <1>7

-----------------------------------------------------------------------------
(* The theorems *)

(* The invariant holds of the empty tables. *)
LEMMA InvInit == Init => IInv
<1> SUFFICES ASSUME Init PROVE IInv
  OBVIOUS
<1> USE DEF Init
<1>1. TypeOK
  BY TypeInit
<1>2. \A r \in Requests : req[r].pc = "idle"
  BY DEF Idle
<1>3. RowsInv /\ ParentsInv /\ OneHeirPerToken /\ OneLiveTokenPerSession
  BY DEF RowsInv, ParentsInv, OneHeirPerToken, OneLiveTokenPerSession, Live
<1>4. RequestInv /\ RotationInv /\ BindingInv /\ ReuseInv
  BY <1>2 DEF RequestInv, RotationInv, BindingInv, ReuseInv, HoldsToken,
     Rotating
<1>5. UseInv
  BY <1>2, TimeAssumption, NullAssumption DEF UseInv
<1>6. QED
  BY <1>1, <1>3, <1>4, <1>5 DEF IInv

\* Every step is an ordinary one or one of the seven of a token's life.
LEMMA StepCases ==
  ASSUME [Next]_vars
  PROVE  \/ \E r \in Requests :
              \/ OrdinaryStep(r)
              \/ LoginSession(r) \/ LoginToken(r) \/ LoginBind(r) \/ Reply(r)
              \/ RefreshClaim(r) \/ RefreshMint(r) \/ RefreshRotate(r)
         \/ PruneSessions \/ SuspendTenant \/ PurgeUsed \/ Tick \/ UNCHANGED vars
BY DEF Next, Begin, Continue, Clean, OrdinaryStep

(* The invariant is inductive. *)
LEMMA InvNext == IInv /\ [Next]_vars => IInv'
<1> SUFFICES ASSUME IInv, [Next]_vars PROVE IInv'
  OBVIOUS
<1>1. TypeOK /\ CoreInv /\ AuditInv
  BY DEF IInv, CoreInv, AuditInv
<1>2. TypeOK'
  BY <1>1, TypeNext DEF CoreInv
<1>3. CoreInv' /\ AuditInv'
  <2>1. CASE \/ \E r \in Requests : OrdinaryStep(r)
             \/ PruneSessions \/ SuspendTenant \/ PurgeUsed \/ Tick \/ UNCHANGED vars
    <3>1. Ordinary
      BY <1>1, <1>2, <2>1, OrdinarySteps DEF CoreInv
    <3>2. QED
      BY <1>1, <1>2, <3>1, OrdinaryPreserves, OrdinaryAudit
  <2>2. ASSUME NEW r \in Requests,
               \/ LoginSession(r) \/ LoginToken(r) \/ LoginBind(r) \/ Reply(r)
               \/ RefreshClaim(r) \/ RefreshMint(r) \/ RefreshRotate(r)
        PROVE  CoreInv' /\ AuditInv'
    BY <1>1, <1>2, <2>2, SpecialAudit, LoginSessionPreserves,
       LoginTokenPreserves, LoginBindPreserves, ReplyPreserves,
       RefreshClaimPreserves, RefreshMintPreserves, RefreshRotatePreserves
  <2>3. QED
    BY <2>1, <2>2, StepCases
<1>4. QED
  BY <1>2, <1>3 DEF IInv, CoreInv, AuditInv

(* The inductive invariant holds in every reachable state. *)
THEOREM Invariance == Spec => []IInv
BY InvInit, InvNext, PTL DEF Spec

(* Rows, requests and the clock keep their types: refreshTokens and the     *)
(* other handlers never leave a row half-typed, however they interleave.    *)
THEOREM TypeCorrect == Spec => []TypeOK
BY Invariance, PTL DEF IInv

(* Any number of concurrent refreshTokens calls exchange a token at most    *)
(* once between them.                                                       *)
THEOREM ExchangedOnce == Spec => []OneHeirPerToken
BY Invariance, PTL DEF IInv

(* verifyOtp and refreshTokens never give a session a second live token.    *)
THEOREM OneLiveToken == Spec => []OneLiveTokenPerSession
BY Invariance, PTL DEF IInv

(* What a client was handed and is still good is what its session is bound  *)
(* to: verifyOtp and refreshTokens answer with the binding they wrote.      *)
THEOREM IssuedMatches == Spec => []IssuedTokenMatchesSession
<1>1. IInv => IssuedTokenMatchesSession
  BY DEF IInv, BindingInv, IssuedTokenMatchesSession, Usable, Live
<1>2. QED
  BY <1>1, Invariance, PTL

(* After handleTokenReuse has logged the reuse, nothing of the family can   *)
(* be used, whatever a concurrent winner still mints.                       *)
THEOREM ReuseIsTheEnd == Spec => []ReuseEndsFamily
<1>1. IInv => ReuseEndsFamily
  BY DEF IInv, ReuseInv, RowsInv, ReuseEndsFamily, Family, Usable, Live, Active,
         TypeOK
<1>2. QED
  BY <1>1, Invariance, PTL

(* The cleaner's purge never forgets the use of a token that could still be *)
(* presented before it expires.                                             *)
THEOREM UsesAreKept == Spec => []UsedKeptWhileValid
<1>1. IInv => UsedKeptWhileValid
  BY DEF IInv, UseInv, UsedKeptWhileValid
<1>2. QED
  BY <1>1, Invariance, PTL

\* What no step takes from the tables.
Kept ==
  /\ \A t \in Tokens : token[t].state # "none" =>
       /\ token'[t].state # "none" /\ token'[t].sess = token[t].sess
       /\ token'[t].family = token[t].family
       /\ token'[t].parent = token[t].parent
       /\ token'[t].expires = token[t].expires
       /\ token[t].state = "revoked" => token'[t].state = "revoked"
  /\ \A s \in Sessions : session[s].state # "none" =>
       /\ session'[s].state # "none"
       /\ session[s].state = "revoked" => session'[s].state = "revoked"
  /\ issued \subseteq issued'
  /\ now <= now'

(* Rows stay, and what is revoked stays revoked, whatever the step. *)
LEMMA StepsKeep ==
  ASSUME IInv, IInv', [Next]_vars
  PROVE  Kept
<1>1. TypeOK /\ TypeOK' /\ RequestInv /\ RowsInv
  BY DEF IInv
<1>2. now <= now
  BY <1>1 DEF TypeOK
<1>3. CASE \/ \E r \in Requests : OrdinaryStep(r)
           \/ PruneSessions \/ SuspendTenant \/ PurgeUsed \/ Tick \/ UNCHANGED vars
  BY <1>1, <1>3, OrdinarySteps DEF Ordinary, OnlyRevokes, OrdinaryRecords, Kept
<1>4. ASSUME NEW r \in Requests, LoginSession(r) \/ Reply(r)
      PROVE  Kept
  BY <1>1, <1>2, <1>4 DEF LoginSession, Reply, TypeOK, Kept
<1>5. ASSUME NEW r \in Requests, LoginBind(r) \/ RefreshRotate(r)
      PROVE  Kept
  BY <1>1, <1>2, <1>5
  DEF LoginBind, RefreshRotate, BindSession, TypeOK, SessionRow, Kept
<1>6. ASSUME NEW r \in Requests, LoginToken(r) \/ RefreshMint(r)
      PROVE  Kept
  BY <1>1, <1>2, <1>6 DEF LoginToken, RefreshMint, CreateToken, TypeOK, Kept
<1>7. ASSUME NEW r \in Requests, RefreshClaim(r)
      PROVE  Kept
  BY <1>1, <1>2, <1>7, RevokeTokensRows DEF RefreshClaim, TypeOK, Kept
<1>8. QED
  BY <1>3, <1>4, <1>5, <1>6, <1>7, StepCases

(* No handler, whatever it read before, brings a revoked session or token   *)
(* back.                                                                    *)
THEOREM RevocationLasts == Spec => RevocationIsFinal
<1> DEFINE Final ==
      /\ \A s \in Sessions :
           session[s].state = "revoked" => session'[s].state = "revoked"
      /\ \A t \in Tokens :
           token[t].state = "revoked" => token'[t].state = "revoked"
<1>1. ASSUME IInv, IInv', [Next]_vars PROVE Final
  BY <1>1, StepsKeep DEF Kept
<1>2. QED
  BY <1>1, Invariance, PTL DEF Spec, RevocationIsFinal

-----------------------------------------------------------------------------
(* Which step brings a request to a place, and which table it leaves alone. *)

(* A request is moved by its own handler only. *)
LEMMA OwnMoves ==
  ASSUME TypeOK, [Next]_vars, NEW q \in Requests, req'[q] # req[q]
  PROVE  Begin(q) \/ Continue(q) \/ Abort(q)
<1>1. ASSUME NEW r \in Requests, r # q, Begin(r) \/ Continue(r) \/ Abort(r)
      PROVE  req'[q] = req[q]
  BY <1>1
  DEF TypeOK, Begin, Continue, Abort, LoginSession, RefreshGuard, AccessLoad,
      LogoutGuard, RevokeAllGuard, LoginToken, LoginBind, Reply, RefreshLoad,
      RefreshClaim, RefreshRecord, RefreshMint, RefreshRotate, RefreshMiss,
      StaleSession, StaleFamily, ReuseFamily, ReuseSession, ReuseRecord,
      ReuseLog, MarkExpired, LogoutLoad, LogoutSession, LogoutTokens,
      RevokeAllLoad, RevokeAllCommit, Start, Goto, Minted, Finish
<1>2. QED
  BY <1>1
  DEF Next, vars, SuspendTenant, Clean, PruneSessions, PurgeUsed, Tick

(* The place a request has come to tells the step it took. *)
LEMMA Arrival ==
  ASSUME TypeOK, NEW q \in Requests, Begin(q) \/ Continue(q) \/ Abort(q)
  PROVE  /\ req'[q].pc = "mark" => RefreshLoad(q) \/ AccessLoad(q) \/ LogoutLoad(q)
         /\ req'[q].pc = "login" => LoginSession(q)
         /\ req'[q].pc = "bind" => LoginToken(q)
         /\ req'[q].pc = "reply" => LoginBind(q) \/ RefreshRotate(q)
         /\ req'[q].pc = "claim" => RefreshLoad(q)
         /\ req'[q].pc \in {"miss", "record"} => RefreshClaim(q)
         /\ req'[q].pc = "mint" => RefreshRecord(q)
         /\ req'[q].pc = "rotate" => RefreshMint(q)
         /\ req'[q].pc \in {"staleSession", "reuseFamily"} => RefreshMiss(q)
         /\ req'[q].pc = "staleFamily" => StaleSession(q)
         /\ req'[q].pc = "reuseSession" => ReuseFamily(q)
         /\ req'[q].pc = "reuseRecord" => ReuseSession(q)
         /\ req'[q].pc = "reuseLog" => ReuseRecord(q)
         /\ req'[q].pc = "outTokens" => LogoutSession(q)
         /\ req'[q].pc = "allRevoke" => RevokeAllLoad(q)
BY DEF TypeOK, RequestRow, Begin, Continue, Abort, LoginSession, RefreshGuard,
   AccessLoad, LogoutGuard, RevokeAllGuard, LoginToken, LoginBind, Reply,
   RefreshLoad, RefreshClaim, RefreshRecord, RefreshMint, RefreshRotate,
   RefreshMiss, StaleSession, StaleFamily, ReuseFamily, ReuseSession,
   ReuseRecord, ReuseLog, MarkExpired, LogoutLoad, LogoutSession, LogoutTokens,
   RevokeAllLoad, RevokeAllCommit, Start, Goto, Minted, Finish, Idle

(* A use comes on record by the winner of its token or by a reuse handler. *)
LEMMA UsesRecorded ==
  ASSUME TypeOK, [Next]_vars, NEW t \in Tokens, usedAt[t] = NoUse, usedAt'[t] # NoUse
  PROVE  \E r \in Requests : /\ RefreshRecord(r) \/ ReuseRecord(r)
                             /\ req[r].tok = t
BY DEF TypeOK, Next, Begin, Continue, Abort, vars, SuspendTenant, Clean,
   PruneSessions, PurgeUsed, Tick, LoginSession, RefreshGuard, AccessLoad,
   LogoutGuard, RevokeAllGuard, LoginToken, LoginBind, Reply, RefreshLoad,
   RefreshClaim, RefreshRecord, RefreshMint, RefreshRotate, RefreshMiss,
   StaleSession, StaleFamily, ReuseFamily, ReuseSession, ReuseRecord, ReuseLog,
   MarkExpired, LogoutLoad, LogoutSession, LogoutTokens, RevokeAllLoad,
   RevokeAllCommit

-----------------------------------------------------------------------------
(* The record of uses and the winner of a token *)

(* Only the uses of revoked tokens are recorded, and the winner of a token is *)
(* the first to record its use unless a reuse handler ended the session.      *)
LEMMA RecordNext ==
  ASSUME IInv, IInv', RecordInv, [Next]_vars
  PROVE  RecordInv'
<1>k. Kept /\ TypeOK /\ RowsInv /\ RequestInv /\ RotationInv /\ ReuseInv
  BY StepsKeep DEF IInv
<1>u. issued \subseteq Tokens
  BY <1>k DEF TypeOK
<1>1. ASSUME NEW t \in Tokens, usedAt'[t] # NoUse
      PROVE  token'[t].state = "revoked"
  <2>1. CASE usedAt[t] # NoUse
    BY <1>k, <2>1 DEF RecordInv, Kept
  <2>2. ASSUME NEW r \in Requests, RefreshRecord(r) \/ ReuseRecord(r),
               req[r].tok = t
        PROVE  token[t].state = "revoked"
    BY <1>k, <2>2
    DEF RefreshRecord, ReuseRecord, RequestInv, RecordInv, Answering
  <2>3. CASE usedAt[t] = NoUse
    BY <1>k, <1>1, <2>2, <2>3, UsesRecorded DEF Kept
  <2>4. QED
    BY <2>1, <2>3
<1>2. ASSUME NEW r \in Requests, req'[r].pc \in Answering
      PROVE  token'[req'[r].tok].state = "revoked"
  <2>1. /\ req'[r].tok = req[r].tok /\ req[r].tok \in Tokens
        /\ token[req[r].tok].state = "revoked"
    <3>1. CASE req'[r] = req[r]
      BY <1>k, <1>u, <1>2, <3>1 DEF RecordInv, RequestInv, HoldsToken, Answering
    <3>2. CASE req'[r] # req[r]
      <4>1. \/ RefreshMiss(r) \/ ReuseFamily(r) \/ ReuseSession(r) \/ ReuseRecord(r)
        BY <1>k, <1>2, <3>2, OwnMoves, Arrival DEF Answering
      <4>2. req[r].pc \in {"miss", "reuseFamily", "reuseSession", "reuseRecord"}
        BY <4>1 DEF RefreshMiss, ReuseFamily, ReuseSession, ReuseRecord
      <4>3. /\ req'[r].tok = req[r].tok
            /\ req[r].pc = "miss" => token[req[r].tok].state = "revoked"
        BY <1>k, <1>2, <4>1
        DEF TypeOK, RequestRow, RefreshMiss, ReuseFamily, ReuseSession,
            ReuseRecord, Goto, Finish, Idle, Answering, Live
      <4>4. QED
        BY <1>k, <1>u, <4>2, <4>3
        DEF RecordInv, RequestInv, HoldsToken, Answering
    <3>3. QED
      BY <3>1, <3>2
  <2>2. QED
    BY <1>k, <2>1 DEF Kept
<1>3. ASSUME NEW r \in Requests, req'[r].pc = "record",
             usedAt'[req'[r].tok] # NoUse
      PROVE  ~Active(req[r].sess)'
  <2>1. CASE req'[r] # req[r]
    \* It has just claimed the token, so the token was live and not on record.
    <3>1. /\ RefreshClaim(r) /\ req[r].pc = "claim"
          /\ req'[r].tok = req[r].tok /\ Live(req[r].tok) /\ usedAt' = usedAt
      BY <1>k, <1>3, <2>1, OwnMoves, Arrival
      DEF RefreshClaim, Goto, TypeOK, RequestRow, Claimable
    <3>2. req[r].tok \in Tokens
      BY <1>k, <1>u, <3>1 DEF RequestInv, HoldsToken
    <3>3. QED
      BY <1>3, <3>1, <3>2 DEF RecordInv, Live
  <2>2. CASE req'[r] = req[r]
    <3>1. /\ req[r].tok \in Tokens /\ req[r].sess \in Sessions
          /\ session[req[r].sess].state # "none"
          /\ token[req[r].tok].sess = req[r].sess
      BY <1>k, <1>u, <1>3, <2>2 DEF RequestInv, HoldsToken
    <3>2. CASE usedAt[req[r].tok] # NoUse
      <4>1. session[req[r].sess].state = "revoked"
        BY <1>k, <1>3, <2>2, <3>1, <3>2
        DEF RecordInv, WinnerLosesOnlyRevoked, Active, TypeOK, SessionRow
      <4>2. QED
        BY <1>k, <2>2, <3>1, <4>1 DEF Kept, Active
    <3>3. CASE usedAt[req[r].tok] = NoUse
      <4>1. PICK q \in Requests : /\ RefreshRecord(q) \/ ReuseRecord(q)
                                  /\ req[q].tok = req[r].tok
        BY <1>k, <1>3, <2>2, <3>1, <3>3, UsesRecorded
      \* The other winner of the same token would be this one.
      <4>2. CASE RefreshRecord(q)
        <5>1. req[q].pc = "record" /\ req[q].sess = req[r].sess /\ req'[q] # req[q]
          BY <1>k, <3>1, <4>1, <4>2
          DEF RefreshRecord, RequestInv, Goto, Finish, Idle, TypeOK, RequestRow
        <5>2. q = r
          BY <1>k, <1>3, <2>2, <5>1 DEF RotationInv, Rotating
        <5>3. QED
          BY <2>2, <5>1, <5>2
      <4>3. CASE ReuseRecord(q)
        <5>1. session[req[r].sess].state = "revoked"
          BY <1>k, <3>1, <4>1, <4>3 DEF ReuseRecord, ReuseInv
        <5>2. QED
          BY <1>k, <2>2, <3>1, <5>1 DEF Kept, Active
      <4>4. QED
        BY <4>1, <4>2, <4>3
    <3>4. QED
      BY <3>2, <3>3
  <2>3. QED
    BY <2>1, <2>2
<1>4. QED
  BY <1>1, <1>2, <1>3 DEF RecordInv, WinnerLosesOnlyRevoked

-----------------------------------------------------------------------------
(* The session a request is about to mark as expired *)

(* What a session is bound to changes by a request's binding only. *)
LEMMA BindingSteps ==
  ASSUME IInv, IInv', [Next]_vars, NEW s \in Sessions, session[s].state # "none",
         \/ session'[s].current # session[s].current
         \/ session'[s].expires # session[s].expires
  PROVE  \E r \in Requests : /\ LoginBind(r) \/ RefreshRotate(r)
                             /\ req[r].sess = s
<1>1. TypeOK /\ TypeOK' /\ RequestInv /\ RowsInv
  BY DEF IInv
<1>2. ~(\/ \E r \in Requests : OrdinaryStep(r)
        \/ PruneSessions \/ SuspendTenant \/ PurgeUsed \/ Tick \/ UNCHANGED vars)
  BY <1>1, OrdinarySteps DEF Ordinary, OnlyRevokes
<1>3. ASSUME NEW r \in Requests,
             \/ LoginSession(r) \/ LoginToken(r) \/ LoginBind(r) \/ Reply(r)
             \/ RefreshClaim(r) \/ RefreshMint(r) \/ RefreshRotate(r)
      PROVE  (LoginBind(r) \/ RefreshRotate(r)) /\ req[r].sess = s
  BY <1>1, <1>3
  DEF LoginSession, LoginToken, LoginBind, Reply, RefreshClaim, RefreshMint,
      RefreshRotate, BindSession, TypeOK
<1>4. QED
  BY <1>2, <1>3, StepCases

(* A request comes to mark a session only from a load that found it expired. *)
LEMMA MarkArrival ==
  ASSUME IInv, IInv', [Next]_vars, NEW r \in Requests,
         req'[r].pc = "mark", req'[r] # req[r]
  PROVE  /\ session' = session /\ now' = now
         /\ req'[r].sess \in Sessions /\ Expired(req'[r].sess)
<1>k. TypeOK /\ RequestInv
  BY DEF IInv
<1>1. RefreshLoad(r) \/ AccessLoad(r) \/ LogoutLoad(r)
  BY <1>k, OwnMoves, Arrival
<1>2. ASSUME AccessLoad(r)
      PROVE  req'[r].sess \in Sessions /\ Expired(req'[r].sess)
  BY <1>k, <1>2 DEF AccessLoad, Start, TypeOK
<1>3. ASSUME RefreshLoad(r) \/ LogoutLoad(r)
      PROVE  /\ req'[r].sess = req[r].sess /\ req[r].sess \in Sessions
             /\ Expired(req[r].sess)
  BY <1>k, <1>3
  DEF RefreshLoad, LogoutLoad, Goto, Finish, Idle, TypeOK, RequestRow, RequestInv
<1>4. QED
  BY <1>1, <1>2, <1>3 DEF RefreshLoad, AccessLoad, LogoutLoad

(* A login binds a session that was bound to nothing; a refresh binds an heir,*)
(* and nothing else renews a session that a load found expired.               *)
LEMMA MarkNext ==
  ASSUME IInv, IInv', MarkInv, [Next]_vars
  PROVE  MarkInv'
<1>k. /\ Kept /\ TypeOK /\ RowsInv /\ RequestInv /\ RotationInv /\ BindingInv
      /\ TypeOK' /\ RequestInv'
  BY StepsKeep DEF IInv
<1>u. issued \subseteq Tokens /\ NoToken \notin Tokens
  BY <1>k, NullAssumption DEF TypeOK
<1>1. ASSUME NEW r \in Requests, req'[r].pc = "rotate"
      PROVE  token'[req'[r].child].parent # NoToken
  <2>1. CASE req'[r] = req[r]
    BY <1>k, <1>1, <2>1 DEF MarkInv, RequestInv, Kept
  <2>2. CASE req'[r] # req[r]
    <3>1. RefreshMint(r)
      BY <1>k, <1>1, <2>2, OwnMoves, Arrival
    <3>2. req[r].tok \in Tokens
      BY <1>k, <1>u, <3>1 DEF RefreshMint, RequestInv, HoldsToken
    <3>3. QED
      BY <1>k, <1>u, <3>1, <3>2
      DEF RefreshMint, CreateToken, Minted, TypeOK, RequestRow
  <2>3. QED
    BY <2>1, <2>2
<1>2. ASSUME NEW r \in Requests, req'[r].pc \in {"login", "bind"}
      PROVE  session'[req'[r].sess].current = NoToken
  <2>1. CASE LoginSession(r)
    BY <2>1, <1>k DEF LoginSession, Start, TypeOK
  <2>2. CASE LoginToken(r)
    BY <2>2, <1>k DEF LoginToken, Minted, MarkInv, TypeOK, RequestRow
  <2>3. CASE req'[r] = req[r]
    <3>1. /\ req[r].sess \in Sessions /\ session[req[r].sess].state # "none"
          /\ session[req[r].sess].current = NoToken
      BY <1>k, <1>2, <2>3 DEF RequestInv, MarkInv
    <3>2. ASSUME NEW q \in Requests, LoginBind(q) \/ RefreshRotate(q),
                 req[q].sess = req[r].sess
          PROVE  FALSE
      <4>1. q = r
        BY <1>k, <1>2, <2>3, <3>2
        DEF RotationInv, Rotating, LoginBind, RefreshRotate
      <4>2. req'[q].pc = "reply"
        BY <1>k, <3>2 DEF LoginBind, RefreshRotate, Goto, TypeOK, RequestRow
      <4>3. QED
        BY <1>2, <4>1, <4>2
    <3>3. session'[req[r].sess].current = session[req[r].sess].current
      BY <1>k, <3>1, <3>2, BindingSteps
    <3>4. QED
      BY <2>3, <3>1, <3>3
  <2>4. QED
    BY <1>k, <1>2, <2>1, <2>2, <2>3, OwnMoves, Arrival
<1>3. ASSUME NEW r \in Requests, req'[r].pc = "mark",
             Active(req[r].sess)', ~Expired(req[r].sess)'
      PROVE  LET t == session'[req'[r].sess].current IN
             t \in Tokens /\ token'[t].parent # NoToken
  <2>1. CASE req'[r] # req[r]
    \* A load has just found the session expired.
    <3>1. /\ session' = session /\ now' = now
          /\ req'[r].sess \in Sessions /\ Expired(req'[r].sess)
      BY <1>3, <2>1, MarkArrival
    <3>2. QED
      BY <1>3, <3>1 DEF Expired
  <2>2. CASE req'[r] = req[r]
    <3> DEFINE s == req[r].sess
    <3>1. s \in Sessions /\ session[s].state # "none"
      BY <1>k, <1>3, <2>2 DEF RequestInv
    <3>2. Active(s)
      BY <1>k, <1>3, <2>2, <3>1 DEF Kept, Active, TypeOK, SessionRow
    <3>3. ASSUME NEW q \in Requests, RefreshRotate(q), req[q].sess = s
          PROVE  /\ session'[s].current = req[q].child
                 /\ req[q].child \in Tokens
                 /\ token'[req[q].child].parent # NoToken
      BY <1>k, <3>1, <3>3
      DEF RefreshRotate, BindSession, RequestInv, MarkInv, TypeOK, SessionRow
    <3>4. ASSUME NEW q \in Requests, LoginBind(q), req[q].sess = s
          PROVE  session[s].current \notin Tokens /\ session'[s].expires = session[s].expires
      BY <1>k, <1>u, <3>1, <3>4
      DEF LoginBind, BindSession, MarkInv, TypeOK, SessionRow
    <3>5. CASE \E q \in Requests : RefreshRotate(q) /\ req[q].sess = s
      BY <2>2, <3>3, <3>5
    <3>6. CASE ~\E q \in Requests : RefreshRotate(q) /\ req[q].sess = s
      <4>1. session'[s].expires = session[s].expires
        BY <1>k, <3>1, <3>4, <3>6, BindingSteps
      <4>2. ~Expired(s)
        <5>1. /\ session[s].expires \in Int /\ now \in Int /\ now' \in Int
              /\ now <= now'
          BY <1>k, <3>1 DEF TypeOK, SessionRow, Time, Kept
        <5>2. QED
          BY <1>3, <2>2, <4>1, <5>1 DEF Expired
      <4>3. /\ session[s].current \in Tokens
            /\ token[session[s].current].parent # NoToken
        BY <1>3, <2>2, <3>2, <4>2 DEF MarkInv, MarkedWasExpired
      <4>4. session'[s].current = session[s].current
        BY <1>k, <3>1, <3>4, <3>6, <4>3, BindingSteps
      <4>5. QED
        BY <1>k, <2>2, <4>3, <4>4 DEF Kept, RowsInv
    <3>7. QED
      BY <3>5, <3>6
  <2>3. QED
    BY <2>1, <2>2
<1>4. MarkedWasExpired'
  BY <1>3 DEF MarkedWasExpired
<1>5. QED
  BY <1>1, <1>2, <1>4 DEF MarkInv

-----------------------------------------------------------------------------
(* What a session's client can count on *)

(* A token row appears by a login or by a refresh of its session. *)
LEMMA NewTokens ==
  ASSUME IInv, IInv', [Next]_vars, NEW c \in Tokens,
         token[c].state = "none", token'[c].state # "none"
  PROVE  \E r \in Requests :
           /\ LoginToken(r) \/ RefreshMint(r)
           /\ token'[c].sess = req[r].sess
           /\ RefreshMint(r) => /\ req[r].pc = "mint"
                                /\ token'[c].parent = req[r].tok
                                /\ token'[c].expires = now + TTL
<1>1. TypeOK /\ TypeOK' /\ RequestInv /\ RowsInv
  BY DEF IInv
<1>2. ~(\/ \E r \in Requests : OrdinaryStep(r)
        \/ PruneSessions \/ SuspendTenant \/ PurgeUsed \/ Tick \/ UNCHANGED vars)
  BY <1>1, OrdinarySteps DEF Ordinary, OnlyRevokes
<1>3. ASSUME NEW r \in Requests, LoginToken(r)
      PROVE  token'[c].sess = req[r].sess
  BY <1>1, <1>3 DEF LoginToken, CreateToken, TypeOK
<1>4. ASSUME NEW r \in Requests, RefreshMint(r)
      PROVE  /\ token'[c].sess = req[r].sess /\ req[r].pc = "mint"
             /\ token'[c].parent = req[r].tok /\ token'[c].expires = now + TTL
  BY <1>1, <1>4 DEF RefreshMint, CreateToken, NewExpiry, TypeOK
<1>5. ASSUME NEW r \in Requests,
             \/ LoginSession(r) \/ LoginBind(r) \/ Reply(r)
             \/ RefreshClaim(r) \/ RefreshRotate(r)
      PROVE  FALSE
  BY <1>1, <1>5, RevokeTokensRows
  DEF LoginSession, LoginBind, Reply, RefreshClaim, RefreshRotate, TypeOK
<1>6. ASSUME NEW r \in Requests, LoginToken(r)
      PROVE  ~RefreshMint(r)
  BY <1>6 DEF LoginToken, RefreshMint
<1>7. QED
  BY <1>2, <1>3, <1>4, <1>5, <1>6, StepCases

(* A token minted in overtime stays on record. *)
LEMMA OvertimeLasts ==
  ASSUME IInv, Kept, NEW s \in Sessions, Overtime(s)
  PROVE  Overtime(s)'
<1>1. PICK t \in Tokens :
        /\ token[t].sess = s /\ token[t].parent # NoToken
        /\ token[t].expires > token[token[t].parent].expires + TTL
  BY DEF Overtime
<1>2. /\ token[t].state # "none" /\ token[t].parent \in Tokens
      /\ token[token[t].parent].state # "none"
  BY <1>1 DEF IInv, RowsInv, ParentsInv
<1>3. QED
  BY <1>1, <1>2 DEF Overtime, Kept

(* Once a live token that has expired is the last of its session it remains   *)
(* so until its heir is minted, which is then in overtime.                    *)
LEMMA LastTokenLasts ==
  ASSUME IInv, IInv', [Next]_vars, NEW s \in Sessions, NEW t \in Tokens,
         token[t].state # "none", token[t].sess = s, token[t].expires < now,
         LastToken(t)
  PROVE  LastToken(t)' \/ Overtime(s)'
<1>k. /\ Kept /\ TypeOK /\ TypeOK' /\ RowsInv /\ RequestInv /\ RotationInv
      /\ UseInv
  BY StepsKeep DEF IInv
<1>n. /\ now \in Int /\ now' \in Int /\ TTL \in Int /\ token[t].expires \in Int
  BY <1>k, TimeAssumption DEF TypeOK, TokenRow, Time
<1>1. ASSUME NEW c \in Tokens, Live(c)', token'[c].sess = s, c # t,
             ~Overtime(s)'
      PROVE  FALSE
  <2>1. token[c].state = "none"
    BY <1>k, <1>1 DEF LastToken, Kept, Live, TypeOK, TokenRow
  <2>2. PICK r \in Requests :
          /\ LoginToken(r) \/ RefreshMint(r)
          /\ token'[c].sess = req[r].sess
          /\ RefreshMint(r) => /\ req[r].pc = "mint"
                               /\ token'[c].parent = req[r].tok
                               /\ token'[c].expires = now + TTL
    BY <1>1, <2>1, NewTokens DEF Live
  \* A login finds no token in its session.
  <2>3. CASE LoginToken(r)
    BY <1>1, <1>k, <2>2, <2>3 DEF LoginToken, RotationInv
  \* An heir of t is minted more than a token's life after t.
  <2>4. CASE RefreshMint(r)
    <3>1. token'[c].parent = t /\ token'[c].expires = now + TTL
      BY <1>1, <2>2, <2>4 DEF LastToken
    <3>2. token'[t].expires = token[t].expires /\ token'[t].sess = s
      BY <1>k DEF Kept
    <3>3. token'[c].expires > token'[t].expires + TTL
      BY <1>n, <3>1, <3>2
    <3>4. t # NoToken
      BY NullAssumption
    <3>5. QED
      BY <1>1, <3>1, <3>3, <3>4 DEF Overtime
  <2>5. QED
    BY <2>2, <2>3, <2>4
<1>2. ASSUME NEW q \in Requests, req'[q].pc \in {"record", "mint"},
             req'[q].sess = s
      PROVE  req'[q].tok = t
  <2>1. CASE req'[q] = req[q]
    BY <1>2, <2>1 DEF LastToken
  <2>2. CASE RefreshRecord(q)
    <3>1. /\ req[q].pc = "record" /\ req[q].tok = req'[q].tok
          /\ req[q].sess = req'[q].sess
      BY <1>k, <1>2, <2>2
      DEF RefreshRecord, Goto, Finish, Idle, TypeOK, RequestRow
    <3>2. QED
      BY <1>2, <3>1 DEF LastToken
  <2>3. CASE RefreshClaim(q)
    <3>1. /\ req[q].tok = req'[q].tok /\ req[q].sess = req'[q].sess
          /\ Claimable(q, req[q].tok) /\ req[q].pc = "claim"
      BY <1>k, <1>2, <2>3 DEF RefreshClaim, Goto, TypeOK, RequestRow
    <3>2. req[q].tok \in Tokens
      BY <1>k, <3>1 DEF RequestInv, HoldsToken, TypeOK
    <3>3. QED
      BY <1>2, <3>1, <3>2 DEF LastToken, Claimable
  <2>4. QED
    BY <1>k, <1>2, <2>1, <2>2, <2>3, OwnMoves, Arrival
<1>3. token'[t].sess = s
  BY <1>k DEF Kept
<1>4. QED
  BY <1>1, <1>2, <1>3 DEF LastToken

(* A request that found its token expired still finds it so: the token is the *)
(* last one of its session or its heir was minted in overtime.                *)
LEMMA StaleNext ==
  ASSUME IInv, IInv', StaleInv, [Next]_vars
  PROVE  StaleInv'
<1>k. /\ Kept /\ TypeOK /\ TypeOK' /\ RowsInv /\ RequestInv /\ RotationInv
      /\ OneLiveTokenPerSession
  BY StepsKeep DEF IInv
<1>n. /\ now \in Int /\ now' \in Int /\ now <= now' /\ issued \subseteq Tokens
      /\ \A t \in Tokens : token[t].expires \in Int
      /\ \A r \in Requests : req[r].at \in Int
  BY <1>k, TimeAssumption DEF TypeOK, TokenRow, RequestRow, Time, Kept
<1>1. ASSUME NEW r \in Requests, req'[r].pc \in {"claim", "miss"}
      PROVE  req'[r].at <= now'
  <2>1. CASE req'[r] = req[r]
    BY <1>n, <1>1, <2>1 DEF StaleInv
  <2>2. CASE RefreshLoad(r)
    BY <1>k, <1>n, <1>1, <2>2
    DEF RefreshLoad, Goto, Finish, Idle, TypeOK, RequestRow
  <2>3. CASE RefreshClaim(r)
    <3>1. req'[r].at = req[r].at /\ req[r].pc = "claim"
      BY <1>k, <2>3 DEF RefreshClaim, Goto, TypeOK, RequestRow
    <3>2. QED
      BY <1>n, <3>1 DEF StaleInv
  <2>4. QED
    BY <1>k, <1>1, <2>1, <2>2, <2>3, OwnMoves, Arrival
<1>2. ASSUME NEW r \in Requests, req[r].pc \in {"staleSession", "staleFamily"},
             NEW t \in Tokens, t = req[r].tok, NEW s \in Sessions, s = token[t].sess
      PROVE  /\ token'[t].expires < now' /\ token'[t].sess = s
             /\ Overtime(s)' \/ LastToken(t)'
  <2>1. token[t].state # "none"
    BY <1>k, <1>n, <1>2 DEF RequestInv, HoldsToken, RowsInv
  <2>2. token[t].expires < now /\ (Overtime(s) \/ LastToken(t))
    BY <1>2 DEF StaleInv
  <2>3. token'[t].expires = token[t].expires /\ token'[t].sess = token[t].sess
    BY <1>k, <2>1 DEF Kept
  <2>4. Overtime(s)' \/ LastToken(t)'
    BY <1>k, <1>2, <2>1, <2>2, OvertimeLasts, LastTokenLasts
  <2>5. QED
    BY <1>n, <1>2, <2>1, <2>2, <2>3, <2>4
<1>3. ASSUME NEW r \in Requests, RefreshMiss(r), req'[r].pc = "staleSession",
             NEW t \in Tokens, t = req[r].tok
      PROVE  /\ req'[r].tok = t /\ token' = token /\ now' = now
             /\ token[t].expires < now /\ LastToken(t)'
  <2>1. /\ req[r].pc = "miss" /\ Live(t) /\ token[t].expires < req[r].at
        /\ req'[r].tok = t /\ token' = token /\ now' = now
    BY <1>k, <1>3
    DEF RefreshMiss, Goto, Finish, Idle, TypeOK, RequestRow
  <2>2. token[t].expires < now
    BY <1>n, <1>3, <2>1 DEF StaleInv
  <2>3. LastToken(t)'
    <3>1. \A c \in Tokens : Live(c)' /\ token'[c].sess = token'[t].sess => c = t
      BY <1>k, <2>1 DEF OneLiveTokenPerSession, Live
    <3>2. RotationInv' /\ Live(t)'
      BY <2>1 DEF IInv, Live
    <3>3. \A q \in Requests :
            ~(req'[q].pc \in {"record", "mint"} /\ req'[q].sess = token'[t].sess)
      BY <3>2 DEF RotationInv
    <3>4. QED
      BY <3>1, <3>3 DEF LastToken
  <2>4. QED
    BY <2>1, <2>2, <2>3
<1>4. ASSUME NEW r \in Requests, req'[r].pc \in {"staleSession", "staleFamily"}
      PROVE  \E t \in Tokens, s \in Sessions :
               /\ t = req'[r].tok /\ s = token'[t].sess
               /\ token'[t].expires < now' /\ (Overtime(s)' \/ LastToken(t)')
  <2>1. /\ req[r].pc \in HoldsToken /\ req'[r].tok = req[r].tok
        /\ \/ req[r].pc \in {"staleSession", "staleFamily"}
           \/ RefreshMiss(r) /\ req'[r].pc = "staleSession"
    <3>1. CASE req'[r] = req[r]
      BY <1>4, <3>1 DEF HoldsToken
    <3>2. CASE StaleSession(r)
      BY <1>k, <3>2 DEF StaleSession, Goto, TypeOK, RequestRow, HoldsToken
    <3>3. CASE RefreshMiss(r)
      <4>1. req'[r].pc = "staleSession"
        BY <1>k, <1>4, <3>3
        DEF RefreshMiss, Goto, Finish, Idle, TypeOK, RequestRow
      <4>2. req[r].pc = "miss" /\ req'[r].tok = req[r].tok
        BY <1>k, <3>3, <4>1
        DEF RefreshMiss, Goto, Finish, Idle, TypeOK, RequestRow
      <4>3. QED
        BY <3>3, <4>1, <4>2 DEF HoldsToken
    <3>4. QED
      BY <1>k, <1>4, <3>1, <3>2, <3>3, OwnMoves, Arrival
  <2>2. PICK t \in Tokens, s \in Sessions : t = req[r].tok /\ s = token[t].sess
    <3>1. /\ req[r].tok \in Tokens /\ token[req[r].tok].sess \in Sessions
      BY <1>k, <1>n, <2>1 DEF RequestInv, RowsInv
    <3>2. QED
      BY <3>1
  <2>3. CASE req[r].pc \in {"staleSession", "staleFamily"}
    BY <1>2, <2>1, <2>2, <2>3
  <2>4. CASE RefreshMiss(r) /\ req'[r].pc = "staleSession"
    BY <1>3, <2>1, <2>2, <2>4
  <2>5. QED
    BY <2>1, <2>3, <2>4
<1>5. ASSUME NEW r \in Requests, req'[r].pc \in {"staleSession", "staleFamily"}
      PROVE  /\ token'[req'[r].tok].expires < now'
             /\ (Overtime(token[req[r].tok].sess) \/ LastToken(req[r].tok))'
  BY <1>4, <1>5 DEF Overtime, LastToken
<1>6. QED
  BY <1>1, <1>5 DEF StaleInv

(* The place a request leaves tells the step it takes, if it does not die. *)
LEMMA Departure ==
  ASSUME TypeOK, [Next]_vars, ~CanAbort, NEW q \in Requests, req'[q] # req[q]
  PROVE  /\ req[q].pc = "login" => LoginToken(q)
         /\ req[q].pc = "bind" => LoginBind(q)
         /\ req[q].pc = "reply" => Reply(q)
         /\ req[q].pc = "record" => RefreshRecord(q)
         /\ req[q].pc = "mint" => RefreshMint(q)
         /\ req[q].pc = "rotate" => RefreshRotate(q)
         /\ req[q].pc = "reuseFamily" => ReuseFamily(q)
         /\ req[q].pc = "reuseSession" => ReuseSession(q)
         /\ req[q].pc = "reuseRecord" => ReuseRecord(q)
         /\ req[q].pc = "reuseLog" => ReuseLog(q)
<1>1. Begin(q) \/ Continue(q)
  BY OwnMoves DEF Abort
<1>2. QED
  BY <1>1
  DEF Begin, Continue, LoginSession, RefreshGuard, AccessLoad, LogoutGuard,
      RevokeAllGuard, LoginToken, LoginBind, Reply, RefreshLoad, RefreshClaim,
      RefreshRecord, RefreshMint, RefreshRotate, RefreshMiss, StaleSession,
      StaleFamily, ReuseFamily, ReuseSession, ReuseRecord, ReuseLog,
      MarkExpired, LogoutLoad, LogoutSession, LogoutTokens, RevokeAllLoad,
      RevokeAllCommit

(* Five steps revoke a token: its claim, the end of its family after it was   *)
(* found expired or reused, a logout and a revoke-all.                        *)
LEMMA TokenRevokers ==
  ASSUME TypeOK, [Next]_vars, NEW t \in Tokens, Live(t), ~Live(t)'
  PROVE  \E r \in Requests :
           \/ RefreshClaim(r) /\ Claimable(r, t) /\ req[r].tok = t
           \/ /\ StaleFamily(r) \/ ReuseFamily(r)
              /\ token[t].family = token[req[r].tok].family
           \/ LogoutTokens(r) /\ token[t].sess = req[r].sess
           \/ RevokeAllCommit(r) /\ token[t].sess \in req[r].seen
<1>1. token[t].state = "live" /\ token'[t].state # "live"
  BY DEF Live
<1>2. token' # token
  BY <1>1
<1>3. PICK r \in Requests :
        \/ RefreshClaim(r) \/ StaleFamily(r) \/ ReuseFamily(r)
        \/ LogoutTokens(r) \/ RevokeAllCommit(r)
        \/ LoginToken(r) \/ RefreshMint(r)
  BY <1>2
  DEF Next, Begin, Continue, Abort, vars, SuspendTenant, Clean, PruneSessions,
      PurgeUsed, Tick, LoginSession, RefreshGuard, AccessLoad, LogoutGuard,
      RevokeAllGuard, LoginBind, Reply, RefreshLoad, RefreshRecord,
      RefreshRotate, RefreshMiss, StaleSession, ReuseSession, ReuseRecord,
      ReuseLog, MarkExpired, LogoutLoad, LogoutSession, RevokeAllLoad
<1>4. ~(LoginToken(r) \/ RefreshMint(r))
  BY <1>1 DEF LoginToken, RefreshMint, CreateToken, TypeOK
<1>5. ASSUME NEW ts, RevokeTokens(ts) PROVE t \in ts
  BY <1>1, <1>5 DEF RevokeTokens
<1>6. CASE RefreshClaim(r)
  <2>1. Claimable(r, req[r].tok) /\ RevokeTokens({req[r].tok})
    BY <1>2, <1>6 DEF RefreshClaim
  <2>2. req[r].tok = t
    BY <1>5, <2>1
  <2>3. QED
    BY <1>6, <2>1, <2>2
<1>7. CASE StaleFamily(r) \/ ReuseFamily(r)
  <2>1. RevokeTokens(Family(token[req[r].tok].family))
    BY <1>7 DEF StaleFamily, ReuseFamily
  <2>2. t \in Family(token[req[r].tok].family)
    BY <1>5, <2>1
  <2>3. QED
    BY <1>7, <2>2 DEF Family
<1>8. CASE LogoutTokens(r)
  <2>1. t \in TokensOf({req[r].sess})
    BY <1>5, <1>8 DEF LogoutTokens
  <2>2. QED
    BY <1>8, <2>1 DEF TokensOf
<1>9. CASE RevokeAllCommit(r)
  <2>1. t \in TokensOf(req[r].seen)
    BY <1>5, <1>9 DEF RevokeAllCommit
  <2>2. QED
    BY <1>9, <2>1 DEF TokensOf
<1>10. QED
  BY <1>3, <1>4, <1>6, <1>7, <1>8, <1>9

(* A reuse handler that is about to end a session ends it. *)
LEMMA EndingEnds ==
  ASSUME IInv, IInv', [Next]_vars, ~CanAbort, NEW s \in Sessions, Ending(s)
  PROVE  Ending(s)' \/ ~Active(s)'
<1>k. Kept /\ TypeOK /\ RequestInv /\ RowsInv
  BY StepsKeep DEF IInv
<1>1. PICK r \in Requests : req[r].pc = "reuseSession" /\ token[req[r].tok].sess = s
  BY DEF Ending
<1>2. CASE req'[r] = req[r]
  BY <1>k, <1>1, <1>2 DEF Ending, Kept, RequestInv, HoldsToken, RowsInv, TypeOK
<1>3. CASE req'[r] # req[r]
  <2>1. RevokeSessions({s})
    BY <1>k, <1>1, <1>3, Departure DEF ReuseSession
  <2>2. QED
    BY <1>k, <2>1 DEF RevokeSessions, Active, TypeOK, SessionRow
<1>4. QED
  BY <1>2, <1>3

(* When a token is lost, its request keeps the session, or a reuse handler or *)
(* the revocation of the session ends it, or the token had expired.           *)
LEMMA LosingATokenIsSeen ==
  ASSUME IInv, IInv', StaleInv, StrandInv, [Next]_vars,
         NEW s \in Sessions, NEW t \in Tokens, token[t].sess = s,
         Live(t), ~Live(t)', Active(s)'
  PROVE  \/ Ending(s)' \/ Overtime(s)'
         \/ /\ t \in issued
            /\ Promised(s)' \/ Expired(s)'
<1>k. /\ Kept /\ TypeOK /\ TypeOK' /\ RowsInv /\ RequestInv /\ BindingInv
      /\ issued \subseteq Tokens
  BY StepsKeep DEF IInv, TypeOK
<1>1. PICK r \in Requests :
        \/ RefreshClaim(r) /\ Claimable(r, t) /\ req[r].tok = t
        \/ /\ StaleFamily(r) \/ ReuseFamily(r)
           /\ token[t].family = token[req[r].tok].family
        \/ LogoutTokens(r) /\ token[t].sess = req[r].sess
        \/ RevokeAllCommit(r) /\ token[t].sess \in req[r].seen
  BY <1>k, TokenRevokers
<1>2. session[s].state # "none" /\ Active(s)
  BY <1>k DEF RowsInv, Live, Kept, Active, TypeOK, SessionRow
<1>3. CASE RefreshClaim(r) /\ Claimable(r, t) /\ req[r].tok = t
  <2>1. /\ req[r].pc = "claim" /\ req[r].sess = s
        /\ req'[r].pc = "record" /\ req'[r].sess = s
    BY <1>k, <1>3 DEF RefreshClaim, Claimable, Goto, TypeOK, RequestRow
  <2>2. QED
    BY <1>k, <1>3, <2>1 DEF Promised, Rotating, RequestInv, HoldsToken
\* Tokens of one family are of one session.
<1>4. ASSUME req[r].pc \in HoldsToken, token[t].family = token[req[r].tok].family
      PROVE  /\ req[r].tok \in Tokens /\ req[r].tok \in issued
             /\ token[req[r].tok].state # "none" /\ token[req[r].tok].sess = s
  <2>1. /\ req[r].tok \in Tokens /\ req[r].tok \in issued
        /\ token[req[r].tok].state # "none" /\ token[t].state # "none"
    BY <1>k, <1>4 DEF RequestInv, RowsInv, Live
  <2>2. QED
    BY <1>k, <1>4, <2>1 DEF RowsInv
<1>5. CASE StaleFamily(r) /\ token[t].family = token[req[r].tok].family
  <2>1. req[r].pc = "staleFamily" /\ session' = session /\ now' = now
    BY <1>5 DEF StaleFamily
  <2>2. PICK x \in Tokens : x = req[r].tok /\ x \in issued /\ token[x].sess = s
    BY <1>4, <1>5, <2>1 DEF HoldsToken
  <2>3. token[x].expires < now /\ (Overtime(s) \/ LastToken(x))
    BY <2>1, <2>2 DEF StaleInv
  <2>4. CASE Overtime(s)
    BY <1>k, <2>4, OvertimeLasts
  <2>5. CASE LastToken(x)
    <3>1. x = t
      BY <2>2, <2>5 DEF LastToken
    <3>2. session[s].expires = token[t].expires /\ t \in issued
      BY <1>k, <2>2, <3>1 DEF BindingInv
    <3>3. Expired(s)'
      BY <2>1, <2>3, <3>1, <3>2 DEF Expired
    <3>4. QED
      BY <3>2, <3>3
  <2>6. QED
    BY <2>3, <2>4, <2>5
<1>6. CASE ReuseFamily(r) /\ token[t].family = token[req[r].tok].family
  <2>1. req[r].pc = "reuseFamily" /\ req'[r].pc = "reuseSession"
        /\ req'[r].tok = req[r].tok
    BY <1>k, <1>6 DEF ReuseFamily, Goto, TypeOK, RequestRow
  <2>2. /\ req[r].tok \in Tokens /\ token[req[r].tok].state # "none"
        /\ token[req[r].tok].sess = s
    BY <1>4, <1>6, <2>1 DEF HoldsToken
  <2>3. QED
    BY <1>k, <2>1, <2>2 DEF Ending, Kept
<1>7. CASE LogoutTokens(r) /\ token[t].sess = req[r].sess
  BY <1>2, <1>7 DEF LogoutTokens, StrandInv
<1>8. CASE RevokeAllCommit(r) /\ token[t].sess \in req[r].seen
  <2>1. s \in SessionsOf(Owner[req[r].sess])
    BY <1>8 DEF RevokeAllCommit, StrandInv
  <2>2. session'[s].state # "active"
    BY <1>k, <1>8, <2>1 DEF RevokeAllCommit, RevokeSessions, TypeOK, SessionRow
  <2>3. QED
    BY <2>2 DEF Active
<1>9. QED
  BY <1>1, <1>3, <1>5, <1>6, <1>7, <1>8

(* A request that is about to give its session a token goes on to give it, or *)
(* leaves the session with the token in the client's hands, being ended, or   *)
(* with an heir minted in overtime.                                           *)
LEMMA PromiseIsKept ==
  ASSUME IInv, IInv', RecordInv, StrandInv, [Next]_vars, ~CanAbort,
         NEW s \in Sessions, Promised(s), Active(s)'
  PROVE  Promised(s)' \/ Held(s)' \/ Ending(s)' \/ Overtime(s)'
<1>k. /\ Kept /\ TypeOK /\ TypeOK' /\ RequestInv /\ RowsInv
  BY StepsKeep DEF IInv
<1>1. PICK r \in Requests : req[r].pc \in Rotating /\ req[r].sess = s
  BY DEF Promised
<1>2. Active(s)
  BY <1>k, <1>1 DEF RequestInv, Rotating, Kept, Active, TypeOK, SessionRow
<1>3. CASE req'[r] = req[r]
  BY <1>1, <1>3 DEF Promised
<1>4. CASE req'[r] # req[r]
  <2>1. CASE req[r].pc = "reply"
    <3>1. Reply(r)
      BY <1>k, <1>4, <2>1, Departure
    <3>2. /\ req[r].child \in Tokens /\ token[req[r].child].sess = s
          /\ issued' = issued \cup {req[r].child} /\ token' = token
      BY <1>k, <1>1, <2>1, <3>1 DEF Reply, RequestInv
    <3>3. Live(req[r].child) \/ Ending(s) \/ Overtime(s)
      BY <1>1, <1>2, <2>1 DEF StrandInv
    <3>4. Live(req[r].child) => Held(s)'
      BY <3>2 DEF Held, Live
    <3>5. QED
      BY <1>k, <3>3, <3>4, EndingEnds, OvertimeLasts
  <2>2. CASE req[r].pc = "record"
    \* It fails only if the use is on record: then the session is over.
    <3>1. RefreshRecord(r)
      BY <1>k, <1>4, <2>2, Departure
    <3>2. usedAt[req[r].tok] = NoUse
      BY <1>1, <1>2, <2>2 DEF RecordInv, WinnerLosesOnlyRevoked
    <3>3. req'[r].pc = "mint" /\ req'[r].sess = s
      BY <1>k, <1>1, <3>1, <3>2 DEF RefreshRecord, Goto, TypeOK, RequestRow
    <3>4. QED
      BY <3>3 DEF Promised, Rotating
  <2>3. CASE req[r].pc \in {"login", "mint", "bind", "rotate"}
    <3>1. LoginToken(r) \/ RefreshMint(r) \/ LoginBind(r) \/ RefreshRotate(r)
      BY <1>k, <1>4, <2>3, Departure
    <3>2. req'[r].pc \in {"bind", "rotate", "reply"} /\ req'[r].sess = s
      BY <1>k, <1>1, <3>1
      DEF LoginToken, RefreshMint, LoginBind, RefreshRotate, Minted, Goto,
          TypeOK, RequestRow
    <3>3. QED
      BY <3>2 DEF Promised, Rotating
  <2>4. QED
    BY <1>1, <2>1, <2>2, <2>3 DEF Rotating
<1>5. QED
  BY <1>3, <1>4

(* Each step leaves every active session with a token, a promise or an end.   *)
LEMMA StrandNext ==
  ASSUME IInv, IInv', RecordInv, StaleInv, StrandInv, [Next]_vars, ~CanAbort
  PROVE  StrandInv'
<1>k. /\ Kept /\ TypeOK /\ TypeOK' /\ RequestInv /\ RowsInv /\ BindingInv
      /\ issued \subseteq Tokens
  BY StepsKeep DEF IInv, TypeOK
<1>1. ASSUME NEW s \in Sessions, Active(s)'
      PROVE  \/ Held(s)' \/ Promised(s)' \/ Ending(s)' \/ Overtime(s)'
             \/ Expired(s)'
  <2>1. CASE session[s].state = "none"
    <3>1. PICK r \in Requests : LoginSession(r) /\ req'[r].sess = s
      <4>1. ~(\/ \E r \in Requests : OrdinaryStep(r)
              \/ PruneSessions \/ SuspendTenant \/ PurgeUsed \/ Tick
              \/ UNCHANGED vars)
        BY <1>k, <1>1, <2>1, OrdinarySteps DEF Ordinary, OnlyRevokes, Active
      <4>2. ASSUME NEW r \in Requests,
                   \/ LoginSession(r) \/ LoginToken(r) \/ LoginBind(r)
                   \/ Reply(r) \/ RefreshClaim(r) \/ RefreshMint(r)
                   \/ RefreshRotate(r)
            PROVE  LoginSession(r) /\ req'[r].sess = s
        BY <1>k, <1>1, <2>1, <4>2
        DEF LoginSession, LoginToken, LoginBind, Reply, RefreshClaim,
            RefreshMint, RefreshRotate, BindSession, Start, Active, TypeOK,
            SessionRow
      <4>3. QED
        BY <4>1, <4>2, StepCases
    <3>2. req'[r].pc = "login"
      BY <1>k, <3>1 DEF LoginSession, Start, TypeOK
    <3>3. QED
      BY <3>1, <3>2 DEF Promised, Rotating
  <2>2. CASE session[s].state # "none"
    <3>1. Active(s)
      BY <1>k, <1>1, <2>2 DEF Kept, Active, TypeOK, SessionRow
    <3>2. CASE Promised(s)
      BY <1>1, <3>2, PromiseIsKept
    <3>3. CASE Ending(s)
      BY <1>1, <3>3, EndingEnds
    <3>4. CASE Overtime(s)
      BY <1>k, <3>4, OvertimeLasts
    <3>5. CASE Expired(s)
      <4>1. CASE session'[s].expires = session[s].expires
        <5>1. /\ session[s].expires \in Int /\ now \in Int /\ now' \in Int
              /\ now <= now'
          BY <1>k DEF TypeOK, SessionRow, Time, Kept
        <5>2. QED
          BY <3>5, <4>1, <5>1 DEF Expired
      <4>2. CASE session'[s].expires # session[s].expires
        <5>1. PICK r \in Requests : /\ LoginBind(r) \/ RefreshRotate(r)
                                    /\ req[r].sess = s
          BY <2>2, <4>2, BindingSteps
        <5>2. req'[r].pc = "reply" /\ req'[r].sess = s
          BY <1>k, <5>1 DEF LoginBind, RefreshRotate, Goto, TypeOK, RequestRow
        <5>3. QED
          BY <5>2 DEF Promised, Rotating
      <4>3. QED
        BY <4>1, <4>2
    <3>6. CASE Held(s)
      <4>1. PICK t \in issued : Live(t) /\ token[t].sess = s
        BY <3>6 DEF Held
      <4>2. CASE Live(t)'
        BY <1>k, <4>1, <4>2 DEF Held, Kept, Live
      <4>3. CASE ~Live(t)'
        BY <1>k, <1>1, <4>1, <4>3, LosingATokenIsSeen
      <4>4. QED
        BY <4>2, <4>3
    <3>7. QED
      BY <3>1, <3>2, <3>3, <3>4, <3>5, <3>6 DEF StrandInv
  <2>3. QED
    BY <2>1, <2>2
<1>2. ASSUME NEW r \in Requests, req'[r].pc \in {"bind", "rotate", "reply"},
             NEW s \in Sessions, s = req'[r].sess, Active(s)'
      PROVE  token'[req'[r].child].state = "live" \/ Ending(s)' \/ Overtime(s)'
  <2>1. CASE LoginToken(r) \/ RefreshMint(r)
    BY <1>k, <2>1
    DEF LoginToken, RefreshMint, CreateToken, Minted, TypeOK, RequestRow
  <2>2. CASE ~(LoginToken(r) \/ RefreshMint(r))
    <3>1. /\ req[r].pc \in {"bind", "rotate", "reply"}
          /\ req'[r].child = req[r].child /\ req'[r].sess = req[r].sess
      <4>1. CASE req'[r] = req[r]
        BY <1>2, <4>1
      <4>2. CASE LoginBind(r) \/ RefreshRotate(r)
        BY <1>k, <4>2 DEF LoginBind, RefreshRotate, Goto, TypeOK, RequestRow
      <4>3. QED
        BY <1>k, <1>2, <2>2, <4>1, <4>2, OwnMoves, Arrival
    <3>2. PICK c \in Tokens : /\ c = req[r].child /\ token[c].sess = s
                              /\ c \notin issued /\ token[c].state # "none"
      BY <1>k, <1>2, <3>1 DEF RequestInv
    <3>3. Active(s)
      BY <1>k, <1>2, <3>1 DEF RequestInv, Kept, Active, TypeOK, SessionRow
    <3>4. Live(c) \/ Ending(s) \/ Overtime(s)
      BY <1>2, <3>1, <3>2, <3>3 DEF StrandInv
    <3>5. CASE Live(c)
      BY <1>2, <3>1, <3>2, <3>5, LosingATokenIsSeen DEF Live
    <3>6. QED
      BY <1>k, <1>2, <3>4, <3>5, EndingEnds, OvertimeLasts
  <2>3. QED
    BY <2>1, <2>2
<1>3. ASSUME NEW r \in Requests, req'[r].pc \in {"outTokens", "staleFamily"}
      PROVE  session'[req'[r].sess].state # "active"
  <2>1. CASE req'[r] = req[r]
    BY <1>k, <1>3, <2>1
    DEF StrandInv, RequestInv, Kept, Active, TypeOK, SessionRow
  <2>2. CASE LogoutSession(r) \/ StaleSession(r)
    <3>1. RevokeSessions({req[r].sess}) /\ req'[r].sess = req[r].sess
          /\ req[r].sess \in Sessions
      BY <1>k, <2>2
      DEF LogoutSession, StaleSession, Goto, TypeOK, RequestRow, RequestInv
    <3>2. QED
      BY <1>k, <3>1 DEF RevokeSessions, TypeOK, SessionRow
  <2>3. QED
    BY <1>k, <1>3, <2>1, <2>2, OwnMoves, Arrival
<1>4. ASSUME NEW r \in Requests, req'[r].pc = "allRevoke"
      PROVE  req'[r].seen \subseteq SessionsOf(Owner[req'[r].sess])
  <2>1. CASE req'[r] = req[r]
    BY <1>4, <2>1 DEF StrandInv
  <2>2. CASE RevokeAllLoad(r)
    BY <1>k, <2>2 DEF RevokeAllLoad, TypeOK, RequestRow
  <2>3. QED
    BY <1>k, <1>4, <2>1, <2>2, OwnMoves, Arrival
<1>5. ASSUME NEW r \in Requests, req'[r].pc \in {"bind", "rotate", "reply"},
             session'[req'[r].sess].state = "active"
      PROVE  (\/ Live(req[r].child) \/ Ending(req[r].sess)
              \/ Overtime(req[r].sess))'
  <2>1. RequestInv'
    BY DEF IInv
  <2>2. PICK s \in Sessions : s = req'[r].sess
    BY <1>5, <2>1 DEF RequestInv
  <2>3. token'[req'[r].child].state = "live" \/ Ending(s)' \/ Overtime(s)'
    BY <1>2, <1>5, <2>2 DEF Active
  <2>4. QED
    BY <2>2, <2>3 DEF Live, Ending, Overtime
<1>6. QED
  BY <1>1, <1>3, <1>4, <1>5 DEF StrandInv, Active, SessionsOf

\* What every row and request relies on, with the record of uses and the tokens
\* found expired; a request that dies half-way may strand its session.
FullInv == /\ IInv /\ RecordInv /\ StaleInv /\ MarkInv
           /\ ~CanAbort => StrandInv

(* The full invariant holds in every reachable state. *)
THEOREM FullInvariance == Spec => []FullInv
<1>1. Init => FullInv
  <2> SUFFICES ASSUME Init PROVE FullInv
    OBVIOUS
  <2>1. IInv
    BY InvInit
  <2>2. \A r \in Requests : req[r].pc = "idle"
    BY DEF Init, Idle
  <2>3. RecordInv /\ StaleInv /\ MarkInv
    BY <2>2 DEF Init, RecordInv, StaleInv, MarkInv, MarkedWasExpired,
       WinnerLosesOnlyRevoked, Answering
  <2>4. StrandInv
    BY <2>2 DEF Init, StrandInv, Active
  <2>5. QED
    BY <2>1, <2>3, <2>4 DEF FullInv
<1>2. FullInv /\ [Next]_vars => FullInv'
  <2> SUFFICES ASSUME FullInv, [Next]_vars PROVE FullInv'
    OBVIOUS
  <2>1. IInv'
    BY InvNext DEF FullInv
  <2>2. RecordInv' /\ StaleInv' /\ MarkInv'
    BY <2>1, RecordNext, StaleNext, MarkNext DEF FullInv
  <2>3. ~CanAbort => StrandInv'
    BY <2>1, StrandNext DEF FullInv
  <2>4. QED
    BY <2>1, <2>2, <2>3 DEF FullInv
<1>3. QED
  BY <1>1, <1>2, PTL DEF Spec

(* refreshTokens never strands its client while the process lives: an active, *)
(* unexpired session keeps a token to exchange, a request that provides one   *)
(* or a reuse handler that ends it.                                           *)
THEOREM ClientsKeepATurn == Spec => []NobodyStranded
<1>1. FullInv => NobodyStranded
  BY DEF FullInv, StrandInv, NobodyStranded
<1>2. QED
  BY <1>1, FullInvariance, PTL

(* JwtStrategy.validate and the other loads: a session that is marked revoked *)
(* by id though it has not expired was expired, and renewed by a refresh.     *)
THEOREM MarkingWasDue == Spec => []MarkedWasExpired
<1>1. FullInv => MarkedWasExpired
  BY DEF FullInv, MarkInv
<1>2. QED
  BY <1>1, FullInvariance, PTL

(* The same step by step: only RefreshRotate makes a session good again that  *)
(* a load has found expired (auth.service.ts:317, 550).                       *)
THEOREM RenewedSinceLoaded == Spec => MarkFollowsRenewal
<1>1. ASSUME IInv, IInv', MarkInv, [Next]_vars, NEW r \in Requests,
             req'[r].pc = "mark", ~Expired(req[r].sess)'
      PROVE  /\ req[r].pc = "mark" /\ req'[r].sess = req[r].sess
             /\ \/ ~Expired(req[r].sess)
                \/ \E q \in Requests : RefreshRotate(q) /\ req[q].sess = req[r].sess
  <2> DEFINE s == req[r].sess
  <2>k. TypeOK /\ TypeOK' /\ RequestInv /\ Kept
    BY <1>1, StepsKeep DEF IInv
  <2>1. req'[r] = req[r]
    BY <1>1, MarkArrival DEF Expired
  <2>2. s \in Sessions /\ session[s].state # "none"
    BY <1>1, <2>k, <2>1 DEF RequestInv
  <2>3. ASSUME NEW q \in Requests, LoginBind(q), req[q].sess = s
        PROVE  session'[s].expires = session[s].expires
    BY <2>k, <2>2, <2>3 DEF LoginBind, BindSession, TypeOK, SessionRow
  <2>4. CASE session'[s].expires # session[s].expires
    BY <1>1, <2>1, <2>2, <2>3, <2>4, BindingSteps
  <2>5. CASE session'[s].expires = session[s].expires
    <3>1. /\ session[s].expires \in Int /\ now \in Int /\ now' \in Int
          /\ now <= now'
      BY <2>k, <2>2 DEF TypeOK, SessionRow, Time, Kept
    <3>2. QED
      BY <1>1, <2>1, <2>5, <3>1 DEF Expired
  <2>6. QED
    BY <1>1, <2>1, <2>4, <2>5
<1>2. ASSUME FullInv, FullInv', [Next]_vars
      PROVE  \A r \in Requests : (req'[r].pc = "mark" /\ ~Expired(req[r].sess)')
               => /\ req[r].pc = "mark" /\ req'[r].sess = req[r].sess
                  /\ \/ ~Expired(req[r].sess)
                     \/ \E q \in Requests : RefreshRotate(q) /\ req[q].sess = req[r].sess
  BY <1>1, <1>2 DEF FullInv
<1>3. QED
  BY <1>2, FullInvariance, PTL DEF MarkFollowsRenewal, Spec

(* A winner of the claim in refreshTokens fails on the duplicate record only  *)
(* when handleTokenReuse has ended its session.                               *)
THEOREM WinnersLoseOnlyRevoked == Spec => []WinnerLosesOnlyRevoked
<1>1. FullInv => WinnerLosesOnlyRevoked
  BY DEF FullInv, RecordInv
<1>2. QED
  BY <1>1, FullInvariance, PTL

(* handleTokenReuse that has begun does not end before the session is revoked *)
(* and the use on record, whatever the other handlers record meanwhile and    *)
(* whether or not logEvent stores the event (auth.service.ts:605,             *)
(* event.service.ts:212).                                                     *)
THEOREM ReuseIsAnsweredOnEnd == Spec => ReuseEndsAnswered
<1>1. ASSUME IInv, IInv', [Next]_vars, ~CanAbort, NEW r \in Requests,
             req[r].pc \in Answering, req'[r].pc \notin Answering
      PROVE  /\ session'[token[req[r].tok].sess].state = "revoked"
             /\ \A u \in Family(token[req[r].tok].family) : ~Usable(u)'
             /\ token[req[r].tok].expires >= now => usedAt'[req[r].tok] # NoUse
  <2>k. TypeOK /\ ReuseInv /\ UseInv /\ RowsInv /\ RequestInv
    BY <1>1 DEF IInv
  <2>1. ReuseFamily(r) \/ ReuseSession(r) \/ ReuseRecord(r) \/ ReuseLog(r)
    BY <1>1, <2>k, Departure DEF Answering
  <2>2. ~(ReuseFamily(r) \/ ReuseSession(r) \/ ReuseRecord(r))
    BY <1>1, <2>k
    DEF ReuseFamily, ReuseSession, ReuseRecord, Goto, TypeOK, RequestRow,
        Answering
  <2>3. ReuseLog(r)
    BY <2>1, <2>2
  <2> DEFINE t == req[r].tok
  <2>4. /\ t \in Tokens /\ token[t].state # "none" /\ req[r].pc = "reuseLog"
        /\ session[token[t].sess].state = "revoked"
    BY <2>k, <2>3 DEF ReuseLog, ReuseInv, RequestInv, HoldsToken, RowsInv, TypeOK
  <2>5. UNCHANGED <<session, token, usedAt>>
    BY <2>3 DEF ReuseLog
  <2>6. ASSUME NEW u \in Family(token[t].family) PROVE ~Usable(u)'
    <3>1. u \in Tokens /\ token[u].family = token[t].family
      BY <2>6 DEF Family
    <3>2. CASE token[u].state = "none"
      BY <2>5, <3>2 DEF Usable, Live
    <3>3. CASE token[u].state # "none"
      <4>1. token[u].sess = token[t].sess
        BY <2>k, <2>4, <3>1, <3>3 DEF RowsInv
      <4>2. QED
        BY <2>4, <2>5, <4>1 DEF Usable, Active
    <3>4. QED
      BY <3>2, <3>3
  <2>7. token[t].expires >= now => usedAt[t] # NoUse
    BY <2>k, <2>4 DEF UseInv
  <2>8. QED
    BY <2>4, <2>5, <2>6, <2>7
<1>2. ASSUME IInv, IInv', [Next]_vars
      PROVE  \A r \in Requests :
               (~CanAbort /\ req[r].pc \in Answering /\ req'[r].pc \notin Answering)
                 => LET t == req[r].tok IN
                    /\ session'[token[t].sess].state = "revoked"
                    /\ \A u \in Family(token[t].family) : ~Usable(u)'
                    /\ token[t].expires >= now => usedAt'[t] # NoUse
  BY <1>1, <1>2
<1>3. QED
  BY <1>2, Invariance, PTL DEF Spec, ReuseEndsAnswered

-----------------------------------------------------------------------------
(* Refinement of TokenLineage *)

Home   == [t \in Tokens |-> token[t].sess]
Good   == {t \in Tokens : Live(t)}
Owed   == {t \in Tokens : \E r \in Requests :
             req[r].pc \in {"record", "mint"} /\ req[r].tok = t}
Closed == {s \in Sessions : session[s].state = "revoked"}

(* An ordinary step withdraws tokens, entitlements and sessions at most. *)
LEMMA OrdinaryWithdraws ==
  ASSUME IInv, Ordinary
  PROVE  \E ts \in SUBSET Tokens, ss \in SUBSET Sessions :
           /\ Good' = Good \ ts /\ Owed' = Owed \ ts
           /\ Closed' = Closed \cup ss /\ Home' = Home
<1> USE DEF IInv, Ordinary
<1> DEFINE ts == (Good \ Good') \cup (Owed \ Owed')
<1>1. Good' \subseteq Good
  BY DEF Good, OnlyRevokes, Live
<1>2. Owed' \subseteq Owed
  BY DEF Owed, OrdinaryMove, Rotating
<1>3. Good \cap Owed = {} /\ Good' \cap Owed = {}
  BY <1>1 DEF Good, Owed, RequestInv, Live
<1>4. Closed \subseteq Closed' /\ Closed' \subseteq Sessions
  BY DEF Closed, OnlyRevokes
<1>5. Home' = Home
  BY DEF Home, OnlyRevokes
<1>6. /\ ts \in SUBSET Tokens /\ Good' = Good \ ts /\ Owed' = Owed \ ts
  <2>1. Good \subseteq Tokens /\ Owed \subseteq Tokens
    BY DEF Good, Owed
  <2>2. QED
    BY <1>1, <1>2, <1>3, <2>1
<1>7. Closed' \in SUBSET Sessions /\ Closed' = Closed \cup Closed'
  BY <1>4
<1>8. QED
  BY <1>5, <1>6, <1>7

(* Every step of the handlers is a step or a stutter of TokenLineage. *)
LEMMA StepRefines ==
  ASSUME IInv, IInv', [Next]_vars
  PROVE  [Lineage!LineageNext]_(Lineage!lineageVars)
<1> USE DEF IInv
<1>m. /\ Lineage!lineageVars = <<Home, Good, Owed, Closed>>
      /\ Lineage!lineageVars' = <<Home', Good', Owed', Closed'>>
  BY DEF Lineage!lineageVars, Home, Good, Owed, Closed
<1>1. CASE \/ \E r \in Requests : OrdinaryStep(r)
           \/ PruneSessions \/ SuspendTenant \/ PurgeUsed \/ Tick \/ UNCHANGED vars
  <2>1. PICK ts \in SUBSET Tokens, ss \in SUBSET Sessions :
          /\ Good' = Good \ ts /\ Owed' = Owed \ ts
          /\ Closed' = Closed \cup ss /\ Home' = Home
    BY <1>1, OrdinarySteps, OrdinaryWithdraws
  <2>2. Lineage!Withdraw(ts, ss)
    BY <2>1 DEF Lineage!Withdraw, Home, Good, Owed, Closed
  <2>3. QED
    BY <2>2 DEF Lineage!LineageNext
<1>2. ASSUME NEW r \in Requests,
             LoginSession(r) \/ LoginBind(r) \/ Reply(r) \/ RefreshRotate(r)
      PROVE  UNCHANGED <<Home, Good, Owed, Closed>>
  <2>1. token' = token
    BY <1>2 DEF LoginSession, LoginBind, Reply, RefreshRotate
  <2>2. Closed' = Closed
    BY <1>2 DEF LoginSession, LoginBind, Reply, RefreshRotate, BindSession,
                Closed, TypeOK, SessionRow
  <2>3. \A q \in Requests :
          \/ req'[q] = req[q]
          \/ /\ req[q].pc \notin {"record", "mint"}
             /\ req'[q].pc \notin {"record", "mint"}
    BY <1>2 DEF LoginSession, LoginBind, Reply, RefreshRotate, Start, Goto,
                Finish, Idle, TypeOK, RequestRow
  <2>4. Owed' = Owed
    BY <2>3 DEF Owed
  <2>5. QED
    BY <2>1, <2>2, <2>4 DEF Home, Good, Live
<1>3. ASSUME NEW r \in Requests, LoginToken(r) PROVE Lineage!LineageNext
  <2>1. PICK t \in Tokens : /\ CreateToken(t, req[r].sess, t, NoToken,
                                          session[req[r].sess].expires)
                            /\ Minted(r, "bind", t)
    BY <1>3 DEF LoginToken
  <2>2. /\ req[r].pc = "login" /\ req[r].sess \in Sessions
        /\ token[t].sess = NoSession /\ session' = session
        /\ \A u \in Tokens : token[u].sess # req[r].sess
    BY <1>3, <2>1
    DEF LoginToken, CreateToken, RequestInv, RowsInv, RotationInv
  <2>3. Home' = [Home EXCEPT ![t] = req[r].sess] /\ Good' = Good \cup {t}
    BY <2>1 DEF CreateToken, Home, Good, Live, TypeOK
  <2>4. Owed' = Owed
    <3>1. \A q \in Requests :
            \/ req'[q] = req[q]
            \/ /\ req[q].pc \notin {"record", "mint"}
               /\ req'[q].pc \notin {"record", "mint"}
      BY <2>1, <2>2 DEF Minted, TypeOK, RequestRow
    <3>2. QED
      BY <3>1 DEF Owed
  <2>5. Lineage!Open(req[r].sess, t)
    BY <2>2, <2>3, <2>4
    DEF Lineage!Open, Lineage!Fresh, Home, Good, Owed, Closed
  <2>6. QED
    BY <2>2, <2>5 DEF Lineage!LineageNext
<1>4. ASSUME NEW r \in Requests, RefreshClaim(r)
      PROVE  Lineage!LineageNext \/ UNCHANGED <<Home, Good, Owed, Closed>>
  <2>1. /\ req[r].pc = "claim" /\ req[r].tok \in Tokens
        /\ session' = session
    BY <1>4 DEF RefreshClaim, RequestInv, HoldsToken, TypeOK
  <2>2. CASE Claimable(r, req[r].tok)
    <3>1. RevokeTokens({req[r].tok}) /\ Goto(r, "record") /\ Live(req[r].tok)
      BY <1>4, <2>2 DEF RefreshClaim, Claimable
    <3>2. Home' = Home /\ Good' = Good \ {req[r].tok}
      BY <2>1, <3>1 DEF RevokeTokens, Home, Good, Live, TypeOK, TokenRow
    <3>3. /\ req'[r].pc = "record" /\ req'[r].tok = req[r].tok
          /\ \A q \in Requests : q # r => req'[q] = req[q]
      BY <3>1 DEF Goto, TypeOK, RequestRow
    <3>4. Owed' = Owed \cup {req[r].tok}
      BY <2>1, <3>3 DEF Owed
    <3>5. PICK u \in Tokens : u = req[r].tok
      BY <2>1
    <3>6. Lineage!Exchange(u)
      BY <3>5, <2>1, <3>1, <3>2, <3>4
      DEF Lineage!Exchange, Home, Good, Owed, Closed
    <3>7. QED
      BY <3>6 DEF Lineage!LineageNext
  <2>3. CASE ~Claimable(r, req[r].tok)
    <3>1. token' = token /\ Goto(r, "miss")
      BY <1>4, <2>3 DEF RefreshClaim
    <3>2. \A q \in Requests :
            \/ req'[q] = req[q]
            \/ /\ req[q].pc \notin {"record", "mint"}
               /\ req'[q].pc \notin {"record", "mint"}
      BY <2>1, <3>1 DEF Goto, TypeOK, RequestRow
    <3>3. Owed' = Owed
      BY <3>2 DEF Owed
    <3>4. QED
      BY <2>1, <3>1, <3>3 DEF Home, Good, Live, Closed
  <2>4. QED
    BY <2>2, <2>3
<1>5. ASSUME NEW r \in Requests, RefreshMint(r) PROVE Lineage!LineageNext
  <2>1. PICK t \in Tokens :
          /\ CreateToken(t, req[r].sess, token[req[r].tok].family, req[r].tok,
                         NewExpiry)
          /\ Minted(r, "rotate", t)
    BY <1>5 DEF RefreshMint
  <2>2. /\ req[r].pc = "mint" /\ req[r].tok \in Tokens
        /\ token[req[r].tok].sess = req[r].sess
        /\ token[t].sess = NoSession /\ session' = session
    BY <1>5, <2>1
    DEF RefreshMint, CreateToken, RequestInv, RowsInv, HoldsToken, TypeOK
  <2>3. /\ Home' = [Home EXCEPT ![t] = Home[req[r].tok]]
        /\ Good' = Good \cup {t}
    BY <2>1, <2>2 DEF CreateToken, Home, Good, Live, TypeOK
  <2>4. /\ req'[r].pc = "rotate"
        /\ \A q \in Requests : q # r => req'[q] = req[q]
    BY <2>1 DEF Minted, TypeOK, RequestRow
  <2>5. \A q \in Requests :
          (q # r /\ req[q].pc \in {"record", "mint"}) => req[q].tok # req[r].tok
    BY <2>2 DEF RequestInv, RotationInv, Rotating
  <2>6. Owed' = Owed \ {req[r].tok} /\ req[r].tok \in Owed
    BY <2>2, <2>4, <2>5 DEF Owed
  <2>7. PICK u \in Tokens : u = req[r].tok
    BY <2>2
  <2>8. Lineage!Renew(u, t)
    BY <2>7, <2>2, <2>3, <2>6
    DEF Lineage!Renew, Lineage!Fresh, Home, Good, Owed, Closed
  <2>9. QED
    BY <2>8 DEF Lineage!LineageNext
<1>6. QED
  BY <1>m, <1>1, <1>2, <1>3, <1>4, <1>5, StepCases

(* refreshTokens, handleTokenReuse, the revocations and the cleaner,        *)
(* interleaved and interrupted in any way, implement single-use tokens with *)
(* one heir each.                                                           *)
THEOREM Refinement == Spec => ImplementsLineage
<1>1. Init => Lineage!LineageInit
  <2> SUFFICES ASSUME Init PROVE Lineage!LineageInit
    OBVIOUS
  <2>1. \A r \in Requests : req[r].pc = "idle"
    BY DEF Init, Idle
  <2>2. QED
    BY <2>1 DEF Init, Lineage!LineageInit, Live
<1>2. QED
  BY <1>1, StepRefines, Invariance, PTL
  DEF Spec, ImplementsLineage, Lineage!LineageSpec

(* The tables keep the promise of the abstract specification: with the      *)
(* exchanges that are still to produce an heir counted in, no session is    *)
(* ever worth two tokens.                                                   *)
THEOREM OneClaimInService == Spec => []Lineage!OneClaimPerSession
<1>1. ASSUME IInv PROVE Lineage!OneClaimPerSession
  <2> USE <1>1 DEF IInv
  <2>1. \A t \in Owed : /\ t \in Tokens /\ token[t].state = "revoked"
                        /\ ~Live(t)
    BY DEF Owed, RequestInv, Live
  <2>2. Good \cap Owed = {}
    BY <2>1 DEF Good
  <2>3. ASSUME NEW t \in Good, NEW u \in Good, token[t].sess = token[u].sess
        PROVE  t = u
    BY <2>3 DEF Good, OneLiveTokenPerSession
  <2>4. ASSUME NEW t \in Owed, NEW u \in Good, token[t].sess = token[u].sess
        PROVE  FALSE
    <3>1. PICK r \in Requests : req[r].pc \in {"record", "mint"} /\ req[r].tok = t
      BY DEF Owed
    <3>2. token[u].sess = req[r].sess /\ Live(u) /\ u \in Tokens
      BY <2>4, <3>1 DEF RequestInv, Good
    <3>3. QED
      BY <3>1, <3>2 DEF RotationInv
  <2>5. ASSUME NEW t \in Owed, NEW u \in Owed, token[t].sess = token[u].sess
        PROVE  t = u
    <3>1. PICK r \in Requests : req[r].pc \in {"record", "mint"} /\ req[r].tok = t
      BY DEF Owed
    <3>2. PICK q \in Requests : req[q].pc \in {"record", "mint"} /\ req[q].tok = u
      BY DEF Owed
    <3>3. req[r].sess = req[q].sess
      BY <2>5, <3>1, <3>2 DEF RequestInv
    <3>4. r = q
      BY <3>1, <3>2, <3>3 DEF RotationInv, Rotating
    <3>5. QED
      BY <3>1, <3>2, <3>4
  <2>6. \A t, u \in Good \cup Owed : Home[t] = Home[u] => t = u
    <3>1. \A t \in Good \cup Owed : Home[t] = token[t].sess
      BY <2>1 DEF Home, Good
    <3>2. QED
      BY <2>3, <2>4, <2>5, <3>1
  <2>7. QED
    BY <2>2, <2>6 DEF Lineage!OneClaimPerSession, Home, Good, Owed
<1>2. QED
  BY <1>1, Invariance, PTL

-----------------------------------------------------------------------------
(* TokenLineage by itself: its two promises, for all behaviours of the      *)
(* abstract state.  Every definition is the abstract module's own.          *)

VARIABLES home, good, owed, closed   \* the abstract state

Promise == INSTANCE TokenLineage

(* Every step keeps LineageInv: only a token never made is given a home.    *)
LEMMA LineageStep ==
  ASSUME Promise!LineageInv, [Promise!LineageNext]_(Promise!lineageVars)
  PROVE  Promise!LineageInv'
<1> USE NullAssumption
    DEF Promise!LineageInv, Promise!LineageTypeOK, Promise!OneClaimPerSession,
        Promise!Fresh
<1>1. ASSUME NEW s \in Sessions, NEW t \in Tokens, Promise!Open(s, t)
      PROVE  Promise!LineageInv'
  BY <1>1 DEF Promise!Open
<1>2. ASSUME NEW t \in Tokens, Promise!Exchange(t)
      PROVE  Promise!LineageInv'
  BY <1>2 DEF Promise!Exchange
<1>3. ASSUME NEW t \in Tokens, NEW heir \in Tokens, Promise!Renew(t, heir)
      PROVE  Promise!LineageInv'
  BY <1>3 DEF Promise!Renew
<1>4. ASSUME NEW ts \in SUBSET Tokens, NEW ss \in SUBSET Sessions,
             Promise!Withdraw(ts, ss)
      PROVE  Promise!LineageInv'
  BY <1>4 DEF Promise!Withdraw
<1>5. CASE UNCHANGED Promise!lineageVars
  BY <1>5 DEF Promise!lineageVars
<1>6. QED
  BY <1>1, <1>2, <1>3, <1>4, <1>5 DEF Promise!LineageNext

(* LineageInv holds in every reachable abstract state. *)
LEMMA LineageInvariance == Promise!LineageSpec => []Promise!LineageInv
<1>1. Promise!LineageInit => Promise!LineageInv
  BY DEF Promise!LineageInit, Promise!LineageInv, Promise!LineageTypeOK,
         Promise!OneClaimPerSession
<1>2. QED
  BY <1>1, LineageStep, PTL DEF Promise!LineageSpec

(* A session is worth one token at a time, however tokens are exchanged,    *)
(* renewed and withdrawn: what refreshTokens is written to achieve.         *)
THEOREM OneClaim == Promise!LineageSpec => []Promise!OneClaimPerSession
BY LineageInvariance, PTL DEF Promise!LineageInv

(* A spent or withdrawn token stays worthless and a closed session closed.  *)
THEOREM Finality == Promise!LineageSpec => Promise!NothingReturns
<1>1. ASSUME Promise!LineageInv, [Promise!LineageNext]_(Promise!lineageVars)
      PROVE  [/\ closed \subseteq closed'
              /\ \A t \in Tokens :
                   (~Promise!Fresh(t) /\ t \notin good)
                     => t \notin good']_(Promise!lineageVars)
  BY <1>1 DEF Promise!LineageNext, Promise!Open, Promise!Exchange,
              Promise!Renew, Promise!Withdraw, Promise!Fresh,
              Promise!lineageVars, Promise!LineageInv, Promise!LineageTypeOK
<1>2. QED
  BY <1>1, LineageInvariance, PTL
  DEF Promise!LineageSpec, Promise!NothingReturns

=============================================================================
