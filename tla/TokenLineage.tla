---------------------------- MODULE TokenLineage ----------------------------
(***************************************************************************)
(* What the auth service promises about refresh tokens, with no request,   *)
(* clock, table or cookie in sight.  A session is opened with one token.   *)
(* A good token can be exchanged; the exchange spends it and entitles its  *)
(* session to one heir, which may or may not come.  Tokens, entitlements   *)
(* and whole sessions can be withdrawn at any time and never come back.    *)
(***************************************************************************)
CONSTANTS Sessions, Tokens, NoSession

VARIABLES
  home,    \* the session each token was made for
  good,    \* the tokens that can be exchanged
  owed,    \* the spent tokens whose heir is still to come
  closed   \* the sessions that are over

lineageVars == <<home, good, owed, closed>>

Fresh(t) == home[t] = NoSession

LineageInit ==
  /\ home = [t \in Tokens |-> NoSession]
  /\ good = {} /\ owed = {} /\ closed = {}

Open(s, t) ==
  /\ Fresh(t)
  /\ \A u \in Tokens : home[u] # s
  /\ home' = [home EXCEPT ![t] = s]
  /\ good' = good \cup {t}
  /\ UNCHANGED <<owed, closed>>

Exchange(t) ==
  /\ t \in good
  /\ good' = good \ {t}
  /\ owed' = owed \cup {t}
  /\ UNCHANGED <<home, closed>>

Renew(t, heir) ==
  /\ t \in owed
  /\ Fresh(heir)
  /\ home' = [home EXCEPT ![heir] = home[t]]
  /\ good' = good \cup {heir}
  /\ owed' = owed \ {t}
  /\ UNCHANGED closed

Withdraw(ts, ss) ==
  /\ good' = good \ ts
  /\ owed' = owed \ ts
  /\ closed' = closed \cup ss
  /\ UNCHANGED home

LineageNext ==
  \/ \E s \in Sessions, t \in Tokens : Open(s, t)
  \/ \E t \in Tokens : Exchange(t)
  \/ \E t, heir \in Tokens : Renew(t, heir)
  \/ \E ts \in SUBSET Tokens, ss \in SUBSET Sessions : Withdraw(ts, ss)

LineageSpec == LineageInit /\ [][LineageNext]_lineageVars

-----------------------------------------------------------------------------
(* Properties *)

LineageTypeOK ==
  /\ home \in [Tokens -> Sessions \cup {NoSession}]
  /\ good \in SUBSET Tokens /\ owed \in SUBSET Tokens
  /\ closed \in SUBSET Sessions

\* A session is worth one token at a time: one that can be exchanged, or one
\* that was exchanged and is still owed its heir, never two of either kind.
OneClaimPerSession ==
  /\ good \cap owed = {}
  /\ \A t, u \in good \cup owed : home[t] = home[u] => t = u

\* What a session loses it loses for good: a token once made that cannot be
\* exchanged never can be again, and a session that is over stays over.
NothingReturns ==
  [][/\ closed \subseteq closed'
     /\ \A t \in Tokens : (~Fresh(t) /\ t \notin good) => t \notin good']_lineageVars

\* Tokens that were never made are worth nothing; OneClaimPerSession needs it
\* to survive Open and Renew.
LineageInv ==
  /\ LineageTypeOK /\ OneClaimPerSession
  /\ \A t \in good \cup owed : home[t] \in Sessions

=============================================================================
