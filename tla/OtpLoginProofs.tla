--------------------------- MODULE OtpLoginProofs ---------------------------
(***************************************************************************)
(* What OtpLogin's runs check for a few codes and calls holds for every    *)
(* number of them.                                                         *)
(***************************************************************************)
EXTENDS OtpLogin, FiniteSetTheorems, TLAPS

Holders(o) == {c \in Calls : call[c].pc \in {"consume", "open"} /\ call[c].otp = o}

(* Every step keeps the types.                                              *)
LEMMA TypeStep == TypeOK /\ SpendingInv /\ [Next]_vars => TypeOK'
<1> SUFFICES ASSUME TypeOK, SpendingInv, [Next]_vars PROVE TypeOK'
  OBVIOUS
<1> USE SlugAssumption, ClockAssumption, NoneAssumption
    DEF TypeOK, CallRow, OtpRow, Asking, Verifying
<1>1. ASSUME NEW c \in Calls, NEW pc \in {"idle"} \cup Asking \cup Verifying,
             Goto(c, pc)
      PROVE  call' \in [Calls -> CallRow]
  BY <1>1 DEF Goto
<1>2. ASSUME NEW c \in Calls, Finish(c) PROVE call' \in [Calls -> CallRow]
  BY <1>2 DEF Finish, Idle
<1>3. ASSUME NEW c \in Calls, NEW pc \in {"idle"} \cup Asking \cup Verifying,
             NEW a \in Accounts, NEW k \in Codes \cup {NoCode}, Start(c, pc, a, k)
      PROVE  call' \in [Calls -> CallRow]
  BY <1>3 DEF Start
<1>4. ASSUME NEW c \in Calls, RequestTenant(c) PROVE TypeOK'
  BY <1>3, <1>4 DEF RequestTenant
<1>5. ASSUME NEW c \in Calls, MakeTenant(c) PROVE TypeOK'
  <2>1. call[c].account \in Accounts
    BY <1>5 DEF MakeTenant, SpendingInv
  <2>2. Slug(c) \in Slugs
    BY <2>1 DEF Slug
  <2>3. tenants' \in SUBSET Slugs
    BY <1>5, <2>2 DEF MakeTenant
  <2>4. call' \in [Calls -> CallRow]
    BY <1>1, <1>2, <1>5 DEF MakeTenant
  <2>5. QED
    BY <1>5, <2>3, <2>4 DEF MakeTenant
<1>6. ASSUME NEW c \in Calls, RequestUser(c) PROVE TypeOK'
  BY <1>1, <1>6 DEF RequestUser
<1>7. ASSUME NEW c \in Calls, MakeUser(c) PROVE TypeOK'
  <2>1. users' \in SUBSET Accounts
    BY <1>7 DEF MakeUser, SpendingInv
  <2>2. call' \in [Calls -> CallRow]
    BY <1>1, <1>2, <1>7 DEF MakeUser
  <2>3. QED
    BY <1>7, <2>1, <2>2 DEF MakeUser
<1>8. ASSUME NEW c \in Calls, MakeOtp(c) PROVE TypeOK'
  BY <1>2, <1>8 DEF MakeOtp
<1>9. ASSUME NEW c \in Calls, VerifyTenant(c) PROVE TypeOK'
  BY <1>3, <1>9 DEF VerifyTenant
<1>10. ASSUME NEW c \in Calls, VerifyUser(c) PROVE TypeOK'
  BY <1>1, <1>2, <1>10 DEF VerifyUser
<1>11. ASSUME NEW c \in Calls, FindOtp(c) PROVE TypeOK'
  BY <1>2, <1>11 DEF FindOtp
<1>12. ASSUME NEW c \in Calls, ConsumeOtp(c) PROVE TypeOK'
  <2>1. call[c].otp \in Otps
    BY <1>12 DEF ConsumeOtp, SpendingInv
  <2>2. otp' \in [Otps -> OtpRow]
    BY <1>12, <2>1 DEF ConsumeOtp
  <2>3. call' \in [Calls -> CallRow]
    BY <1>1, <1>12 DEF ConsumeOtp
  <2>4. QED
    BY <1>12, <2>2, <2>3 DEF ConsumeOtp
<1>13. ASSUME NEW c \in Calls, OpenSession(c) PROVE TypeOK'
  <2>1. opened' \in [Otps -> Nat]
    BY <1>13 DEF OpenSession, SpendingInv
  <2>2. call' \in [Calls -> CallRow]
    BY <1>2, <1>13 DEF OpenSession
  <2>3. QED
    BY <1>13, <2>1, <2>2 DEF OpenSession
<1>14. ASSUME NEW c \in Calls, Abort(c) PROVE TypeOK'
  BY <1>2, <1>14 DEF Abort
<1>15. CASE Tick
  BY <1>15 DEF Tick
<1>16. CASE UNCHANGED vars
  BY <1>16 DEF vars
<1>17. QED
  BY <1>4, <1>5, <1>6, <1>7, <1>8, <1>9, <1>10, <1>11, <1>12, <1>13, <1>14,
     <1>15, <1>16 DEF Next, Continue

(* A code that opened a session, or is about to, is marked consumed.        *)
LEMMA SpendingStep ==
  TypeOK /\ SpendingInv /\ [Next]_vars => SpendingInv'
<1> SUFFICES ASSUME TypeOK, SpendingInv, [Next]_vars PROVE SpendingInv'
  OBVIOUS
<1> USE NoneAssumption DEF SpendingInv
<1>t. /\ \A o \in Otps : opened[o] \in Nat
      /\ call \in [Calls -> CallRow] /\ otp \in [Otps -> OtpRow]
      /\ opened \in [Otps -> Nat]
  BY DEF TypeOK
<1>1. ASSUME NEW c \in Calls,
             \/ MakeTenant(c) \/ RequestUser(c) \/ MakeUser(c)
             \/ VerifyUser(c) \/ Abort(c)
      PROVE  SpendingInv'
  <2>1. /\ otp' = otp /\ opened' = opened
        /\ call[c].pc # "idle"
        /\ \/ call' = [call EXCEPT ![c] = Idle]
           \/ \E pc \in {"readUser", "makeOtp", "makeUser", "find"} :
                call' = [call EXCEPT ![c].pc = pc]
    BY <1>1 DEF MakeTenant, RequestUser, MakeUser, VerifyUser, Abort, Goto, Finish
  <2>2. QED
    BY <2>1, <1>t DEF Idle, CallRow
<1>2. ASSUME NEW c \in Calls, RequestTenant(c) \/ VerifyTenant(c)
      PROVE  SpendingInv'
  <2>1. /\ otp' = otp /\ opened' = opened
        /\ \E a \in Accounts, k \in Codes \cup {NoCode},
              pc \in {"readUser", "makeTenant", "checkUser"} :
             call' = [call EXCEPT ![c] = [pc |-> pc, account |-> a, code |-> k,
                                          otp |-> NoOtp]]
    BY <1>2 DEF RequestTenant, VerifyTenant, Start
  <2>2. QED
    BY <2>1, <1>t DEF CallRow
<1>3. ASSUME NEW c \in Calls, MakeOtp(c) PROVE SpendingInv'
  <2>1. PICK o \in Otps, k \in Codes :
          /\ otp[o].state = "none"
          /\ otp' = [otp EXCEPT ![o] =
                       [state |-> "fresh", account |-> call[c].account,
                        code |-> k, made |-> now, expires |-> now + Lifetime]]
    BY <1>3 DEF MakeOtp
  <2>2. /\ opened' = opened /\ call' = [call EXCEPT ![c] = Idle]
    BY <1>3 DEF MakeOtp, Finish
  <2>3. \A p \in Otps : p # o => otp'[p] = otp[p]
    BY <2>1, <1>t
  <2>4. otp'[o].state = "fresh"
    BY <2>1, <1>t
  <2>5. \A p \in Otps : opened'[p] > 0 => otp'[p].state = "consumed"
    BY <2>1, <2>2, <2>3
  <2>6. \A d \in Calls : call'[d] = call[d] \/ call'[d] = Idle
    BY <2>2, <1>t
  <2>7. QED
    BY <2>1, <2>3, <2>4, <2>5, <2>6 DEF Idle
<1>4. ASSUME NEW c \in Calls, FindOtp(c) PROVE SpendingInv'
  <2>1. /\ otp' = otp /\ opened' = opened /\ call[c].pc = "find"
        /\ \/ call' = [call EXCEPT ![c] = Idle]
           \/ \E o \in Otps :
                /\ otp[o].state = "fresh"
                /\ call' = [call EXCEPT ![c].pc = "consume", ![c].otp = o]
    BY <1>4 DEF FindOtp, Finish, Matches
  <2>2. QED
    BY <2>1, <1>t DEF Idle, CallRow
<1>5. ASSUME NEW c \in Calls, ConsumeOtp(c) PROVE SpendingInv'
  <2>1. /\ call[c].pc = "consume" /\ call[c].otp \in Otps
        /\ otp' = [otp EXCEPT ![call[c].otp].state = "consumed"]
        /\ opened' = opened /\ call' = [call EXCEPT ![c].pc = "open"]
    BY <1>5 DEF ConsumeOtp, Goto
  <2>2. \A p \in Otps : otp'[p].state \in {otp[p].state, "consumed"}
    BY <2>1, <1>t DEF OtpRow
  <2>3. otp'[call[c].otp].state = "consumed"
    BY <2>1, <1>t DEF OtpRow
  <2>4. /\ call'[c].otp = call[c].otp /\ call'[c].account = call[c].account
        /\ \A d \in Calls : d # c => call'[d] = call[d]
    BY <2>1, <1>t DEF CallRow
  <2>5. QED
    BY <2>1, <2>2, <2>3, <2>4
<1>6. ASSUME NEW c \in Calls, OpenSession(c) PROVE SpendingInv'
  <2>1. /\ call[c].pc = "open" /\ call[c].otp \in Otps
        /\ opened' = [opened EXCEPT ![call[c].otp] = @ + 1]
        /\ otp' = otp /\ call' = [call EXCEPT ![c] = Idle]
    BY <1>6 DEF OpenSession, Finish
  <2>2. \A d \in Calls : call'[d] = call[d] \/ call'[d] = Idle
    BY <2>1, <1>t
  <2>3. QED
    BY <2>1, <2>2, <1>t DEF Idle
<1>7. CASE Tick \/ UNCHANGED vars
  BY <1>7 DEF Tick, vars
<1>8. QED
  BY <1>1, <1>2, <1>3, <1>4, <1>5, <1>6, <1>7 DEF Next, Continue

(* SpendingInv holds in every reachable state. *)
LEMMA SpendingInvariance == Spec => [](TypeOK /\ SpendingInv)
<1>1. Init => TypeOK /\ SpendingInv
  <2>1. Init => TypeOK
    <3> SUFFICES ASSUME Init PROVE TypeOK
      OBVIOUS
    <3>1. tenants \in SUBSET Slugs /\ users \in SUBSET Accounts
      BY DEF Init
    <3>2. otp \in [Otps -> OtpRow] /\ opened \in [Otps -> Nat]
      BY ClockAssumption DEF Init, OtpRow
    <3>3. call \in [Calls -> CallRow] /\ now \in 0..MaxTime
      BY ClockAssumption DEF Init, CallRow, Idle
    <3>4. died \in BOOLEAN
      BY DEF Init
    <3>5. QED
      BY <3>1, <3>2, <3>3, <3>4 DEF TypeOK
  <2>2. Init => SpendingInv
    BY DEF Init, SpendingInv, Idle
  <2>3. QED
    BY <2>1, <2>2
<1>2. QED
  BY <1>1, TypeStep, SpendingStep, PTL DEF Spec

(* The tables and the calls in flight keep their types.                     *)
THEOREM OtpTypeCorrect == Spec => []TypeOK
BY SpendingInvariance, PTL

(* However many verifications run at once, the code a verification finds    *)
(* has not opened a session yet: findFirst filters on consumed, and the     *)
(* session is created only after the row is marked.                         *)
THEOREM FoundUnspent == Spec => FoundCodeIsUnspent
<1>1. ASSUME TypeOK, SpendingInv, [Next]_vars
      PROVE  [\A c \in Calls :
                (call[c].pc = "find" /\ call'[c].pc = "consume")
                  => opened[call'[c].otp] = 0]_vars
  <2>1. SUFFICES ASSUME Next, NEW c \in Calls, call[c].pc = "find",
                        call'[c].pc = "consume"
                 PROVE  opened[call'[c].otp] = 0
    BY <1>1
  <2>2. FindOtp(c)
    <3>1. ASSUME NEW d \in Calls, d # c,
                 \/ RequestTenant(d) \/ VerifyTenant(d)
                 \/ Continue(d) \/ Abort(d)
          PROVE  call'[c] = call[c]
      BY <1>1, <3>1
      DEF TypeOK, Continue, Abort, RequestTenant, VerifyTenant, MakeTenant,
          RequestUser, MakeUser, MakeOtp, VerifyUser, FindOtp, ConsumeOtp,
          OpenSession, Start, Goto, Finish
    <3>2. call'[c] # call[c]
      BY <2>1
    <3>3. ~Tick
      BY <3>2 DEF Tick
    <3>4. RequestTenant(c) \/ VerifyTenant(c) \/ Continue(c) \/ Abort(c)
      BY <2>1, <3>1, <3>2, <3>3 DEF Next
    <3>5. /\ ~RequestTenant(c) /\ ~VerifyTenant(c) /\ ~Abort(c)
          /\ ~MakeTenant(c) /\ ~RequestUser(c) /\ ~MakeUser(c) /\ ~MakeOtp(c)
          /\ ~VerifyUser(c) /\ ~ConsumeOtp(c) /\ ~OpenSession(c)
      BY <1>1, <2>1
      DEF TypeOK, Abort, RequestTenant, VerifyTenant, MakeTenant, RequestUser,
          MakeUser, MakeOtp, VerifyUser, ConsumeOtp, OpenSession, Finish, Idle
    <3>6. QED
      BY <3>4, <3>5 DEF Continue
  <2>3. PICK o \in Otps :
          /\ otp[o].state = "fresh"
          /\ call' = [call EXCEPT ![c].pc = "consume", ![c].otp = o]
    BY <1>1, <2>1, <2>2 DEF FindOtp, Finish, Matches, Idle, TypeOK
  <2>4. call'[c].otp = o /\ opened[o] \in Nat
    BY <1>1, <2>3 DEF TypeOK, CallRow
  <2>5. QED
    BY <1>1, <2>3, <2>4 DEF SpendingInv
<1>2. QED
  BY <1>1, SpendingInvariance, PTL DEF Spec, FoundCodeIsUnspent

(* Spending is bounded by concurrency.  An unspent code has opened nothing, *)
(* so when a call finds it only calls in flight stand behind its count; a   *)
(* call that opens a session gives up its own place.                        *)
LEMMA HoldersStep ==
  TypeOK /\ SpendingInv /\ OpeningsAreConcurrent /\ [Next]_vars
    => OpeningsAreConcurrent'
<1> SUFFICES ASSUME TypeOK, SpendingInv, OpeningsAreConcurrent, [Next]_vars,
                    NEW o \in Otps
             PROVE  opened'[o] + Cardinality(Holders(o)') <= Cardinality(Calls)
  BY DEF OpeningsAreConcurrent, Holders
<1>t. /\ opened[o] \in Nat /\ Cardinality(Calls) \in Nat
      /\ call \in [Calls -> CallRow] /\ opened \in [Otps -> Nat]
      /\ opened[o] + Cardinality(Holders(o)) <= Cardinality(Calls)
  BY CallsAssumption, FS_CardinalityType
  DEF TypeOK, OpeningsAreConcurrent, Holders
<1>f. /\ IsFiniteSet(Holders(o)) /\ IsFiniteSet(Holders(o)')
      /\ Cardinality(Holders(o)) \in Nat /\ Cardinality(Holders(o)') \in Nat
  <2>1. Holders(o) \subseteq Calls /\ Holders(o)' \subseteq Calls
    BY DEF Holders
  <2>2. QED
    BY <2>1, CallsAssumption, FS_Subset, FS_CardinalityType
\* The steps that leave the count of openings alone and free a place, or none.
<1>1. ASSUME opened' = opened, Holders(o)' \subseteq Holders(o)
      PROVE  opened'[o] + Cardinality(Holders(o)') <= Cardinality(Calls)
  <2>1. Cardinality(Holders(o)') <= Cardinality(Holders(o))
    BY <1>1, <1>f, FS_Subset
  <2>2. QED
    BY <1>1, <1>t, <1>f, <2>1
<1>2. ASSUME NEW c \in Calls,
             \/ RequestTenant(c) \/ VerifyTenant(c) \/ MakeTenant(c)
             \/ RequestUser(c) \/ MakeUser(c) \/ MakeOtp(c) \/ VerifyUser(c)
             \/ Abort(c) \/ ConsumeOtp(c)
      PROVE  opened' = opened /\ Holders(o)' \subseteq Holders(o)
  <2>1. /\ opened' = opened
        /\ \A d \in Calls : d # c => call'[d] = call[d]
    BY <1>2, <1>t
    DEF RequestTenant, VerifyTenant, MakeTenant, RequestUser, MakeUser, MakeOtp,
        VerifyUser, Abort, ConsumeOtp, Start, Goto, Finish
  <2>2. \/ call'[c].pc \notin {"consume", "open"}
        \/ call[c].pc = "consume" /\ call'[c].otp = call[c].otp
    BY <1>2, <1>t
    DEF RequestTenant, VerifyTenant, MakeTenant, RequestUser, MakeUser, MakeOtp,
        VerifyUser, Abort, ConsumeOtp, Start, Goto, Finish, Idle, CallRow
  <2>3. QED
    BY <2>1, <2>2 DEF Holders
<1>3. ASSUME NEW c \in Calls, FindOtp(c)
      PROVE  opened'[o] + Cardinality(Holders(o)') <= Cardinality(Calls)
  <2>1. opened' = opened /\ \A d \in Calls : d # c => call'[d] = call[d]
    BY <1>3, <1>t DEF FindOtp, Finish
  <2>2. CASE otp[o].state = "fresh"
    <3>1. opened[o] = 0
      BY <1>t, <2>2 DEF SpendingInv
    <3>2. Cardinality(Holders(o)') <= Cardinality(Calls)
      BY CallsAssumption, FS_Subset DEF Holders
    <3>3. QED
      BY <2>1, <3>1, <3>2, <1>f
  <2>3. CASE otp[o].state # "fresh"
    <3>1. call'[c].pc \notin {"consume", "open"} \/ call'[c].otp # o
      BY <1>3, <1>t, <2>3 DEF FindOtp, Matches, Finish, Idle, CallRow
    <3>2. Holders(o)' \subseteq Holders(o)
      BY <2>1, <3>1 DEF Holders
    <3>3. QED
      BY <1>1, <2>1, <3>2
  <2>4. QED
    BY <2>2, <2>3
<1>4. ASSUME NEW c \in Calls, OpenSession(c)
      PROVE  opened'[o] + Cardinality(Holders(o)') <= Cardinality(Calls)
  <2>1. /\ opened' = [opened EXCEPT ![call[c].otp] = @ + 1]
        /\ call[c].pc = "open" /\ call[c].otp \in Otps
        /\ call'[c] = Idle /\ \A d \in Calls : d # c => call'[d] = call[d]
    BY <1>4, <1>t DEF OpenSession, Finish, SpendingInv
  <2>2. Holders(o)' = Holders(o) \ {c}
    BY <2>1 DEF Holders, Idle
  <2>3. CASE call[c].otp = o
    <3>1. c \in Holders(o) /\ opened'[o] = opened[o] + 1
      BY <2>1, <2>3, <1>t DEF Holders
    <3>2. Cardinality(Holders(o)') = Cardinality(Holders(o)) - 1
      BY <2>2, <3>1, <1>f, FS_RemoveElement
    <3>3. QED
      BY <1>t, <1>f, <3>1, <3>2
  <2>4. CASE call[c].otp # o
    <3>1. opened'[o] = opened[o]
      BY <2>1, <2>4, <1>t
    <3>2. Cardinality(Holders(o)') <= Cardinality(Holders(o))
      BY <2>2, <1>f, FS_Subset
    <3>3. QED
      BY <1>t, <1>f, <3>1, <3>2
  <2>5. QED
    BY <2>3, <2>4
<1>5. CASE Tick \/ UNCHANGED vars
  BY <1>1, <1>5 DEF Tick, vars, Holders
<1>6. QED
  BY <1>1, <1>2, <1>3, <1>4, <1>5 DEF Next, Continue

(* Whatever the number of codes and calls, the sessions one code opens are  *)
(* never more than the calls that can be in flight at the same time.        *)
THEOREM OpeningsBounded == Spec => []OpeningsAreConcurrent
<1>1. Init => OpeningsAreConcurrent
  <2>1. SUFFICES ASSUME Init, NEW o \in Otps
                 PROVE  opened[o] + Cardinality(Holders(o)) <= Cardinality(Calls)
    BY DEF OpeningsAreConcurrent, Holders
  <2>2. opened[o] = 0 /\ Holders(o) = {}
    BY <2>1 DEF Init, Holders, Idle
  <2>3. Cardinality(Holders(o)) = 0 /\ Cardinality(Calls) \in Nat
    BY <2>2, CallsAssumption, FS_EmptySet, FS_CardinalityType
  <2>4. QED
    BY <2>2, <2>3
<1>2. QED
  BY <1>1, HoldersStep, SpendingInvariance, PTL DEF Spec

(* Who comes through the contest for a row goes on to issue a code: the     *)
(* losers fail, but never the call that created the row, nor one that found *)
(* it, and a code that was issued stays.                                    *)
LEMMA FollowedStep ==
  ASSUME TypeOK, SpendingInv, RowsAreFollowedUp, [Next]_vars
  PROVE  RowsAreFollowedUp'
<1> DEFINE Coming(d) ==
             \E c \in Calls : /\ call[c].pc \in {"readUser", "makeUser", "makeOtp"}
                             /\ Slug(c) = d
           Issuing(a) == \E c \in Calls : call[c].pc = "makeOtp" /\ call[c].account = a
           IssuedFor(a) == \E o \in Otps : otp[o].state # "none" /\ otp[o].account = a
           IssuedIn(d) == \E o \in Otps : otp[o].state # "none"
                                          /\ SlugOf[otp[o].account] = d
           InTenant(d) == died \/ IssuedIn(d) \/ Coming(d)
           ForUser(a) == died \/ IssuedFor(a) \/ Issuing(a)
<1>k. /\ \A d \in tenants : InTenant(d)
      /\ \A a \in users : ForUser(a)
      /\ (\A d \in tenants' : InTenant(d)') /\ (\A a \in users' : ForUser(a)')
           => RowsAreFollowedUp'
  BY DEF RowsAreFollowedUp
<1>t. /\ call \in [Calls -> CallRow] /\ otp \in [Otps -> OtpRow]
      /\ tenants \in SUBSET Slugs /\ users \in SUBSET Accounts
      /\ died \in BOOLEAN
  BY DEF TypeOK
\* A code or a call under way for a user is one in the user's tenant.
<1>u. \A a : ForUser(a) => InTenant(SlugOf[a])
  BY DEF Slug
<1>v. ASSUME died' PROVE RowsAreFollowedUp'
  BY <1>k, <1>v
<1> HIDE DEF InTenant, ForUser
\* Steps of calls that follow up nothing, to where nothing is followed up.
<1>o. ASSUME NEW c \in Calls, tenants' = tenants, users' = users, died' = died,
             \A o \in Otps : otp[o].state # "none" =>
               otp'[o].state # "none" /\ otp'[o].account = otp[o].account,
             call[c].pc \notin {"readUser", "makeUser", "makeOtp"},
             \A b \in Calls : b # c => call'[b] = call[b]
      PROVE  RowsAreFollowedUp'
  <2>1. \A d \in tenants : InTenant(d)'
    BY <1>k, <1>o DEF InTenant, Slug
  <2>2. \A a \in users : ForUser(a)'
    BY <1>k, <1>o DEF ForUser
  <2>3. QED
    BY <1>k, <1>o, <2>1, <2>2
<1>1. ASSUME NEW c \in Calls,
             RequestTenant(c) \/ VerifyTenant(c) \/ VerifyUser(c) \/ FindOtp(c)
               \/ OpenSession(c)
      PROVE  RowsAreFollowedUp'
  <2>1. /\ tenants' = tenants /\ users' = users /\ died' = died /\ otp' = otp
        /\ call[c].pc \notin {"readUser", "makeUser", "makeOtp"}
        /\ \A b \in Calls : b # c => call'[b] = call[b]
    BY <1>1, <1>t DEF RequestTenant, VerifyTenant, VerifyUser, FindOtp, OpenSession,
                      Start, Goto, Finish
  <2>2. QED
    BY <2>1, <1>o
<1>2. ASSUME NEW c \in Calls, ConsumeOtp(c) PROVE RowsAreFollowedUp'
  <2>1. /\ tenants' = tenants /\ users' = users /\ died' = died
        /\ call[c].pc \notin {"readUser", "makeUser", "makeOtp"}
        /\ \A b \in Calls : b # c => call'[b] = call[b]
        /\ otp' = [otp EXCEPT ![call[c].otp].state = "consumed"]
    BY <1>2, <1>t DEF ConsumeOtp, Goto
  <2>2. \A o \in Otps : otp'[o].account = otp[o].account
                       /\ otp'[o].state \in {otp[o].state, "consumed"}
    BY <2>1, <1>t DEF OtpRow
  <2>3. \A o \in Otps : otp[o].state # "none" =>
          otp'[o].state # "none" /\ otp'[o].account = otp[o].account
    BY <2>2
  <2>4. QED
    BY <2>1, <2>3, <1>o
\* The winner of the contest for a tenant goes on, the loser leaves it to him.
<1>3. ASSUME NEW c \in Calls, MakeTenant(c) PROVE RowsAreFollowedUp'
  <2>1. /\ users' = users /\ died' = died /\ otp' = otp
        /\ tenants' = tenants \cup {Slug(c)} /\ call[c].pc = "makeTenant"
        /\ \A b \in Calls : b # c => call'[b] = call[b]
    BY <1>3, <1>t DEF MakeTenant, Goto, Finish
  <2>2. \A d \in tenants : InTenant(d)'
    BY <1>k, <2>1 DEF InTenant, Slug
  <2>3. \A a \in users : ForUser(a)'
    BY <1>k, <2>1 DEF ForUser
  <2>4. PICK d : d = Slug(c)
    OBVIOUS
  <2>5. InTenant(d)'
    <3>1. CASE d \in tenants
      BY <2>2, <3>1
    <3>2. CASE d \notin tenants
      <4>1. call'[c].pc = "readUser" /\ call'[c].account = call[c].account
        BY <1>3, <1>t, <2>4, <3>2 DEF MakeTenant, Goto, CallRow
      <4>2. QED
        BY <4>1, <2>4 DEF InTenant, Slug
    <3>3. QED
      BY <3>1, <3>2
  <2>6. QED
    BY <1>k, <2>1, <2>2, <2>3, <2>4, <2>5
<1>4. ASSUME NEW c \in Calls, RequestUser(c) PROVE RowsAreFollowedUp'
  <2>1. /\ tenants' = tenants /\ users' = users /\ died' = died /\ otp' = otp
        /\ call[c].pc = "readUser" /\ call'[c].account = call[c].account
        /\ call'[c].pc \in {"makeOtp", "makeUser"}
        /\ \A b \in Calls : b # c => call'[b] = call[b]
    BY <1>4, <1>t DEF RequestUser, Goto, CallRow
  <2>2. \A d \in tenants : InTenant(d)'
    BY <1>k, <2>1 DEF InTenant, Slug
  <2>3. \A a \in users : ForUser(a)'
    BY <1>k, <2>1 DEF ForUser
  <2>4. QED
    BY <1>k, <2>1, <2>2, <2>3
\* Who loses the contest for a user leaves the tenant, too, to the winner.
<1>5. ASSUME NEW c \in Calls, MakeUser(c) PROVE RowsAreFollowedUp'
  <2>1. /\ tenants' = tenants /\ died' = died /\ otp' = otp
        /\ users' = users \cup {call[c].account} /\ call[c].pc = "makeUser"
        /\ \A b \in Calls : b # c => call'[b] = call[b]
    BY <1>5, <1>t DEF MakeUser, Goto, Finish
  <2>2. \A a \in users : ForUser(a)'
    BY <1>k, <2>1 DEF ForUser
  <2>3. PICK u : u = call[c].account
    OBVIOUS
  <2>4. ForUser(u)'
    <3>1. CASE u \in users
      BY <2>2, <3>1
    <3>2. CASE u \notin users
      <4>1. call'[c].pc = "makeOtp" /\ call'[c].account = u
        BY <1>5, <1>t, <2>3, <3>2 DEF MakeUser, Goto, CallRow
      <4>2. QED
        BY <4>1 DEF ForUser
    <3>3. QED
      BY <3>1, <3>2
  <2>5. InTenant(SlugOf[u])'
    BY <1>u, <2>4 DEF InTenant, ForUser, Slug
  <2>6. ASSUME NEW d \in tenants PROVE InTenant(d)'
    <3>1. CASE SlugOf[u] = d
      BY <2>5, <3>1
    <3>2. CASE SlugOf[u] # d
      BY <1>k, <2>1, <2>3, <2>6, <3>2 DEF InTenant, Slug
    <3>3. QED
      BY <3>1, <3>2
  <2>7. QED
    BY <1>k, <2>1, <2>2, <2>3, <2>4, <2>6
<1>6. ASSUME NEW c \in Calls, MakeOtp(c) PROVE RowsAreFollowedUp'
  <2>1. PICK o \in Otps, k \in Codes :
          /\ otp[o].state = "none"
          /\ otp' = [otp EXCEPT ![o] =
                       [state |-> "fresh", account |-> call[c].account,
                        code |-> k, made |-> now, expires |-> now + Lifetime]]
    BY <1>6 DEF MakeOtp
  <2>2. /\ tenants' = tenants /\ users' = users /\ died' = died
        /\ \A b \in Calls : b # c => call'[b] = call[b]
    BY <1>6, <1>t DEF MakeOtp, Finish
  <2>3. /\ otp'[o].state # "none" /\ otp'[o].account = call[c].account
        /\ \A p \in Otps : p # o => otp'[p] = otp[p]
    BY <2>1, <1>t
  <2>4. ASSUME NEW d \in tenants PROVE InTenant(d)'
    <3>1. CASE Slug(c) = d
      BY <2>3, <3>1 DEF InTenant, Slug
    <3>2. CASE Slug(c) # d
      BY <1>k, <2>1, <2>2, <2>3, <2>4, <3>2 DEF InTenant, Slug
    <3>3. QED
      BY <3>1, <3>2
  <2>5. ASSUME NEW a \in users PROVE ForUser(a)'
    <3>1. CASE call[c].account = a
      BY <2>3, <3>1 DEF ForUser
    <3>2. CASE call[c].account # a
      BY <1>k, <2>1, <2>2, <2>3, <2>5, <3>2 DEF ForUser
    <3>3. QED
      BY <3>1, <3>2
  <2>6. QED
    BY <1>k, <2>2, <2>4, <2>5
<1>7. ASSUME NEW c \in Calls, Abort(c) PROVE RowsAreFollowedUp'
  BY <1>7, <1>v DEF Abort
<1>8. CASE Tick \/ UNCHANGED vars
  <2>1. /\ tenants' = tenants /\ users' = users /\ died' = died /\ otp' = otp
        /\ call' = call
    BY <1>8 DEF Tick, vars
  <2>2. QED
    BY <1>k, <2>1 DEF InTenant, ForUser, Slug
<1>9. QED
  BY <1>1, <1>2, <1>3, <1>4, <1>5, <1>6, <1>7, <1>8 DEF Next, Continue

(* However calls of requestOtp race to create the rows of a tenant and its  *)
(* users, no row is left behind without a code and without a call that will *)
(* issue one, unless a call died.  This is the safety part of               *)
(* ContentionServesSomebody; what is left to fairness is that a call which  *)
(* has begun goes on.                                                       *)
THEOREM Followed == Spec => []RowsAreFollowedUp
<1>1. Init => RowsAreFollowedUp
  BY DEF Init, RowsAreFollowedUp
<1>2. QED
  BY <1>1, SpendingInvariance, FollowedStep, PTL DEF Spec

=============================================================================
