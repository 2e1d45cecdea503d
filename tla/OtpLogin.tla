------------------------------ MODULE OtpLogin ------------------------------
(***************************************************************************)
(* One-time codes: AuthService.requestOtp, which creates tenant and user   *)
(* on the way, and AuthService.verifyOtp up to the creation of the session *)
(* (RefreshRotation takes over there).  One action is one database round   *)
(* trip; calls of both handlers interleave freely, in one process or in    *)
(* several.                                                                *)
(***************************************************************************)
EXTENDS Integers, FiniteSets

CONSTANTS
  Slugs,      \* tenant slugs that callers name
  Accounts,   \* (tenant, phone) pairs
  SlugOf,     \* the slug of an account
  Otps,       \* rows of the OTP table that may be created
  Codes,      \* six-digit codes
  Calls,      \* calls in flight at the same time
  Lifetime,   \* validity of a code (15 minutes)
  MaxTime,    \* bound of the clock
  CanAbort,   \* TRUE iff calls may die half-way
  NoOtp, NoAccount, NoCode

ASSUME SlugAssumption == SlugOf \in [Accounts -> Slugs]
ASSUME CallsAssumption == IsFiniteSet(Calls) /\ CanAbort \in BOOLEAN
ASSUME ClockAssumption == Lifetime \in Nat /\ MaxTime \in Nat
ASSUME NoneAssumption == NoOtp \notin Otps /\ NoAccount \notin Accounts
                           /\ NoCode \notin Codes

VARIABLES
  tenants,    \* the slugs that have a Tenant row
  users,      \* the accounts that have a User row
  otp,        \* the OTP table
  opened,     \* how many sessions each OTP row has opened
  call,       \* the calls in flight
  now,        \* the clock
  died        \* ghost: a call has died half-way

vars == <<tenants, users, otp, opened, call, now, died>>

Asking == {"makeTenant", "readUser", "makeUser", "makeOtp"}
Verifying == {"checkUser", "find", "consume", "open"}

OtpRow == [state: {"none", "fresh", "consumed"},
           account: Accounts \cup {NoAccount}, code: Codes \cup {NoCode},
           made: 0..MaxTime, expires: 0..(MaxTime + Lifetime)]

CallRow == [pc: {"idle"} \cup Asking \cup Verifying,
            account: Accounts \cup {NoAccount}, code: Codes \cup {NoCode},
            otp: Otps \cup {NoOtp}]

Idle == [pc |-> "idle", account |-> NoAccount, code |-> NoCode, otp |-> NoOtp]

TypeOK ==
  /\ tenants \in SUBSET Slugs
  /\ users \in SUBSET Accounts
  /\ otp \in [Otps -> OtpRow]
  /\ opened \in [Otps -> Nat]
  /\ call \in [Calls -> CallRow]
  /\ now \in 0..MaxTime
  /\ died \in BOOLEAN

Init ==
  /\ tenants = {} /\ users = {}
  /\ otp = [o \in Otps |-> [state |-> "none", account |-> NoAccount,
                            code |-> NoCode, made |-> 0, expires |-> 0]]
  /\ opened = [o \in Otps |-> 0]
  /\ call = [c \in Calls |-> Idle]
  /\ now = 0 /\ died = FALSE

Slug(c) == SlugOf[call[c].account]
Start(c, pc, a, code) ==
  call' = [call EXCEPT ![c] = [pc |-> pc, account |-> a, code |-> code,
                               otp |-> NoOtp]]
Goto(c, pc) == call' = [call EXCEPT ![c].pc = pc]
Finish(c) == call' = [call EXCEPT ![c] = Idle]

-----------------------------------------------------------------------------
(* requestOtp *)

\* Bound: a call starts only if the table will have a row for it.
Room == Cardinality({c \in Calls : call[c].pc \in Asking})
          < Cardinality({o \in Otps : otp[o].state = "none"})

RequestTenant(c) ==
  /\ call[c].pc = "idle" /\ Room
  /\ \E a \in Accounts :
       Start(c, IF SlugOf[a] \in tenants THEN "readUser" ELSE "makeTenant",
             a, NoCode)
  /\ UNCHANGED <<tenants, users, otp, opened, now, died>>

\* The slug is unique: who comes second fails with P2002.
MakeTenant(c) ==
  /\ call[c].pc = "makeTenant"
  /\ IF Slug(c) \in tenants THEN Finish(c) ELSE Goto(c, "readUser")
  /\ tenants' = tenants \cup {Slug(c)}
  /\ UNCHANGED <<users, otp, opened, now, died>>

\* Mutant: an unknown phone is refused, as verifyOtp refuses it.
RequestUserStrict(c) ==
  /\ call[c].pc = "readUser"
  /\ IF call[c].account \in users THEN Goto(c, "makeOtp") ELSE Finish(c)
  /\ UNCHANGED <<tenants, users, otp, opened, now, died>>

RequestUser(c) ==
  /\ call[c].pc = "readUser"
  /\ Goto(c, IF call[c].account \in users THEN "makeOtp" ELSE "makeUser")
  /\ UNCHANGED <<tenants, users, otp, opened, now, died>>

\* (tenantId, phone) is unique.
MakeUser(c) ==
  /\ call[c].pc = "makeUser"
  /\ IF call[c].account \in users THEN Finish(c) ELSE Goto(c, "makeOtp")
  /\ users' = users \cup {call[c].account}
  /\ UNCHANGED <<tenants, otp, opened, now, died>>

\* The code is random and may repeat one that is still valid.
MakeOtp(c) ==
  /\ call[c].pc = "makeOtp"
  /\ \E o \in Otps, code \in Codes :
       /\ otp[o].state = "none"
       /\ otp' = [otp EXCEPT ![o] =
                    [state |-> "fresh", account |-> call[c].account,
                     code |-> code, made |-> now, expires |-> now + Lifetime]]
  /\ Finish(c)
  /\ UNCHANGED <<tenants, users, opened, now, died>>

-----------------------------------------------------------------------------
(* verifyOtp *)

\* A call that names no tenant fails at once and is left out.
VerifyTenant(c) ==
  /\ call[c].pc = "idle"
  /\ \E a \in Accounts, code \in Codes :
       /\ SlugOf[a] \in tenants
       /\ Start(c, "checkUser", a, code)
  /\ UNCHANGED <<tenants, users, otp, opened, now, died>>

VerifyUser(c) ==
  /\ call[c].pc = "checkUser"
  /\ IF call[c].account \in users THEN Goto(c, "find") ELSE Finish(c)
  /\ UNCHANGED <<tenants, users, otp, opened, now, died>>

\* Mutant: consumed: false is missing from the filter.
MatchesConsumed(c, o) == /\ otp[o].state # "none"
                         /\ otp[o].account = call[c].account
                         /\ otp[o].code = call[c].code
                         /\ otp[o].expires > now

Matches(c, o) == /\ otp[o].state = "fresh"
                 /\ otp[o].account = call[c].account
                 /\ otp[o].code = call[c].code
                 /\ otp[o].expires > now

\* findFirst orderBy createdAt desc.
FindOtp(c) ==
  /\ call[c].pc = "find"
  /\ \/ \E o \in Otps :
          /\ Matches(c, o)
          /\ \A p \in Otps : Matches(c, p) => otp[p].made <= otp[o].made
          /\ call' = [call EXCEPT ![c].pc = "consume", ![c].otp = o]
     \/ (\A o \in Otps : ~Matches(c, o)) /\ Finish(c)
  /\ UNCHANGED <<tenants, users, otp, opened, now, died>>

\* The update names the row's id only: a row consumed meanwhile is consumed
\* once more.
ConsumeOtp(c) ==
  /\ call[c].pc = "consume"
  /\ otp' = [otp EXCEPT ![call[c].otp].state = "consumed"]
  /\ Goto(c, "open")
  /\ UNCHANGED <<tenants, users, opened, now, died>>

OpenSession(c) ==
  /\ call[c].pc = "open"
  /\ opened' = [opened EXCEPT ![call[c].otp] = @ + 1]
  /\ Finish(c)
  /\ UNCHANGED <<tenants, users, otp, now, died>>

-----------------------------------------------------------------------------

Tick ==
  /\ now < MaxTime
  /\ now' = now + 1
  /\ UNCHANGED <<tenants, users, otp, opened, call, died>>

Abort(c) ==
  /\ CanAbort
  /\ call[c].pc # "idle"
  /\ Finish(c)
  /\ died' = TRUE
  /\ UNCHANGED <<tenants, users, otp, opened, now>>

Continue(c) ==
  \/ MakeTenant(c) \/ RequestUser(c) \/ MakeUser(c) \/ MakeOtp(c)
  \/ VerifyUser(c) \/ FindOtp(c) \/ ConsumeOtp(c) \/ OpenSession(c)

Next == \/ \E c \in Calls : \/ RequestTenant(c) \/ VerifyTenant(c)
                            \/ Continue(c) \/ Abort(c)
        \/ Tick

Spec == Init /\ [][Next]_vars

\* A handler that has started keeps running.
FairSpec == Spec /\ \A c \in Calls : WF_vars(Continue(c))

-----------------------------------------------------------------------------
(* Properties *)

\* A verification never finds a code that has already opened a session: two
\* sessions from one code take verifications that overlap.
FoundCodeIsUnspent ==
  [][\A c \in Calls :
       (call[c].pc = "find" /\ call'[c].pc = "consume")
         => opened[call'[c].otp] = 0]_vars

\* The sessions one code has opened, and those still coming from it, are never
\* more than the calls that can be in flight at once.
OpeningsAreConcurrent ==
  \A o \in Otps :
    opened[o] + Cardinality({c \in Calls : /\ call[c].pc \in {"consume", "open"}
                                           /\ call[c].otp = o})
      <= Cardinality(Calls)

\* Of the calls that race to create a tenant or a user somebody comes through
\* and issues a code, though the losers fail, unless a call dies on its way.
ContentionServesSomebody ==
  \A a \in Accounts, c \in Calls :
    /\ (call[c].pc = "makeTenant" /\ call[c].account = a)
         ~> (died \/ \E o \in Otps : /\ otp[o].state # "none"
                                     /\ SlugOf[otp[o].account] = SlugOf[a])
    /\ (call[c].pc = "makeUser" /\ call[c].account = a)
         ~> (died \/ \E o \in Otps : otp[o].account = a)

\* While nobody dies, a tenant or user row that requestOtp created never stands
\* there without a code: one has been issued, or a call that came through the
\* contest is on its way to issue it.
RowsAreFollowedUp ==
  /\ \A d \in tenants :
       \/ died
       \/ \E o \in Otps : otp[o].state # "none" /\ SlugOf[otp[o].account] = d
       \/ \E c \in Calls : /\ call[c].pc \in {"readUser", "makeUser", "makeOtp"}
                            /\ Slug(c) = d
  /\ \A a \in users :
       \/ died
       \/ \E o \in Otps : otp[o].state # "none" /\ otp[o].account = a
       \/ \E c \in Calls : call[c].pc = "makeOtp" /\ call[c].account = a

-----------------------------------------------------------------------------
(* The invariant behind the properties; OtpLoginProofs shows it inductive   *)

SpendingInv ==
  /\ \A c \in Calls :
       /\ call[c].pc # "idle" => call[c].account \in Accounts
       /\ call[c].pc \in {"consume", "open"} => call[c].otp \in Otps
       /\ call[c].pc = "open" => otp[call[c].otp].state = "consumed"
  /\ \A o \in Otps : opened[o] > 0 => otp[o].state = "consumed"
  /\ \A c \in Calls, o \in Otps :
       (call[c].pc \in {"consume", "open"} /\ call[c].otp = o)
         => otp[o].state # "none"

=============================================================================
