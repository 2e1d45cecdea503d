---------------------------- MODULE AccessProofs ----------------------------
(***************************************************************************)
(* What a request is granted, refused and recorded, for every endpoint,    *)
(* whatever changes around it and however often.  The argument has two     *)
(* halves: what the stages before a service are, read off the endpoints,   *)
(* and what a stage leaves behind it, which is the inductive invariant.    *)
(***************************************************************************)
EXTENDS Access, SequenceTheorems, TLAPS

-----------------------------------------------------------------------------
(* The endpoints *)

Lists       == {Session, Scoped, Tenanted, Monitor, Admin, Within, Member, Both}
RoleLists   == {Scoped, Tenanted, Monitor, Admin, Within, Both}
TenantLists == {Session, Scoped, Tenanted, Monitor, Within, Member, Both}

\* The endpoints that name no role, and those whose body looks at the address.
AnyRole == {"TenantsFindOne", "TenantsStats", "EventsRecent", "EventsByType",
            "EventsByUser", "TenantEventsRecent", "TenantEventsSecurity",
            "TenantEventsCount", "ProtectedMe",
            "ProtectedTrail", "ProtectedExport", "ProtectedStatus",
            "ProtectedVerify"}
AddressInBody ==
  {"TenantsFindAll", "TenantsCreate", "TenantsFindOne", "TenantsUpdate",
   "TenantsRemove", "TenantsStats", "TenantsActivate", "AdminFindAllUsers",
   "AdminUpdateUserRole", "AdminAuditEvents", "AdminRoleAnalytics",
   "AdminUserStats", "AdminBulkRoles", "AdminRoleDetails"}

Has(guards, g) == \E j \in 1..Len(guards) : guards[j] = g
IPFirst(body)  == \A i \in 1..Len(body) : body[i].kind = "service"
                    => \E j \in 1..(i - 1) : body[j].kind = "ip"

(* Where each list of guards has which guard.                               *)
LEMMA Places ==
  /\ Len(Session) = 7 /\ Session[1] = "jwt" /\ Session[2] = "sessionIp"
  /\ Session[6] = "tenant" /\ Session[7] = "isolation"
  /\ Len(Scoped) = 4 /\ Scoped[1] = "jwt" /\ Scoped[2] = "roles"
  /\ Scoped[3] = "tenant" /\ Scoped[4] = "isolation"
  /\ Len(Tenanted) = 5 /\ Tenanted[1] = "jwt" /\ Tenanted[2] = "roles"
  /\ Tenanted[3] = "tenant" /\ Tenanted[4] = "isolation"
  /\ Len(Monitor) = 4 /\ Monitor[1] = "jwt" /\ Monitor[4] = "roles"
  /\ Monitor[2] = "tenant" /\ Monitor[3] = "isolation"
  /\ Len(Within) = 5 /\ Within[1] = "jwt" /\ Within[2] = "roles"
  /\ Within[4] = "tenant" /\ Within[5] = "isolation"
  /\ Len(Both) = 8 /\ Both[1] = "jwt" /\ Both[2] = "roles"
  /\ Both[6] = "tenant" /\ Both[7] = "isolation"
  /\ Len(Member) = 3 /\ Member[1] = "jwt" /\ Member[2] = "tenant"
  /\ Member[3] = "isolation"
  /\ Len(Admin) = 3 /\ Admin[1] = "jwt" /\ Admin[2] = "roles"
BY DEF Session, Scoped, Tenanted, Monitor, Admin, Within, Member, Both

LEMMA GuardsPresent ==
  /\ \A L \in Lists : Len(L) \in Nat /\ Has(L, "jwt")
  /\ \A L \in RoleLists : Has(L, "roles")
  /\ \A L \in TenantLists : Has(L, "tenant") /\ Has(L, "isolation")
  /\ Has(Session, "sessionIp")
<1>1. \A L \in Lists : Len(L) \in Nat
  BY Places DEF Lists
<1>2. \A L \in Lists : Has(L, "jwt")
  BY Places DEF Lists, Has
<1>3. \A L \in RoleLists : Has(L, "roles")
  <2>1. Has(Scoped, "roles") /\ Has(Tenanted, "roles") /\ Has(Monitor, "roles")
    BY Places DEF Has
  <2>2. Has(Admin, "roles") /\ Has(Within, "roles") /\ Has(Both, "roles")
    BY Places DEF Has
  <2>3. QED
    BY <2>1, <2>2 DEF RoleLists
<1>4. /\ Has(Session, "tenant") /\ Has(Scoped, "tenant") /\ Has(Tenanted, "tenant")
      /\ Has(Monitor, "tenant") /\ Has(Within, "tenant") /\ Has(Both, "tenant")
      /\ Has(Member, "tenant")
  <2>1. Has(Session, "tenant")
    BY Places DEF Has
  <2>2. Has(Scoped, "tenant") /\ Has(Tenanted, "tenant") /\ Has(Monitor, "tenant")
    BY Places DEF Has
  <2>3. Has(Within, "tenant") /\ Has(Both, "tenant") /\ Has(Member, "tenant")
    BY Places DEF Has
  <2>4. QED
    BY <2>1, <2>2, <2>3
<1>5. /\ Has(Session, "isolation") /\ Has(Scoped, "isolation")
      /\ Has(Tenanted, "isolation") /\ Has(Monitor, "isolation")
      /\ Has(Within, "isolation") /\ Has(Both, "isolation")
      /\ Has(Member, "isolation")
  BY Places DEF Has
<1>6. Has(Session, "sessionIp")
  BY Places DEF Has
<1>7. QED
  BY <1>1, <1>2, <1>3, <1>4, <1>5, <1>6 DEF TenantLists

(* Every endpoint has one of these lists, one with a role unless it is open *)
(* to any or no guard of it reads the role, one with a tenant unless it works across tenants, and one with   *)
(* the address unless it does not look at it or its body does.              *)
LEMMA Families ==
  ASSUME NEW e \in Endpoints
  PROVE  /\ EndpointOf[e].guards \in Lists
         /\ EndpointOf[e].guards \in RoleLists \/ e \in AnyRole \cup RoleUnread
         /\ EndpointOf[e].guards \in TenantLists \/ e \in AcrossTenants
         /\ \/ EndpointOf[e].guards = Session \/ e \in AnyAddress
            \/ e \in AddressInBody
<1> USE DEF Endpoint, Slug, Loose, Bots, Address, Protected, TenantEvents,
     TenantsFindAll, TenantsCreate, TenantsFindOne, TenantsUpdate,
     TenantsRemove, TenantsStats, TenantsActivate, AdminFindAllUsers,
     AdminUpdateUserRole, AdminAuditEvents, AdminRoleAnalytics,
     AdminUserStats, AdminBulkRoles, AdminRoleDetails, RatesProfile,
     RatesUpdate, RatesUsage, RatesProfiles, RatesActivate, ReputationGet,
     ReputationBlock, ReputationUnblock, ReputationAllow, ReputationDisallow,
     ReputationQuery, ReputationReset, ReputationThreats, EventsRecent,
     EventsByType, EventsByUser, TenantEventsRecent, TenantEventsSecurity,
     TenantEventsCount, TenantEventsVerify, ProtectedMe, ProtectedTrail,
     ProtectedExport, ProtectedStatus, ProtectedVerify, BotsAnalyze,
     BotsStats, BotsRecent, BotsChallenge, BotsConfig, DevicesAnalyze,
     DevicesStats, SecurityStatus,
     Endpoints, EndpointOf
<1>1. EndpointOf[e].guards \in Lists
  BY DEF Lists
<1>2. EndpointOf[e].guards \in RoleLists \/ e \in AnyRole \cup RoleUnread
  BY DEF RoleLists, AnyRole, RoleUnread
<1>3. EndpointOf[e].guards \in TenantLists \/ e \in AcrossTenants
  BY DEF TenantLists, AcrossTenants
<1>4. \/ EndpointOf[e].guards = Session \/ e \in AnyAddress
      \/ e \in AddressInBody
  BY DEF AnyAddress, AddressInBody
<1>5. QED
  BY <1>1, <1>2, <1>3, <1>4

(* The endpoints open to any role name none.                                *)
LEMMA AnyRoleIsNone ==
  ASSUME NEW e \in AnyRole
  PROVE  EndpointOf[e].roles = {}
BY DEF EndpointOf, AnyRole, Endpoint, Slug, Loose, Protected, TenantEvents,
       TenantsFindOne, TenantsStats, EventsRecent, EventsByType, EventsByUser,
       TenantEventsRecent, TenantEventsSecurity, TenantEventsCount, ProtectedMe, ProtectedTrail, ProtectedExport,
       ProtectedStatus, ProtectedVerify

(* The bodies are lists of a definite length.                               *)
LEMMA BodyLengths ==
  ASSUME NEW e \in Endpoints
  PROVE  Len(EndpointOf[e].body) \in Nat
<1> USE DEF Endpoint, Slug, Loose, Bots, Address, Protected, TenantEvents,
     Guard, IP, Input, Log, Service, Commits, Never, Pipe, Audit
<1>1. CASE e \in {"TenantsFindAll", "TenantsCreate", "TenantsFindOne",
               "TenantsUpdate", "TenantsRemove", "TenantsStats",
               "TenantsActivate"}
  BY <1>1 DEF EndpointOf,
     TenantsFindAll, TenantsCreate, TenantsFindOne, TenantsUpdate,
     TenantsRemove, TenantsStats, TenantsActivate
<1>2. CASE e \in {"AdminFindAllUsers", "AdminUpdateUserRole",
               "AdminAuditEvents", "AdminRoleAnalytics", "AdminUserStats",
               "AdminBulkRoles", "AdminRoleDetails"}
  BY <1>2 DEF EndpointOf,
     AdminFindAllUsers, AdminUpdateUserRole, AdminAuditEvents,
     AdminRoleAnalytics, AdminUserStats, AdminBulkRoles, AdminRoleDetails
<1>3. CASE e \in {"RatesProfile", "RatesUpdate", "RatesUsage", "RatesProfiles",
               "RatesActivate"}
  BY <1>3 DEF EndpointOf,
     RatesProfile, RatesUpdate, RatesUsage, RatesProfiles, RatesActivate
<1>4. CASE e \in {"ReputationGet", "ReputationBlock", "ReputationUnblock",
               "ReputationAllow", "ReputationDisallow", "ReputationQuery",
               "ReputationReset", "ReputationThreats"}
  BY <1>4 DEF EndpointOf,
     ReputationGet, ReputationBlock, ReputationUnblock, ReputationAllow,
     ReputationDisallow, ReputationQuery, ReputationReset, ReputationThreats
<1>5. CASE e \in {"EventsRecent", "EventsByType", "EventsByUser"}
  BY <1>5 DEF EndpointOf,
     EventsRecent, EventsByType, EventsByUser
<1>6. CASE e \in {"TenantEventsRecent", "TenantEventsSecurity",
               "TenantEventsCount", "TenantEventsVerify"}
  BY <1>6 DEF EndpointOf,
     TenantEventsRecent, TenantEventsSecurity, TenantEventsCount,
     TenantEventsVerify
<1>7. CASE e \in {"ProtectedMe", "ProtectedTrail", "ProtectedExport",
               "ProtectedStatus", "ProtectedVerify"}
  BY <1>7 DEF EndpointOf,
     ProtectedMe, ProtectedTrail, ProtectedExport, ProtectedStatus,
     ProtectedVerify
<1>8. CASE e \in {"BotsAnalyze", "BotsStats", "BotsRecent", "BotsChallenge",
               "BotsConfig"}
  BY <1>8 DEF EndpointOf,
     BotsAnalyze, BotsStats, BotsRecent, BotsChallenge, BotsConfig
<1>9. CASE e \in {"DevicesAnalyze", "DevicesStats"}
  BY <1>9 DEF EndpointOf,
     DevicesAnalyze, DevicesStats
<1>10. CASE e \in {"SecurityStatus"}
  BY <1>10 DEF EndpointOf,
     SecurityStatus
<1>11. QED
  BY <1>1, <1>2, <1>3, <1>4, <1>5, <1>6, <1>7, <1>8, <1>9, <1>10
  DEF Endpoints, EndpointOf

(* In the bodies that look at the address they do it before the service.    *)
LEMMA AddressFirst ==
  ASSUME NEW e \in AddressInBody
  PROVE  IPFirst(EndpointOf[e].body)
<1> USE DEF Endpoint, Slug, Loose, IPFirst,
     Guard, IP, Input, Log, Service, Commits, Never, Pipe, Audit
<1>1. \A E \in {TenantsFindAll, TenantsCreate, TenantsFindOne} : IPFirst(E.body)
  BY DEF TenantsFindAll, TenantsCreate, TenantsFindOne
<1>2. \A E \in {TenantsUpdate, TenantsRemove} : IPFirst(E.body)
  BY DEF TenantsUpdate, TenantsRemove
<1>3. \A E \in {TenantsStats, TenantsActivate} : IPFirst(E.body)
  BY DEF TenantsStats, TenantsActivate
<1>4. \A E \in {AdminFindAllUsers, AdminUpdateUserRole, AdminAuditEvents} :
        IPFirst(E.body)
  BY DEF AdminFindAllUsers, AdminUpdateUserRole, AdminAuditEvents
<1>5. \A E \in {AdminRoleAnalytics, AdminUserStats} : IPFirst(E.body)
  BY DEF AdminRoleAnalytics, AdminUserStats
<1>6. \A E \in {AdminBulkRoles, AdminRoleDetails} : IPFirst(E.body)
  BY DEF AdminBulkRoles, AdminRoleDetails
<1> HIDE DEF Endpoint, Slug, Loose, IPFirst,
     Guard, IP, Input, Log, Service, Commits, Never, Pipe, Audit
<1>7. QED
  BY <1>1, <1>2, <1>3, <1>4, <1>5, <1>6 DEF EndpointOf, AddressInBody

(* A service that commits its event has no other.                           *)
LEMMA ServiceRecords ==
  ASSUME NEW e \in DOMAIN Recorded,
         NEW i \in 1..Len(EndpointOf[e].body),
         EndpointOf[e].body[i].kind = "service"
  PROVE  EndpointOf[e].body[i].event = Recorded[e] /\ Recorded[e] # "none"
<1> USE DEF Recorded, EndpointOf, Endpoint, Slug, Loose,
     Guard, IP, Input, Log, Service, Commits, Never, Pipe, Audit
<1>1. CASE e = "TenantsCreate"
  BY <1>1 DEF TenantsCreate
<1>2. CASE e = "TenantsUpdate"
  BY <1>2 DEF TenantsUpdate
<1>3. CASE e = "TenantsRemove"
  BY <1>3 DEF TenantsRemove
<1>4. CASE e = "TenantsActivate"
  BY <1>4 DEF TenantsActivate
<1>5. QED
  BY <1>1, <1>2, <1>3, <1>4

(* No guard is a service.                                                   *)
LEMMA GuardsServeNothing ==
  ASSUME NEW L \in Lists, NEW i \in 1..Len(L)
  PROVE  L[i] # "service"
<1>1. \A j \in 1..Len(Session) : Session[j] # "service"
  BY DEF Session
<1>2. \A j \in 1..Len(Scoped) : Scoped[j] # "service"
  BY DEF Scoped
<1>3. \A j \in 1..Len(Tenanted) : Tenanted[j] # "service"
  BY DEF Tenanted
<1>4. \A j \in 1..Len(Monitor) : Monitor[j] # "service"
  BY DEF Monitor
<1>5. \A j \in 1..Len(Admin) : Admin[j] # "service"
  BY DEF Admin
<1>6. \A j \in 1..Len(Within) : Within[j] # "service"
  BY DEF Within
<1>7. \A j \in 1..Len(Member) : Member[j] # "service"
  BY DEF Member
<1>8. \A j \in 1..Len(Both) : Both[j] # "service"
  BY DEF Both
<1>9. QED
  BY <1>1, <1>2, <1>3, <1>4, <1>5, <1>6, <1>7, <1>8 DEF Lists

-----------------------------------------------------------------------------
(* The inductive invariant *)

\* What is true of the world now has been seen to be true, and the rest false.
WorldNoted == True(world) \subseteq held /\ Facts \ True(world) \subseteq missed

\* A stage that is behind the request has left its fact.
ChecksHeld ==
  \A i \in 1..Length : i < stage =>
    LET kind == Stage(i).kind IN
    /\ kind = "jwt" => "session" \in held
    /\ kind = "roles" => "role" \in held
    /\ kind \in {"ip", "sessionIp"} => "address" \in held
    /\ kind = "tenant" => ExtractTenantSlug \in {"own", "other"}
    /\ kind = "isolation" => (names \in {"own", "other"} => "tenant" \in held)

\* What is served was served at a stage, whose event is on the trail.
ServedAt ==
  served => \E i \in 1..Length :
    /\ i < stage /\ Stage(i).kind = "service"
    /\ Stage(i).event # "none" => Contains(trail, Stage(i).event)

\* The last word on a refusal by a guard.
LastWord == answer = "refused" /\ cause \in GuardCauses
              => lost \/ (trail # <<>> /\ Last(trail) \in Refusals)

IInv == /\ TypeOK /\ WorldNoted /\ ChecksHeld /\ ServedAt
        /\ RefusalsAreJustified /\ LastWord

-----------------------------------------------------------------------------
(* Steps *)

(* An endpoint is as long as its guards and its body.                       *)
LEMMA Lengths ==
  ASSUME ep \in Endpoints
  PROVE  \E m, n \in Nat : /\ m = Len(This.guards) /\ n = Len(This.body)
                            /\ Length = m + n
<1>1. PICK m \in Nat : m = Len(EndpointOf[ep].guards)
  BY Families, GuardsPresent
<1>2. PICK n \in Nat : n = Len(EndpointOf[ep].body)
  BY BodyLengths
<1>3. QED
  BY <1>1, <1>2 DEF This, Length

\* What a stage that passes has seen of the world.
Sees(kind) ==
  /\ kind = "jwt" => ~world.revoked
  /\ kind = "roles" => world.roles \cap This.roles # {}
  /\ kind \in {"ip", "sessionIp"} => ~world.blocked
  /\ kind = "tenant" => ExtractTenantSlug \in {"own", "other"}
  /\ kind = "isolation" => names = "own" \/ world.system

\* A stage passes, or one refuses.
Onward == \E new \in Seq(EventTypes) :
  /\ answer = "pending" /\ stage <= Length /\ Sees(Stage(stage).kind)
  /\ Pass /\ trail' = trail \o new /\ lost' \in BOOLEAN
  /\ \/ UNCHANGED served
     \/ served' = TRUE /\ Stage(stage).kind = "service" /\ new = Event

\* A refusal ends the request, for a fault and with a word that fit its cause.
Ends(why) ==
  /\ answer' = "refused" /\ cause' = why
  /\ UNCHANGED <<stage, served>> /\ Unchanged

Back == \E why \in Causes \ {"none"}, new \in Seq(EventTypes) :
  /\ answer = "pending" /\ Ends(why)
  /\ trail' = trail \o new /\ lost' \in BOOLEAN
  /\ why \in Facts /\ (why = "tenant" => This.key # "id") => why \notin True(world)
  /\ why \in GuardCauses => lost' \/ (new # <<>> /\ Last(new) \in Refusals)

(* The trail grows at its end: what it contains it keeps.                   *)
LEMMA TrailGrows ==
  ASSUME NEW s \in Seq(EventTypes), NEW t \in Seq(EventTypes)
  PROVE  /\ s \o t \in Seq(EventTypes)
         /\ \A x : Contains(s, x) \/ Contains(t, x) => Contains(s \o t, x)
         /\ t # <<>> => s \o t # <<>> /\ Last(s \o t) = Last(t)
<1>1. PICK m \in Nat : m = Len(s)
  BY LenProperties
<1>2. PICK n \in Nat : n = Len(t)
  BY LenProperties
<1>3. /\ s \o t \in Seq(EventTypes) /\ Len(s \o t) = m + n
      /\ \A i \in 1..(m + n) : (s \o t)[i] = IF i <= m THEN s[i] ELSE t[i - m]
  BY <1>1, <1>2, ConcatProperties
<1>4. ASSUME NEW x, Contains(s, x) PROVE Contains(s \o t, x)
  BY <1>1, <1>2, <1>3, <1>4 DEF Contains
<1>5. ASSUME NEW x, Contains(t, x) PROVE Contains(s \o t, x)
  <2>1. PICK i \in 1..n : t[i] = x
    BY <1>2, <1>5 DEF Contains
  <2>2. m + i \in 1..(m + n) /\ ~(m + i <= m) /\ (m + i) - m = i
    OBVIOUS
  <2>3. (s \o t)[m + i] = x
    BY <1>3, <2>1, <2>2
  <2>4. QED
    BY <1>3, <2>2, <2>3 DEF Contains
<1>6. ASSUME t # <<>> PROVE s \o t # <<>> /\ Last(s \o t) = Last(t)
  <2>1. n > 0
    BY <1>2, <1>6, EmptySeq
  <2>2. m + n \in 1..(m + n) /\ ~(m + n <= m) /\ (m + n) - m = n
    BY <2>1
  <2>3. (s \o t)[m + n] = t[n]
    BY <1>3, <2>2
  <2>4. s \o t # <<>>
    BY <1>3, <2>1, EmptySeq
  <2>5. QED
    BY <1>2, <1>3, <2>3, <2>4 DEF Last
<1>7. QED
  BY <1>3, <1>4, <1>5, <1>6

(* Literal events are logged events, alone or in pairs.                     *)
LEMMA Literals ==
  /\ <<>> \in Seq(EventTypes)
  /\ \A r \in Refusals : /\ <<r>> \in Seq(EventTypes) /\ <<r, r>> \in Seq(EventTypes)
                         /\ <<r>> # <<>> /\ <<r, r>> # <<>>
                         /\ Last(<<r>>) = r /\ Last(<<r, r>>) = r
  /\ <<"ROLE_ACCESS_GRANTED">> \in Seq(EventTypes)
  /\ <<"SECURITY_STATUS_CHECKED">> \in Seq(EventTypes)
  /\ \A r \in Refusals : /\ <<"SESSION_EXPIRED", r>> \in Seq(EventTypes)
                         /\ <<"SESSION_EXPIRED", r>> # <<>>
                         /\ Last(<<"SESSION_EXPIRED", r>>) = r
<1>1. /\ Refusals \subseteq EventTypes
      /\ {"ROLE_ACCESS_GRANTED", "SECURITY_STATUS_CHECKED", "SESSION_EXPIRED"}
           \subseteq EventTypes
  BY DEF EventTypes
<1>2. ASSUME NEW r \in EventTypes
      PROVE  <<r>> \in Seq(EventTypes) /\ <<r>> # <<>> /\ Last(<<r>>) = r
  BY DEF Last
<1>3. ASSUME NEW r \in EventTypes, NEW q \in EventTypes
      PROVE  <<q, r>> \in Seq(EventTypes) /\ <<q, r>> # <<>> /\ Last(<<q, r>>) = r
  BY DEF Last
<1>4. <<>> \in Seq(EventTypes)
  OBVIOUS
<1>5. QED
  BY <1>1, <1>2, <1>3, <1>4

(* Whatever is stored of a list of events goes to the end of the trail, and *)
(* unless its last is lost that is where it ends.                           *)
LEMMA Logging ==
  ASSUME TypeOK, NEW events \in Seq(EventTypes), LogEvents(events)
  PROVE  \E new \in Seq(EventTypes) :
           /\ trail' = trail \o new /\ lost' \in BOOLEAN
           /\ events # <<>> => lost' \/ (new # <<>> /\ Last(new) = Last(events))
<1>0. trail \in Seq(EventTypes) /\ lost \in BOOLEAN
  BY DEF TypeOK
<1>1. CASE events = <<>>
  <2>1. <<>> \in Seq(EventTypes) /\ trail' = trail \o <<>> /\ lost' \in BOOLEAN
    BY <1>0, <1>1 DEF LogEvents
  <2>2. QED
    BY <1>1, <2>1
<1>2. CASE events # <<>>
  <2>1. PICK first \in Kept(Front(events)), last \in Kept(<<Last(events)>>) :
          trail' = trail \o (first \o last) /\ lost' = (last = <<>>)
    BY <1>2 DEF LogEvents
  <2>2. Len(events) \in Nat \ {0}
    BY <1>2
  <2>3. Front(events) \in Seq(EventTypes) /\ Last(events) \in EventTypes
    BY <2>2 DEF Front, Last
  <2>4. first \in Seq(EventTypes) /\ last \in Seq(EventTypes)
    <3>1. <<>> \in Seq(EventTypes) /\ <<Last(events)>> \in Seq(EventTypes)
      BY <2>3
    <3>2. QED
      BY <2>1, <2>3, <3>1 DEF Kept
  <2>5. first \o last \in Seq(EventTypes) /\ lost' \in BOOLEAN
    BY <2>1, <2>4, ConcatProperties
  <2>6. ASSUME ~lost' PROVE first \o last # <<>> /\ Last(first \o last) = Last(events)
    <3>1. last = <<Last(events)>>
      BY <2>1, <2>6 DEF Kept
    <3>2. last # <<>> /\ Last(last) = Last(events)
      BY <2>3, <3>1 DEF Last
    <3>3. QED
      BY <2>4, <3>2, TrailGrows
  <2>7. QED
    BY <2>1, <2>5, <2>6
<1>3. QED
  BY <1>1, <1>2

(* A stage that goes on with a list of events goes onward, and one that     *)
(* refuses with one goes back, when the reasons fit.                        *)
LEMMA GoOnward ==
  ASSUME TypeOK, answer = "pending", stage <= Length, Sees(Stage(stage).kind),
         NEW events \in Seq(EventTypes), Go(events)
  PROVE  Onward
BY Logging DEF Go, Onward

LEMMA RefuseBack ==
  ASSUME TypeOK, answer = "pending", NEW why \in Causes \ {"none"},
         NEW events \in Seq(EventTypes), Refuse(why, events),
         why \in Facts /\ (why = "tenant" => This.key # "id") => why \notin True(world),
         why \in GuardCauses => events # <<>> /\ Last(events) \in Refusals
  PROVE  Back
<1>1. PICK new \in Seq(EventTypes) :
        /\ trail' = trail \o new /\ lost' \in BOOLEAN
        /\ events # <<>> => lost' \/ (new # <<>> /\ Last(new) = Last(events))
  BY Logging DEF Refuse
<1>2. Ends(why)
  BY DEF Refuse, Ends
<1>3. QED
  BY <1>1, <1>2 DEF Back

(* The event of a stage is one of those that are logged.                    *)
LEMMA EventTyped ==
  ASSUME TypeOK, stage <= Length
  PROVE  Event \in Seq(EventTypes)
<1>1. PICK m, n \in Nat : /\ m = Len(This.guards) /\ n = Len(This.body)
                          /\ Length = m + n
  BY Lengths DEF TypeOK
<1>2. CASE stage <= m
  BY <1>1, <1>2, Literals DEF Event, Events, Stage, Guard
<1>3. CASE ~(stage <= m)
  <2>0. stage \in 1..(Length + 1)
    BY DEF TypeOK
  <2>1. Length = m + n
    BY <1>1
  <2>4. stage - m \in 1..n
    BY <1>3, <2>0, <2>1
  <2>2. Stage(stage).event \in BodyEvents(EndpointOf[ep])
    BY <1>1, <1>3, <2>4 DEF Stage, BodyEvents, This
  <2>3. Stage(stage).event \in EventTypes
    BY <2>2 DEF EventTypes, TypeOK
  <2>5. QED
    BY <2>3 DEF Event, Events
<1>4. QED
  BY <1>2, <1>3

(* Every stage passes or refuses, and for the reasons it should.            *)
LEMMA StepIs ==
  ASSUME TypeOK, Step
  PROVE  Onward \/ Back
<1> DEFINE Fits(why, events) ==
      /\ answer = "pending" /\ why \in Causes \ {"none"} /\ events \in Seq(EventTypes)
      /\ Refuse(why, events)
      /\ why \in Facts /\ (why = "tenant" => This.key # "id") => why \notin True(world)
      /\ why \in GuardCauses => events # <<>> /\ Last(events) \in Refusals
    Goes(events) == /\ answer = "pending" /\ stage <= Length
                    /\ Sees(Stage(stage).kind)
                    /\ events \in Seq(EventTypes) /\ Go(events)
<1>a. ASSUME NEW why, NEW events, Fits(why, events) PROVE Back
  BY <1>a, RefuseBack
<1>b. ASSUME NEW events, Goes(events) PROVE Onward
  BY <1>b, GoOnward
<1> USE Literals DEF Worlds, Refusals, GuardCauses, Causes, Facts
<1>1. CASE JwtAuthGuard
  <2>1. PICK why, events : Fits(why, events) \/ Goes(events)
    BY <1>1 DEF JwtAuthGuard, At, Sees, True, Holds
  <2>2. QED
    BY <2>1, <1>a, <1>b
<1>2. CASE RolesGuard
  <2>1. PICK why, events : Fits(why, events) \/ Goes(events)
    BY <1>2 DEF RolesGuard, At, Sees, True, Holds, This
  <2>2. QED
    BY <2>1, <1>a, <1>b
<1>3. CASE CsrfGuard
  <2>1. PICK why, events : Fits(why, events) \/ Goes(events)
    BY <1>3 DEF CsrfGuard, At, Sees
  <2>2. QED
    BY <2>1, <1>a, <1>b
<1>4. CASE TenantGuardAddress
  <2>1. PICK why, events : Fits(why, events) \/ Goes(events)
    BY <1>4 DEF TenantGuardAddress, At, Sees, True, Holds, ExtractTenantSlug
  <2>2. QED
    BY <2>1, <1>a, <1>b
<1>5. CASE TenantGuardIsolation
  <2>1. PICK why, events : Fits(why, events) \/ Goes(events)
    BY <1>5 DEF TenantGuardIsolation, At, Sees, True, Holds
  <2>2. QED
    BY <2>1, <1>a, <1>b
<1>6. CASE SessionGuardIP
  <2>1. PICK why, events : Fits(why, events) \/ Goes(events)
    BY <1>6 DEF SessionGuardIP, At, Sees, True, Holds
  <2>2. QED
    BY <2>1, <1>a, <1>b
<1>7. CASE SessionGuardVerdict
  <2>1. PICK why, events : Fits(why, events) \/ Goes(events)
    BY <1>7 DEF SessionGuardVerdict, At, Sees
  <2>2. QED
    BY <2>1, <1>a, <1>b
<1>8. CASE SessionGuardRow
  <2>1. PICK why, events : Fits(why, events) \/ Goes(events)
    BY <1>8 DEF SessionGuardRow, At, Sees, True, Holds
  <2>2. QED
    BY <2>1, <1>a, <1>b
<1>9. CASE CheckIP
  <2>1. CASE world.blocked /\ Refuse("address", <<"SECURITY_CSRF_ERROR">>)
    <3>1. Fits("address", <<"SECURITY_CSRF_ERROR">>)
      BY <1>9, <2>1 DEF CheckIP, At, True, Holds
    <3>2. QED
      BY <3>1, <1>a
  <2>2. CASE Refuse("error", <<>>)
    <3>1. Fits("error", <<>>)
      BY <1>9, <2>2 DEF CheckIP, At
    <3>2. QED
      BY <3>1, <1>a
  <2>3. CASE ~world.blocked /\ Go(<<>>)
    <3>1. Goes(<<>>)
      BY <1>9, <2>3 DEF CheckIP, At, Sees
    <3>2. QED
      BY <3>1, <1>b
  <2>4. QED
    BY <1>9, <2>1, <2>2, <2>3 DEF CheckIP
<1>10. CASE Validate
  <2>1. PICK why, events : Fits(why, events) \/ Goes(events)
    BY <1>10, EventTyped DEF Validate, At, Sees
  <2>2. QED
    BY <2>1, <1>a, <1>b
<1>11. CASE Record
  <2>1. Goes(Event)
    BY <1>11, EventTyped DEF Record, At, Sees
  <2>2. QED
    BY <2>1, <1>b
<1>12. CASE RefuseAlways
  <2>1. Fits("never", Event)
    BY <1>12, EventTyped DEF RefuseAlways, At
  <2>2. QED
    BY <2>1, <1>a
<1>13. CASE CheckOwnSlug
  <2>1. Goes(<<>>)
    BY <1>13 DEF CheckOwnSlug, At, Sees
  <2>2. QED
    BY <2>1, <1>b
<1>14. CASE CheckFound
  <2>1. Fits("service", <<>>) \/ Goes(<<>>)
    BY <1>14 DEF CheckFound, At, Sees
  <2>2. QED
    BY <2>1, <1>a, <1>b
<1>15. CASE CallService
  <2>1. CASE Refuse("service", <<>>)
    <3>1. Fits("service", <<>>)
      BY <1>15, <2>1 DEF CallService, At
    <3>2. QED
      BY <3>1, <1>a
  <2>2. CASE served' = TRUE /\ Pass /\ trail' = trail \o Event /\ UNCHANGED lost
    BY <1>15, <2>2, EventTyped DEF CallService, At, Onward, Sees, TypeOK
  <2>3. QED
    BY <1>15, <2>1, <2>2 DEF CallService
<1>16. QED
  BY <1>1, <1>2, <1>3, <1>4, <1>5, <1>6, <1>7, <1>8, <1>9, <1>10, <1>11, <1>12,
     <1>13, <1>14, <1>15 DEF Step

-----------------------------------------------------------------------------
(* Invariance *)

(* In the first state nothing has passed.                                   *)
LEMMA InitIInv == ASSUME Init PROVE IInv
<1>1. PICK m, n \in Nat : Length = m + n
  BY Lengths DEF Init
<1>2. TypeOK
  <2>1. stage \in 1..(Length + 1) /\ changes \in 0..MaxChanges
    BY <1>1, ChangesAssumption DEF Init
  <2>2. trail \in Seq(EventTypes)
    BY EmptySeq DEF Init
  <2>3. held \subseteq Facts /\ missed \subseteq Facts /\ held \cup missed = Facts
    BY DEF Init, True
  <2>4. QED
    BY <2>1, <2>2, <2>3 DEF Init, TypeOK, Answers, Causes
<1>3. ChecksHeld /\ WorldNoted
  BY <1>1 DEF Init, ChecksHeld, WorldNoted
<1>4. QED
  BY <1>2, <1>3 DEF Init, IInv, ServedAt, RefusalsAreJustified, LastWord

(* A stage that passes leaves its fact.                                     *)
LEMMA OnwardKeeps == ASSUME IInv, Onward PROVE IInv'
<1>1. PICK events \in Seq(EventTypes) :
        /\ answer = "pending" /\ stage <= Length /\ Sees(Stage(stage).kind)
        /\ Pass /\ trail' = trail \o events /\ lost' \in BOOLEAN
        /\ \/ UNCHANGED served
           \/ served' = TRUE /\ Stage(stage).kind = "service" /\ events = Event
  BY DEF Onward
<1>2. PICK n \in Nat : Length = n
  BY Lengths DEF IInv, TypeOK
<1>3. /\ UNCHANGED <<ep, names, world, held, missed, changes, cause>>
      /\ stage' = stage + 1 /\ trail' = trail \o events
      /\ answer' = IF stage = Length THEN "ok" ELSE "pending"
  BY <1>1 DEF Pass, Unchanged
<1>4. This' = This /\ Length' = Length /\ ExtractTenantSlug' = ExtractTenantSlug
      /\ \A i : Stage(i)' = Stage(i)
  BY <1>3 DEF This, Length, Stage, ExtractTenantSlug
<1>5. stage \in 1..n
  BY <1>1, <1>2 DEF IInv, TypeOK
<1>6. TypeOK'
  <2>1. trail' \in Seq(EventTypes)
    BY <1>3, TrailGrows DEF IInv, TypeOK
  <2>2. stage' \in 1..(Length + 1)' /\ (answer' = "ok" => stage' = (Length + 1)')
    BY <1>2, <1>3, <1>4, <1>5
  <2>3. answer' \in Answers /\ cause' = "none" /\ answer' # "refused"
    BY <1>1, <1>3 DEF IInv, TypeOK, Answers
  <2>4. served' \in BOOLEAN /\ lost' \in BOOLEAN
    BY <1>1 DEF IInv, TypeOK
  <2>5. QED
    BY <1>3, <2>1, <2>2, <2>3, <2>4 DEF IInv, TypeOK
<1>7. WorldNoted'
  BY <1>3 DEF IInv, WorldNoted, True, Holds
<1>8. ChecksHeld'
  <2>1. SUFFICES ASSUME NEW i \in 1..n, i < stage + 1
        PROVE  LET kind == Stage(i).kind IN
               /\ kind = "jwt" => "session" \in held
               /\ kind = "roles" => "role" \in held
               /\ kind \in {"ip", "sessionIp"} => "address" \in held
               /\ kind = "tenant" => ExtractTenantSlug \in {"own", "other"}
               /\ kind = "isolation" => (names \in {"own", "other"} => "tenant" \in held)
    BY <1>2, <1>3, <1>4 DEF ChecksHeld
  <2>2. CASE i < stage
    BY <1>2, <2>1, <2>2 DEF IInv, ChecksHeld
  <2>3. CASE i = stage
    <3>1. /\ ~world.revoked => "session" \in held
          /\ ~world.blocked => "address" \in held
          /\ world.roles \cap This.roles # {} => "role" \in held
          /\ (names = "own" \/ world.system) /\ names \in {"own", "other"}
               => "tenant" \in held
      BY DEF IInv, WorldNoted, True, Holds, Facts, This
    <3>2. QED
      BY <1>1, <2>3, <3>1 DEF Sees
  <2>4. QED
    BY <1>5, <2>1, <2>2, <2>3
<1>9. ServedAt'
  <2> DEFINE Witness(i) == /\ i \in 1..Length /\ i < stage /\ Stage(i).kind = "service"
                           /\ Stage(i).event # "none" => Contains(trail, Stage(i).event)
  <2>1. ASSUME NEW i \in 1..n, i < stage + 1, Stage(i).kind = "service",
               Stage(i).event # "none" => Contains(trail \o events, Stage(i).event)
        PROVE  Witness(i)'
    BY <1>2, <1>3, <1>4, <2>1
  <2>2. trail \in Seq(EventTypes)
    BY DEF IInv, TypeOK
  <2>3. CASE served
    <3>1. PICK i \in 1..n : Witness(i)
      BY <1>2, <2>3 DEF IInv, ServedAt
    <3>2. Contains(trail, Stage(i).event) => Contains(trail \o events, Stage(i).event)
      BY <2>2, TrailGrows
    <3>3. i < stage + 1
      BY <1>5, <3>1
    <3>4. Witness(i)'
      BY <2>1, <3>1, <3>2, <3>3
    <3> HIDE DEF Witness
    <3>5. QED
      BY <3>4 DEF ServedAt, Witness
  <2>4. CASE ~served /\ served'
    <3>1. Stage(stage).kind = "service" /\ events = Event
      BY <1>1, <2>4
    <3>2. Stage(stage).event # "none" => Contains(events, Stage(stage).event)
      BY <3>1 DEF Event, Events, Contains
    <3>3. Contains(events, Stage(stage).event)
            => Contains(trail \o events, Stage(stage).event)
      BY <2>2, TrailGrows
    <3>4. stage < stage + 1
      BY <1>5
    <3>5. PICK i \in 1..n : i = stage
      BY <1>5
    <3>6. Witness(i)'
      BY <2>1, <3>1, <3>2, <3>3, <3>4, <3>5
    <3> HIDE DEF Witness
    <3>7. QED
      BY <3>6 DEF ServedAt, Witness
  <2>5. QED
    BY <2>3, <2>4 DEF ServedAt
<1>10. answer' # "refused"
  BY <1>3
<1>11. QED
  BY <1>6, <1>7, <1>8, <1>9, <1>10 DEF IInv, RefusalsAreJustified, LastWord

(* A stage that refuses ends the request, for a fault the world has.        *)
LEMMA BackKeeps == ASSUME IInv, Back PROVE IInv'
<1>1. PICK why \in Causes \ {"none"}, events \in Seq(EventTypes) :
        /\ answer = "pending" /\ Ends(why)
        /\ trail' = trail \o events /\ lost' \in BOOLEAN
        /\ why \in Facts /\ (why = "tenant" => This.key # "id") => why \notin True(world)
        /\ why \in GuardCauses => lost' \/ (events # <<>> /\ Last(events) \in Refusals)
  BY DEF Back
<1>2. /\ UNCHANGED <<ep, names, world, held, missed, changes, stage, served>>
      /\ answer' = "refused" /\ cause' = why /\ trail' = trail \o events
  BY <1>1 DEF Ends, Unchanged
<1>3. trail \in Seq(EventTypes)
  BY DEF IInv, TypeOK
<1>4. This' = This /\ Length' = Length /\ ExtractTenantSlug' = ExtractTenantSlug
      /\ \A i : Stage(i)' = Stage(i)
  BY <1>2 DEF This, Length, Stage, ExtractTenantSlug
<1>5. TypeOK'
  BY <1>1, <1>2, <1>3, <1>4, TrailGrows DEF IInv, TypeOK, Answers
<1>6. WorldNoted'
  BY <1>2 DEF IInv, WorldNoted, True, Holds
<1>7. ChecksHeld'
  BY <1>2, <1>4 DEF IInv, ChecksHeld
<1>8. ServedAt'
  BY <1>2, <1>3, <1>4, TrailGrows DEF IInv, ServedAt
<1>9. RefusalsAreJustified'
  BY <1>1, <1>2, <1>4 DEF IInv, WorldNoted, RefusalsAreJustified
<1>10. LastWord'
  BY <1>1, <1>2, <1>3, TrailGrows DEF LastWord
<1>11. QED
  BY <1>5, <1>6, <1>7, <1>8, <1>9, <1>10 DEF IInv

(* A change of the world is noted, the end of the process answers nobody.   *)
LEMMA WorldKeeps == ASSUME IInv, Change \/ Die PROVE IInv'
<1>1. /\ UNCHANGED <<ep, names, stage, cause, trail, lost, served>>
      /\ answer = "pending" /\ answer' # "refused" /\ answer' # "ok"
      /\ held \subseteq held' /\ answer' \in Answers
  BY DEF Change, Die, Unchanged, Answers
<1>2. This' = This /\ Length' = Length /\ ExtractTenantSlug' = ExtractTenantSlug
      /\ \A i : Stage(i)' = Stage(i)
  BY <1>1 DEF This, Length, Stage, ExtractTenantSlug
<1>3. TypeOK' /\ WorldNoted'
  <2>1. CASE Change
    <3>1. PICK w \in Worlds :
            /\ world' = w /\ held' = held \cup True(w)
            /\ missed' = missed \cup (Facts \ True(w))
      BY <2>1 DEF Change
    <3>2. True(w) \subseteq Facts /\ True(world)' = True(w)
      BY <1>1, <3>1 DEF True, Holds
    <3>3. changes' \in 0..MaxChanges
      BY <2>1, ChangesAssumption DEF Change, IInv, TypeOK
    <3>4. QED
      BY <1>1, <1>2, <3>1, <3>2, <3>3 DEF IInv, TypeOK, WorldNoted
  <2>2. CASE Die
    BY <1>1, <1>2, <2>2 DEF Die, Unchanged, IInv, TypeOK, WorldNoted, True, Holds
  <2>3. QED
    BY <2>1, <2>2
<1>4. ChecksHeld' /\ ServedAt'
  BY <1>1, <1>2 DEF IInv, ChecksHeld, ServedAt
<1>5. QED
  BY <1>1, <1>3, <1>4 DEF IInv, RefusalsAreJustified, LastWord

(* IInv holds in every reachable state.                                     *)
LEMMA Invariance == Spec => []IInv
<1>1. ASSUME IInv, Next PROVE IInv'
  BY <1>1, StepIs, OnwardKeeps, BackKeeps, WorldKeeps DEF Next, IInv
<1>2. ASSUME IInv, UNCHANGED vars PROVE IInv'
  BY <1>2 DEF vars, IInv, TypeOK, WorldNoted, ChecksHeld, ServedAt,
     RefusalsAreJustified, LastWord, This, Length, Stage, ExtractTenantSlug,
     True, Holds
<1>3. QED
  BY <1>1, <1>2, InitIInv, PTL DEF Spec

-----------------------------------------------------------------------------
(* Theorems *)

(* Request, world and trail keep their types.                               *)
THEOREM TypeCorrect == Spec => []TypeOK
BY Invariance, PTL DEF IInv

(* Where a request has been served, the guards that its endpoint is meant   *)
(* to have are behind it, and with them what they saw.                      *)
LEMMA ServedBehindGuards ==
  ASSUME IInv, NEW i \in 1..Length, i < stage, Stage(i).kind = "service"
  PROVE  Needs(ep) \subseteq held
<1>1. PICK m, n \in Nat : /\ m = Len(This.guards) /\ n = Len(This.body)
                          /\ Length = m + n
  BY Lengths DEF IInv, TypeOK
<1>2. /\ ep \in Endpoints /\ This = EndpointOf[ep] /\ This.guards \in Lists
  BY Families DEF IInv, TypeOK, This
<1>0. i \in 1..(m + n)
  BY <1>1
<1>3. i > m
  <2>1. SUFFICES ASSUME i <= m PROVE FALSE
    BY <1>0
  <2>2. i \in 1..Len(This.guards)
    BY <1>1, <2>1
  <2>3. This.guards[i] # "service"
    BY <1>2, <2>2, GuardsServeNothing
  <2>4. QED
    BY <1>1, <2>1, <2>3 DEF Stage, Guard
<1>4. ASSUME NEW g, Has(This.guards, g)
      PROVE  \E j \in 1..Length : j < stage /\ Stage(j).kind = g
  <2>1. PICK j \in 1..m : This.guards[j] = g
    BY <1>1, <1>4 DEF Has
  <2>2. j <= m /\ j \in 1..(m + n) /\ j < i
    BY <1>0, <1>3
  <2>3. Stage(j).kind = g
    BY <1>1, <2>1, <2>2 DEF Stage, Guard
  <2>4. j < stage
    BY <1>1, <2>2 DEF IInv, TypeOK
  <2>5. QED
    BY <1>1, <2>2, <2>3, <2>4
<1>5. "session" \in held
  BY <1>2, <1>4, GuardsPresent DEF IInv, ChecksHeld
<1>6. This.roles # {} /\ ep \notin RoleUnread => "role" \in held
  <2>1. SUFFICES ASSUME This.roles # {}, ep \notin RoleUnread PROVE "role" \in held
    OBVIOUS
  <2>2. ep \notin AnyRole \cup RoleUnread
    BY <1>2, <2>1, AnyRoleIsNone
  <2>3. Has(This.guards, "roles")
    BY <1>2, <2>2, Families, GuardsPresent
  <2>4. QED
    BY <1>4, <2>3 DEF IInv, ChecksHeld
<1>7. ep \notin AcrossTenants => "tenant" \in held
  <2>1. SUFFICES ASSUME ep \notin AcrossTenants PROVE "tenant" \in held
    OBVIOUS
  <2>2. Has(This.guards, "tenant") /\ Has(This.guards, "isolation")
    BY <1>2, <2>1, Families, GuardsPresent
  <2>3. ExtractTenantSlug \in {"own", "other"}
    BY <1>4, <2>2 DEF IInv, ChecksHeld
  <2>4. names \in {"own", "other"}
    BY <2>3 DEF ExtractTenantSlug
  <2>5. QED
    BY <1>4, <2>2, <2>4 DEF IInv, ChecksHeld
<1>8. ep \notin AnyAddress => "address" \in held
  <2>1. SUFFICES ASSUME ep \notin AnyAddress PROVE "address" \in held
    OBVIOUS
  <2>2. CASE This.guards = Session
    BY <1>4, <2>2, GuardsPresent DEF IInv, ChecksHeld
  <2>3. CASE This.guards # Session
    <3>1. IPFirst(This.body)
      BY <1>2, <2>1, <2>3, Families, AddressFirst
    <3>2. i - m \in 1..n /\ ~(i <= m)
      BY <1>0, <1>3
    <3>3. This.body[i - m].kind = "service"
      BY <1>1, <3>2 DEF Stage
    <3>4. PICK j \in 1..((i - m) - 1) : This.body[j].kind = "ip"
      BY <1>1, <3>1, <3>2, <3>3 DEF IPFirst
    <3>5. m + j \in 1..(m + n) /\ ~(m + j <= m) /\ (m + j) - m = j /\ m + j < i
      BY <1>0, <3>2
    <3>6. Stage(m + j).kind = "ip"
      BY <1>1, <3>4, <3>5 DEF Stage
    <3>7. m + j < stage
      BY <1>1, <3>2, <3>5 DEF IInv, TypeOK
    <3>8. QED
      BY <1>1, <3>5, <3>6, <3>7 DEF IInv, ChecksHeld
  <2>4. QED
    BY <2>2, <2>3
<1>9. QED
  BY <1>2, <1>5, <1>6, <1>7, <1>8 DEF Needs

(* No service works for a request that lacked what its endpoint needs.      *)
THEOREM Granted == Spec => []GrantedOnlyWithin
<1>1. IInv => GrantedOnlyWithin
  BY ServedBehindGuards DEF IInv, ServedAt, GrantedOnlyWithin
<1>2. QED
  BY <1>1, Invariance, PTL

(* Nobody is refused for a fault that was never there.                      *)
THEOREM Refused == Spec => []RefusalsAreJustified
BY Invariance, PTL DEF IInv

(* A guard's refusal is the last event, and a tenant's change has its own.  *)
THEOREM RecordKept == Spec => []OnRecord
<1>1. ASSUME IInv, served, ep \in DOMAIN Recorded
      PROVE  Contains(trail, Recorded[ep])
  <2>1. PICK i \in 1..Length : /\ i < stage /\ Stage(i).kind = "service"
                               /\ Stage(i).event # "none" => Contains(trail, Stage(i).event)
    BY <1>1 DEF IInv, ServedAt
  <2>2. PICK m, n \in Nat : /\ m = Len(This.guards) /\ n = Len(This.body)
                            /\ Length = m + n
    BY <1>1, Lengths DEF IInv, TypeOK
  <2>3. /\ ep \in Endpoints /\ This = EndpointOf[ep] /\ This.guards \in Lists
    BY <1>1, Families DEF IInv, TypeOK, This
  <2>0. i \in 1..(m + n)
    BY <2>2
  <2>4. i > m
    <3>1. SUFFICES ASSUME i <= m PROVE FALSE
      BY <2>0
    <3>2. i \in 1..Len(This.guards)
      BY <2>2, <3>1
    <3>3. This.guards[i] # "service"
      BY <2>3, <3>2, GuardsServeNothing
    <3>4. QED
      BY <2>1, <2>2, <3>1, <3>3 DEF Stage, Guard
  <2>5. i - m \in 1..n /\ ~(i <= m)
    BY <2>0, <2>4
  <2>6. Stage(i) = This.body[i - m]
    BY <2>2, <2>5 DEF Stage
  <2>7. Stage(i).event = Recorded[ep] /\ Recorded[ep] # "none"
    BY <1>1, <2>1, <2>2, <2>3, <2>5, <2>6, ServiceRecords
  <2>8. QED
    BY <2>1, <2>7
<1>2. IInv => OnRecord
  BY <1>1 DEF IInv, LastWord, OnRecord
<1>3. QED
  BY <1>2, Invariance, PTL

=============================================================================
