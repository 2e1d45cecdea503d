-------------------------------- MODULE Access -------------------------------
(***************************************************************************)
(* One authenticated request on its way through the guards and the checks  *)
(* of the endpoint it calls, while sessions are revoked, roles change and  *)
(* addresses are blocked around it.  Every guard and check reads the       *)
(* database for itself, so what one of them saw may be gone when the next  *)
(* one looks.  An endpoint is a list of stages; a stage passes or refuses. *)
(***************************************************************************)
EXTENDS Naturals, SequencesExt

CONSTANT MaxChanges   \* bound: changes of the world during one request

ASSUME ChangesAssumption == MaxChanges \in Nat

VARIABLES
  ep,       \* the endpoint called
  names,    \* whose tenant the request names
  world,    \* the session, the address and the caller's roles, as stored
  stage,    \* the next stage
  answer,   \* "pending", "ok", "refused" or "lost" with its process
  cause,    \* of a refusal
  trail,    \* the events stored on the request's behalf
  lost,     \* the last event handed to logEvent was not stored
  served,   \* the service has done what was asked
  held, missed,  \* ghost: facts that were true, or false, at some time
  changes

vars == <<ep, names, world, stage, answer, cause, trail, lost, served, held, missed,
          changes>>

Roles == {"ADMIN", "SUPER_ADMIN"}
Named == {"own", "other", "nobody", "malformed", "absent"}

-----------------------------------------------------------------------------
\* Endpoints: the guards in the order Nest runs them (class, then method),
\* the roles of the decorator, where the tenant's slug is looked for, and the
\* handler's own stages.

Guard(g)       == [kind |-> g, event |-> "none"]
IP             == Guard("ip")
Input(event)   == [kind |-> "input", event |-> event]   \* "none": not logged
Log(event)     == [kind |-> "log", event |-> event]
Service        == Guard("service")
Commits(event) == [kind |-> "service", event |-> event] \* row and event at once
Never(event)   == [kind |-> "never", event |-> event]

Session  == <<"jwt", "sessionIp", "verdict", "sessionIp", "sessionRow", "tenant",
              "isolation">>
Scoped   == <<"jwt", "roles", "tenant", "isolation">>
Tenanted == <<"jwt", "roles", "tenant", "isolation", "csrf">>
Monitor  == <<"jwt", "tenant", "isolation", "roles">>
Admin    == <<"jwt", "roles", "csrf">>
Within   == <<"jwt", "roles", "csrf", "tenant", "isolation">>
Member   == <<"jwt", "tenant", "isolation">>
Both     == <<"jwt", "roles", "csrf", "jwt", "roles", "tenant", "isolation", "csrf">>

Endpoint(guards, roles, key, body) ==
  [guards |-> guards, roles |-> roles, key |-> key, body |-> body]

Slug(guards, roles, body) == Endpoint(guards, roles, "slug", body)
Loose(guards, roles, body) == Endpoint(guards, roles, "loose", body)

Pipe  == Input("none")   \* a ValidationPipe, a ParseIntPipe, an unlogged check
Audit == Log("AUDIT_TRAIL_ACCESSED")

TenantsFindAll == Loose(Scoped, Roles,
  <<Pipe, IP, Input("TENANT_VALIDATION_ERROR"), Log("USER_LIST_ATTEMPTED"), Service,
    Log("USER_LIST_ACCESSED")>>)
TenantsCreate == Loose(Admin, {"SUPER_ADMIN"},
  <<Pipe, IP, Log("TENANT_CREATION_ATTEMPT"), Commits("TENANT_CREATED"),
    Log("CREATE_TENANT")>>)
TenantsFindOne == Slug(Member, {},
  <<IP, Input("TENANT_VALIDATION_ERROR"), Guard("ownSlug"), Service,
    Log("USER_DATA_ACCESSED")>>)
TenantsUpdate == Slug(Tenanted, Roles,
  <<Pipe, IP, Input("TENANT_VALIDATION_ERROR"), Guard("ownSlug"),
    Log("TENANT_UPDATE_ATTEMPT"), Commits("TENANT_UPDATED"), Log("UPDATE_TENANT")>>)
TenantsRemove == Slug(Tenanted, {"SUPER_ADMIN"},
  <<IP, Input("TENANT_VALIDATION_ERROR"), Commits("TENANT_SUSPENDED"),
    Log("DEACTIVATE_TENANT")>>)
TenantsStats == Slug(Member, {},
  <<IP, Input("TENANT_VALIDATION_ERROR"), Guard("ownSlug"), Service,
    Audit>>)
TenantsActivate == Slug(Tenanted, {"SUPER_ADMIN"},
  <<IP, Input("TENANT_VALIDATION_ERROR"), Commits("TENANT_ACTIVATED"),
    Log("ACTIVATE_TENANT")>>)

AdminFindAllUsers == Loose(Both, Roles,
  <<Pipe, IP, Input("ADMIN_VALIDATION_ERROR"), Service, Log("USER_LIST_ACCESSED")>>)
AdminUpdateUserRole == Loose(Within, Roles,
  <<Pipe, IP, Log("UPDATE_USER_ROLE_ATTEMPT"), Service,
    Log("role_management"), Log("UPDATE_USER_ROLE_SUCCESS")>>)
AdminAuditEvents == Loose(Within, Roles,
  <<Pipe, IP, Input("ADMIN_VALIDATION_ERROR"), Service, Audit>>)
AdminRoleAnalytics == Endpoint(Within, Roles, "id",
  <<IP, Service, Audit>>)
AdminUserStats == Endpoint(Within, Roles, "id",
  <<IP, Service, Audit>>)
AdminBulkRoles == Loose(Admin, Roles,
  <<IP, Input("ADMIN_VALIDATION_ERROR"), Service, Log("role_management"),
    Log("bulk_role_update"), Log("BULK_ROLE_UPDATE_COMPLETED")>>)
AdminRoleDetails == Loose(Admin, Roles, <<IP, Service, Log("USER_DATA_ACCESSED")>>)

RatesProfile  == Loose(Scoped, Roles,
  <<Service, Audit, Guard("found")>>)
RatesUpdate   == Loose(Scoped, Roles,
  <<Pipe, Service, Log("RATE_LIMIT_PROFILE_UPDATED"), Log("USER_PROFILE_UPDATE")>>)
RatesUsage    == Loose(Scoped, Roles, <<Service, Audit>>)
RatesProfiles == Loose(Scoped, {"SUPER_ADMIN"}, <<Service, Audit>>)
RatesActivate == Loose(Scoped, Roles, <<Log("LOGIN"), Service>>)

Address(body) == Loose(Monitor, {"ADMIN"}, body)
ReputationGet     == Address(<<Pipe, Service>>)
ReputationBlock   == Address(<<Pipe, Log("SECURITY_CSRF_ERROR"), Service>>)
ReputationUnblock == Address(<<Pipe, Service>>)
ReputationAllow   == Address(<<Pipe, Service>>)
ReputationDisallow == Address(<<Pipe, Service>>)
ReputationQuery   == Address(<<Pipe, Service>>)
ReputationReset   == Address(<<Pipe, Service, Log("INTERNAL_ERROR")>>)
ReputationThreats == Address(<<Pipe, Service>>)

EventsRecent == Loose(Session, {}, <<Pipe, Service>>)
EventsByType == Loose(Session, {}, <<Pipe, Service>>)
EventsByUser == Loose(Session, {}, <<Pipe, Service>>)

\* The decorator of TenantEventsVerify names a role; no guard of its list reads it.
TenantEvents(roles, body) == Loose(Session, roles, body)
TenantEventsRecent   == TenantEvents({}, <<Pipe, IP, Pipe, Audit, Service>>)
TenantEventsSecurity == TenantEvents({}, <<Pipe, IP, Pipe, Audit, Service>>)
TenantEventsCount    == TenantEvents({}, <<IP, Audit, Service>>)
TenantEventsVerify   == TenantEvents({"SUPER_ADMIN"}, <<IP, Audit, Service>>)

Protected(body) == Loose(Session, {}, body)
ProtectedMe     == Protected(<<IP, Log("SENSITIVE_DATA_ACCESSED"), Service>>)
ProtectedTrail  == Protected(<<IP, Never("AUDIT_TRAIL_ACCESS_ATTEMPTED")>>)
ProtectedExport == Protected(<<IP, Never("DATA_EXPORT_ATTEMPTED")>>)
ProtectedStatus == Protected(<<IP, Log("SECURITY_STATUS_CHECKED"), Service>>)
ProtectedVerify == Protected(<<IP, Log("AUTHENTICATION_VERIFIED"), Service>>)

Bots(roles, body) == Loose(Both, roles, body)
BotsAnalyze   == Bots(Roles, <<Pipe, Service, Audit>>)
BotsStats     == Bots(Roles, <<Pipe, Service, Audit>>)
BotsRecent    == Bots(Roles, <<Pipe, Service, Audit>>)
BotsChallenge == Bots({"SUPER_ADMIN"}, <<Pipe, Service, Log("LOGIN")>>)
BotsConfig    == Bots({"SUPER_ADMIN"}, <<Service, Audit>>)

DevicesAnalyze == Bots(Roles, <<Pipe, Service, Audit>>)
DevicesStats   == Bots(Roles, <<Pipe, Service, Audit>>)

SecurityStatus == Loose(Monitor, {"ADMIN"}, <<Service>>)

EndpointOf == [
  TenantsFindAll |-> TenantsFindAll, TenantsCreate |-> TenantsCreate,
  TenantsFindOne |-> TenantsFindOne, TenantsUpdate |-> TenantsUpdate,
  TenantsRemove |-> TenantsRemove, TenantsStats |-> TenantsStats,
  TenantsActivate |-> TenantsActivate,
  AdminFindAllUsers |-> AdminFindAllUsers, AdminUpdateUserRole |-> AdminUpdateUserRole,
  AdminAuditEvents |-> AdminAuditEvents, AdminRoleAnalytics |-> AdminRoleAnalytics,
  AdminUserStats |-> AdminUserStats, AdminBulkRoles |-> AdminBulkRoles,
  AdminRoleDetails |-> AdminRoleDetails,
  RatesProfile |-> RatesProfile, RatesUpdate |-> RatesUpdate,
  RatesUsage |-> RatesUsage, RatesProfiles |-> RatesProfiles,
  RatesActivate |-> RatesActivate,
  ReputationGet |-> ReputationGet, ReputationBlock |-> ReputationBlock,
  ReputationUnblock |-> ReputationUnblock, ReputationAllow |-> ReputationAllow,
  ReputationDisallow |-> ReputationDisallow, ReputationQuery |-> ReputationQuery,
  ReputationReset |-> ReputationReset, ReputationThreats |-> ReputationThreats,
  EventsRecent |-> EventsRecent, EventsByType |-> EventsByType,
  EventsByUser |-> EventsByUser,
  TenantEventsRecent |-> TenantEventsRecent, TenantEventsSecurity |-> TenantEventsSecurity,
  TenantEventsCount |-> TenantEventsCount, TenantEventsVerify |-> TenantEventsVerify,
  ProtectedMe |-> ProtectedMe, ProtectedTrail |-> ProtectedTrail,
  ProtectedExport |-> ProtectedExport, ProtectedStatus |-> ProtectedStatus,
  ProtectedVerify |-> ProtectedVerify,
  BotsAnalyze |-> BotsAnalyze, BotsStats |-> BotsStats, BotsRecent |-> BotsRecent,
  BotsChallenge |-> BotsChallenge, BotsConfig |-> BotsConfig,
  DevicesAnalyze |-> DevicesAnalyze, DevicesStats |-> DevicesStats,
  SecurityStatus |-> SecurityStatus]

Endpoints == DOMAIN EndpointOf
This == EndpointOf[ep]

-----------------------------------------------------------------------------
\* What the guards look for, as true or false of the stored world.
Facts == {"session", "address", "role", "tenant"}

Holds(f, w, e, n) ==
  CASE f = "session" -> ~w.revoked
    [] f = "address" -> ~w.blocked
    [] f = "role"    -> w.roles \cap EndpointOf[e].roles # {}
    [] f = "tenant"  -> n = "own" \/ (n = "other" /\ w.system)

True(w)  == {f \in Facts : Holds(f, w, ep, names)}
Worlds == [revoked : BOOLEAN, blocked : BOOLEAN, roles : SUBSET Roles, system : BOOLEAN]

\* An endpoint's stages: its guards, then those of its body.
Length   == Len(This.guards) + Len(This.body)
Stage(i) == IF i <= Len(This.guards) THEN Guard(This.guards[i])
            ELSE This.body[i - Len(This.guards)]

At(kind) == answer = "pending" /\ stage <= Length /\ Stage(stage).kind = kind
Events(event) == IF event = "none" THEN <<>> ELSE <<event>>
Event == Events(Stage(stage).event)

Unchanged == UNCHANGED <<ep, names, world, held, missed, changes>>

\* logEvent swallows its failures: an event may not be stored, and the caller,
\* who is not told, goes on.
Kept(events) == {events, <<>>}
LogEvents(events) ==
  IF events = <<>> THEN UNCHANGED <<trail, lost>>
  ELSE \E first \in Kept(Front(events)), last \in Kept(<<Last(events)>>) :
         trail' = trail \o (first \o last) /\ lost' = (last = <<>>)

Pass ==
  /\ stage' = stage + 1
  /\ answer' = IF stage = Length THEN "ok" ELSE "pending"
  /\ UNCHANGED cause /\ Unchanged

Refuse(why, events) ==
  /\ answer' = "refused" /\ cause' = why /\ LogEvents(events)
  /\ UNCHANGED <<stage, served>> /\ Unchanged

Go(events) == Pass /\ LogEvents(events) /\ UNCHANGED served

-----------------------------------------------------------------------------
\* JwtStrategy logs why it refuses a session, the guard logs that it did.
\* (Mutant) the guard passes on what the strategy threw without a word.
JwtAuthGuardSilent ==
  /\ At("jwt")
  /\ \/ Refuse("token", <<>>)
     \/ world.revoked /\ Refuse("session", <<>>)
     \/ ~world.revoked /\ Go(<<>>)

JwtAuthGuard ==
  /\ At("jwt")
  /\ \/ Refuse("token", <<"AUTH_JWT_FAILURE">>)
     \/ /\ world.revoked
        /\ \E why \in {"AUTH_JWT_FAILURE", "SESSION_EXPIRED"} :
             Refuse("session", <<why, "AUTH_JWT_FAILURE">>)
     \/ ~world.revoked /\ Go(<<>>)

\* (Mutant) every role of the decorator is required.
RolesGuardAll ==
  /\ At("roles")
  /\ \/ ~(This.roles \subseteq world.roles) /\ Refuse("role", <<"ROLE_ACCESS_DENIED">>)
     \/ This.roles \subseteq world.roles /\ Go(<<"ROLE_ACCESS_GRANTED">>)

\* One role of the decorator is enough.
RolesGuard ==
  /\ At("roles")
  /\ \/ world.roles \cap This.roles = {} /\ Refuse("role", <<"ROLE_ACCESS_DENIED">>)
     \/ world.roles \cap This.roles # {} /\ Go(<<"ROLE_ACCESS_GRANTED">>)

\* The session it looks at is the one the cookie or the body names, which need
\* not be the token's.
CsrfGuard ==
  /\ At("csrf")
  /\ \/ \E event \in {"SECURITY_CSRF_ERROR", "SECURITY_CSRF_MISMATCH"} :
          Refuse("csrf", <<event>>)
     \/ Go(<<>>)

\* The slug the guard looks up: an id where the route names a tenant by id.
ExtractTenantSlug == IF This.key = "id" THEN "nobody" ELSE names

TenantGuardAddress ==
  /\ At("tenant")
  /\ \/ Refuse("quota", <<"REFRESH_FAILED">>)
     \/ ExtractTenantSlug \in {"absent", "malformed"}
          /\ Refuse("slug", <<"TENANT_VALIDATION_ERROR">>)
     \/ ExtractTenantSlug = "nobody" /\ Refuse("tenant", <<"TENANT_VALIDATION_ERROR">>)
     \/ ExtractTenantSlug \in {"own", "other"} /\ Go(<<>>)

TenantGuardIsolation ==
  /\ At("isolation")
  /\ LET inside == names = "own" \/ world.system IN
     \/ ~inside /\ Refuse("tenant", <<"TENANT_MISMATCH">>)
     \/ inside /\ Go(<<>>)

\* The guard looks at the address, and so does the service it asks for the user.
SessionGuardIP ==
  /\ At("sessionIp")
  /\ \/ world.blocked /\ Refuse("address", <<"SECURITY_CSRF_ERROR">>)
     \/ ~world.blocked /\ Go(<<>>)

\* Behavioral analysis and bot detection, whose scores are not modelled here.
SessionGuardVerdict ==
  /\ At("verdict")
  /\ \/ Refuse("verdict", <<"SECURITY_CSRF_ERROR">>)
     \/ Go(<<"SECURITY_STATUS_CHECKED">>)
     \/ Go(<<>>)

SessionGuardRow ==
  /\ At("sessionRow")
  /\ \/ /\ world.revoked
        /\ \/ Refuse("session", <<"AUTHENTICATION_VERIFICATION_FAILED">>)
           \/ Refuse("session", <<"SESSION_EXPIRED", "AUTHENTICATION_VERIFICATION_FAILED">>)
     \/ ~world.revoked /\ Go(<<>>)

-----------------------------------------------------------------------------
\* The handler's own stages.
\* (Mutant) a block is recorded but not enforced.
CheckIPLogging ==
  /\ At("ip")
  /\ \/ world.blocked /\ Go(<<"SECURITY_CSRF_ERROR">>)
     \/ ~world.blocked /\ Go(<<>>)

\* For the event the bulk route counts two lists that it has not yet validated:
\* without them it throws before it logs.
CheckIP ==
  /\ At("ip")
  /\ \/ world.blocked /\ Refuse("address", <<"SECURITY_CSRF_ERROR">>)
     \/ world.blocked /\ ep = "AdminBulkRoles" /\ Refuse("error", <<>>)
     \/ ~world.blocked /\ Go(<<>>)

Validate == At("input") /\ (Refuse("input", Event) \/ Go(<<>>))

\* req.tenant is the row found under this very slug.
CheckOwnSlug == At("ownSlug") /\ Go(<<>>)

CheckFound == At("found") /\ (Refuse("service", <<>>) \/ Go(<<>>))

Record == At("log") /\ Go(Event)

RefuseAlways == At("never") /\ Refuse("never", Event)

\* The service refuses by its own state (404, 400, 403) or does its work, in one
\* transaction with its event if it has one.
CallService ==
  /\ At("service")
  /\ \/ Refuse("service", <<>>)
     \/ served' = TRUE /\ Pass /\ trail' = trail \o Event /\ UNCHANGED lost

-----------------------------------------------------------------------------
\* A logout or a suspension, a block or its end, a change of the caller's roles.
Change ==
  /\ answer = "pending" /\ changes < MaxChanges
  /\ \E w \in Worlds :
       /\ w # world /\ (world.revoked => w.revoked)
       /\ world' = w
       /\ held' = held \cup True(w)
       /\ missed' = missed \cup (Facts \ True(w))
  /\ changes' = changes + 1
  /\ UNCHANGED <<ep, names, stage, answer, cause, trail, lost, served>>

\* The process serving the request dies.
Die == /\ answer = "pending" /\ answer' = "lost"
       /\ UNCHANGED <<stage, cause, trail, lost, served>> /\ Unchanged

Init ==
  /\ ep \in Endpoints /\ names \in Named
  /\ (names = "absent" => EndpointOf[ep].key = "loose")
  /\ world \in Worlds
  /\ stage = 1 /\ answer = "pending" /\ cause = "none"
  /\ trail = <<>> /\ lost = FALSE /\ served = FALSE /\ changes = 0
  /\ held = True(world) /\ missed = Facts \ True(world)

Step == \/ JwtAuthGuard \/ RolesGuard \/ CsrfGuard
        \/ TenantGuardAddress \/ TenantGuardIsolation
        \/ SessionGuardIP \/ SessionGuardVerdict \/ SessionGuardRow
        \/ CheckIP \/ Validate \/ CheckOwnSlug \/ CheckFound \/ Record
        \/ RefuseAlways \/ CallService

Next == Step \/ Change \/ Die

Spec == Init /\ [][Next]_vars

-----------------------------------------------------------------------------
\* The events that guards and bodies log, passing or refusing.
Refusals == {"AUTH_JWT_FAILURE", "ROLE_ACCESS_DENIED", "SECURITY_CSRF_ERROR",
             "SECURITY_CSRF_MISMATCH", "TENANT_VALIDATION_ERROR", "REFRESH_FAILED",
             "TENANT_MISMATCH", "AUTHENTICATION_VERIFICATION_FAILED"}
BodyEvents(E) == {E.body[i].event : i \in 1..Len(E.body)}
EventTypes == Refusals \cup {"SESSION_EXPIRED", "ROLE_ACCESS_GRANTED",
                              "SECURITY_STATUS_CHECKED"}
                \cup UNION {BodyEvents(EndpointOf[e]) : e \in Endpoints}

Answers == {"pending", "ok", "refused", "lost"}
GuardCauses == {"token", "session", "role", "csrf", "quota", "slug", "tenant",
                "address", "verdict"}
Causes  == GuardCauses \cup {"none", "input", "service", "error", "never"}

TypeOK ==
  /\ ep \in Endpoints /\ names \in Named /\ world \in Worlds
  /\ stage \in 1..(Length + 1)
  /\ answer \in Answers /\ cause \in Causes
  /\ (answer = "refused") = (cause # "none")
  /\ (answer = "ok") => stage = Length + 1
  /\ trail \in Seq(EventTypes) /\ lost \in BOOLEAN /\ served \in BOOLEAN
  /\ held \subseteq Facts /\ missed \subseteq Facts /\ held \cup missed = Facts
  /\ changes \in 0..MaxChanges

\* What each endpoint is meant to require, whatever guards it is built from.  A
\* tenant only where it works on the very one that the guard looked up: the rest
\* work on every tenant or on none, or on one that the query, the body or the row
\* names while the guard goes by a header.
AcrossTenants == {"TenantsFindAll", "TenantsCreate", "AdminBulkRoles", "AdminRoleDetails",
                  "RatesProfiles", "RatesActivate", "EventsRecent", "EventsByType",
                  "EventsByUser", "TenantEventsVerify", "ReputationGet",
                  "ReputationBlock", "ReputationUnblock", "ReputationAllow",
                  "ReputationDisallow", "ReputationQuery", "ReputationReset",
                  "ReputationThreats", "BotsAnalyze", "BotsStats", "BotsRecent",
                  "BotsChallenge", "BotsConfig", "DevicesAnalyze", "DevicesStats",
                  "SecurityStatus"}
ByTenantId    == {"AdminFindAllUsers", "AdminUpdateUserRole", "AdminAuditEvents"}
RoleUnread    == {"TenantEventsVerify"}   \* has a role that no guard asks for: RolesHeld
AnyAddress    == {"RatesProfile", "RatesUpdate", "RatesUsage", "RatesProfiles",
                  "RatesActivate", "ReputationGet", "ReputationBlock",
                  "ReputationUnblock", "ReputationAllow", "ReputationDisallow",
                  "ReputationQuery", "ReputationReset", "ReputationThreats",
                  "BotsAnalyze", "BotsStats", "BotsRecent", "BotsChallenge",
                  "BotsConfig", "DevicesAnalyze", "DevicesStats", "SecurityStatus"}
Needs(e) == {"session"}
  \cup (IF EndpointOf[e].roles = {} \/ e \in RoleUnread THEN {} ELSE {"role"})
  \cup (IF e \in AcrossTenants \cup ByTenantId THEN {} ELSE {"tenant"})
  \cup (IF e \in AnyAddress THEN {} ELSE {"address"})

\* What is done was asked with a session, from an address, in a role and within
\* a tenant that were good at some time during the request.  They need not have
\* been good together: each guard reads the world for itself.  What no guard asks
\* for is not promised: see Needs.
GrantedOnlyWithin == served => Needs(ep) \subseteq held

\* tenant-events.controller.ts:358 says of its route SUPER_ADMIN only: what a
\* decorator names is asked of whoever is served.
RolesHeld == served /\ This.roles # {} => "role" \in held

\* No request is refused for a fault it never had: the session was revoked, the
\* address blocked, the role absent or the tenant another's while it ran.  The
\* tenant is left out on the two routes that name it by its id: see
\* AnalyticsReachable.
RefusalsAreJustified ==
  answer = "refused" /\ cause \in Facts /\ (cause = "tenant" => This.key # "id")
    => cause \in missed

\* admin.controller.ts:558 documents an answer 200 for the administrator of the
\* tenant named, and admin.e2e.spec.ts:879 guesses the guard looks up the id.
AnalyticsReachable ==
  answer = "refused" /\ cause = "tenant" /\ names = "own" => This.key # "id"

\* A refusal by a guard, or of a blocked address, is the last event on the record
\* unless that very event could not be stored; and a change of a tenant leaves its
\* own record even when the process dies right after it or the log is failing: the
\* event commits with the row, whatever the controller logs later.
Recorded == [TenantsCreate |-> "TENANT_CREATED", TenantsUpdate |-> "TENANT_UPDATED",
             TenantsRemove |-> "TENANT_SUSPENDED", TenantsActivate |-> "TENANT_ACTIVATED"]
OnRecord ==
  /\ answer = "refused" /\ cause \in GuardCauses
       => lost \/ (trail # <<>> /\ Last(trail) \in Refusals)
  /\ served /\ ep \in DOMAIN Recorded => Contains(trail, Recorded[ep])
=============================================================================
