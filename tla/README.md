# Verification of latch-auth

TLA+ models, model-checking configurations and machine-checked proofs for
`src/apps/latch-auth`, the multi-tenant authentication service of this
repository: a NestJS application over PostgreSQL (Prisma) and Redis.

Contents

1. The system: components, state, operations, interactions
2. What is hard about it
3. The modules
4. How state and actions correspond to the code
5. The runs, their bounds, and what they show
6. Fairness
7. What is proved, and how
8. Where code and comments disagree
9. What is not modelled, and why
10. What could be added

## 1. The system

All source paths below are relative to `src/apps/latch-auth/src`.

| Component | State | Operations that change it |
|---|---|---|
| Sessions and refresh tokens (`auth/auth.service.ts`, `auth/auth.controller.ts`, `auth/jwt.strategy.ts`, `auth/guards/csrf.guard.ts`) | tables `Session`, `RefreshToken`, `UsedRefreshToken`; the cookies in clients | end of `verifyOtp`, `refreshTokens`, `handleTokenReuse`, `revokeSession`, `revokeAllSessionsForUser`, expiry marking in `getUserBySessionId` and `JwtStrategy.validate` |
| Session cleaner (`maintenance/session-cleaner.service.ts`) | none of its own | hourly `pruneExpiredSessions`; `removeExpiredTemporaryRoles` |
| One-time codes (`auth/auth.service.ts`) | tables `OTP`, `User`, `Tenant` | `requestOtp`, first half of `verifyOtp` |
| Event log (`events/event.service.ts`) | table `Event` (hash chain), an RxJS subject | `logEvent`; `verifyChain` reads it |
| Tenants (`tenants/tenants.service.ts`) | `Tenant`; Redis keys `tenant:<slug>:basic`, `:with_data`, `:stats`, `tenants:page:*` | `create`, `update`, `remove` (suspend), `activate`; readers fill the keys |
| Role administration (`admin/admin.service.ts`) | `UserRole`; Redis keys `user:<id>:roles`, user lists | `updateUserRole` (assign, remove, replace, temporary, inherit), `bulkUpdateUserRoles` |
| Rate limiting (`rate-limiting/rate-limiting.service.ts`) | Redis counters, `TenantRateLimitProfile`, its key | three window algorithms, profile update, warm-up |
| IP reputation (`ip-reputation/ip-reputation.service.ts`) | `IPBlock`, `IPWhitelist`, a Redis key per reputation | `blockIP`, `unblockIP`, `whitelistIP`, `removeWhitelistIP`, `cleanup`; `updateReputation` and `warmupCache` fill the key |
| Security monitor (`security/security-monitor.service.ts`) | a `Map` of event times in memory | `handleEvent`, pruning, trimming, posts to a webhook |
| Guards (`auth/guards/*`) and controllers | none | decide, log, call a service |
| Bot detection, behavioral analysis, device fingerprinting | Redis profiles | scores |
| Users, health, protected pages, Redis and Prisma wrappers | rows of `User` | single-row reads and updates |

Interactions. Controllers call services behind guards: `JwtAuthGuard` runs
`JwtStrategy.validate`, which loads the session (and revokes it if it has
expired); `CsrfGuard` compares the CSRF cookie with `Session.csrfToken`. Every
service calls `EventLogService.logEvent`, which appends to the hash chain and
then publishes the row on a stream that the reputation service and the security
monitor subscribe to. `SessionGuard` and most controllers ask the reputation
service whether the caller's address is blocked, and `handleHighRiskIP` of bot
detection blocks one. The cleaner and the tenants service write to the tables of
the authentication service without going through it. All of that runs in one or
more Node processes: within a process handlers interleave at every `await`,
between processes at every database call.

What makes each component correct:

* Sessions and tokens: a refresh token is worth one successor; a session has at
  most one token that can be exchanged; a detected reuse ends the family for
  good; nothing revoked comes back; a client holds the token its session is
  bound to; expired sessions end.
* One-time codes: a spent code is not found again; the sessions a code opens are
  bounded by the calls that overlapped; contention for the first tenant or user
  row never fails everybody.
* Event log: rows hang on rows that were committed before them; a fork is
  explained by overlapping calls or equal timestamps; what is committed is
  emitted; `verifyChain` accepts what `logEvent` wrote (it does not).
* Caches of tenants, users, roles, profiles, reputations: an answer is the row as
  it is, or as it was no longer ago than a key can live; a writer that completes
  leaves no older copy behind; staleness ends.
* Roles: a role is held once, was granted by an administrator, and goes when it
  has expired, not before.
* Blocks: who was told that an address is blocked, or no longer blocked, can rely
  on it; calls that wait for connections do not wait for ever.
* Guards: what is done was asked with a session, a role, a tenant and an address
  that were good, what is refused had a fault, and both leave a record.
* Security monitor: no burst goes without an alert, no alert without a burst.
* Rate limiting: no client is admitted more often than its quota allows at worst,
  none is denied without having used it.

## 2. What is hard about it

Everything below is listed with its line in `PROJECT.json`, under `hazards`.

* There is no lock and there are few transactions. A refresh is six round trips, a
  reuse five, a logout four; any other handler, or the cleaner, may run between
  two of them.
* A handler may die at any round trip: its commits stay, the rest never happens,
  and the client retries with what it has.
* Values are read, held across awaits, and used later: the expiry of the
  session, its hash, the ids of the sessions of a user, the last row of the log.
* Times meet at boundaries: expiry against retention, `createdAt` in
  milliseconds, comparisons with `<` in one place and `>=` in another.
* The transactions there are run at READ COMMITTED and each holds a connection of
  a small pool, some while they ask for another.
* Redis is written before a commit in one service, after it in another, not at
  all in a third, and a reader fills it with what it read some round trips ago.
* Uniqueness (`tokenHash`, tenant slug, `(tenantId, phone)`) decides races, by an
  exception that some callers handle and others do not.

## 3. The modules

| Module | What it is |
|---|---|
| `TokenLineage` | abstract specification of refresh tokens: open, exchange, renew, withdraw |
| `RefreshRotation` | the handlers, round trip by round trip, with cleaner, clock, crashes, tenant suspension; shown to implement `TokenLineage` |
| `OtpLogin` | `requestOtp` and `verifyOtp` up to the session row, where `RefreshRotation` begins |
| `EventChain` | the hash chain, its emission, and `verifyChain` as operators |
| `RateLimiting` | the fixed window, the sliding window and the token bucket, Redis command by Redis command |
| `CachedRow` | abstract specification of a cache in front of a row: how old an answer may be |
| `RowCaches` | every Redis copy of a database row with its readers and writers; shown to implement `CachedRow` |
| `RoleAdmin` | role assignments: the five operations, bulk updates, the cleaner of expired rows |
| `Blocking` | blocks and whitelist over a pool of connections |
| `SecurityMonitor` | aggregation, thresholds, pruning, trimming, posts with retries, restarts |
| `Access` | every authenticated endpoint as a list of guards and checks, in a world that changes meanwhile |
| `MCRefreshRotation`, `MCOtpLogin`, `MCEventChain`, `MCRateLimiting`, `MCRowCaches`, `MCRoleAdmin`, `MCSecurityMonitor` | instances: functions for constants, symmetry sets |
| `RefreshRotationProofs` (with `TokenLineage`), `OtpLoginProofs`, `EventStreamProofs` (`EventChain` and `SecurityMonitor`), `RateLimitingProofs`, `RowCachesProofs`, `RoleAdminProofs`, `BlockingProofs`, `AccessProofs` | theorems with TLAPS proofs |

Two pairs compose by refinement: `RefreshRotation` with
`INSTANCE TokenLineage WITH ...` (the operator `Lineage`) and `RowCaches` with
`INSTANCE CachedRow WITH bound <- Bound` (the operator `Abstract`). The others
divide the system where its components touch:

* `OtpLogin` ends where `LoginSession` of `RefreshRotation` starts (`OpenSession`
  counts the session rows a code leads to).
* The events that handlers write are the anonymous calls of `EventChain`; what
  it emits are the events `SecurityMonitor` handles.
* Suspension of a tenant has three faces: `SuspendTenant` in `RefreshRotation`
  (sessions), `TenantBegin`/`TenantCommit` in `EventChain` (event rows), `Remove`
  and its successors in `RowCaches` (tenant and keys). The three touch disjoint
  tables.
* `InvalidateUserCache` is the last step of a call in `RoleAdmin`; what it does to
  the keys is the action of the same name in `RowCaches`. `Blocking` leaves the
  cached reputation to `RowCaches` in the same way.
* `Access` changes session, address and roles in one action, `Change`: which
  changes are possible is what `RefreshRotation`, `Blocking` and `RoleAdmin` say.

## 4. How state and actions correspond to the code

Common abstractions:

* One action is one `await` on the database. A single Prisma call is atomic, and
  so is a transaction whose statements all come in one action; a transaction
  whose statements may interleave with other transactions under READ COMMITTED
  (in `logEvent`) is split.
* Hashes and random values do not collide, except OTP codes, which are six
  digits and do: `Codes` is a set to be drawn from with repetition.
* Times are small integers. The order of comparison is the code's: a session is
  expired when `expiresAt < now`, a token can be claimed when `expiresAt >= now`,
  a code is found when `expiresAt > now`.
* Writing events is left out of `RefreshRotation`, `OtpLogin` and `RateLimiting`:
  `logEvent` catches every error and returns null, so it changes nothing a handler
  looks at. Where an event is modelled (`ReuseLog`, `LogRoleChange`, `LogBlock`
  and `LogFails`, `LogEvents` of `Access`) it may be lost in the same way and its
  caller goes on; no property promises an event that only `logEvent` writes.

`RefreshRotation`. `session`, `token` and `usedAt` are the tables. A session's
`current` stands for `refreshHash` and `csrfToken` together: they are always
written in the same update, and each refresh token is minted with its own CSRF
token, so a CSRF cookie is identified with the refresh token it came with. `req`
holds the requests in flight: a program counter, the session of the access token,
the refresh token presented, the token minted, the `now` captured before the load,
and the sessions that revoke-all read. `issued` holds the tokens whose cookies a
client received; a client may present any of them, old or new, with any session
whose guard it passes. It never shrinks, although the controller clears the
cookies of a client that presents another session's token
(`auth.controller.ts:108`): a browser forgets them then, a copy of them does not,
so the model keeps the larger set. `NobodyStranded` is therefore about what the
service still honours, for a client that kept its cookies. `LoginSession`,
`LoginToken`, `LoginBind` and `Reply` are the tail of `verifyOtp`; `RefreshGuard`
to `RefreshRotate` are `refreshTokens`; `RefreshMiss` and
`StaleSession`/`StaleFamily` its answer to a failed claim; `ReuseFamily` to
`ReuseLog` are `handleTokenReuse`; `AccessLoad`/`MarkExpired` are the load of a
session by any guarded request; `Logout*` and `RevokeAll*` are the two logout
handlers; `PruneSessions` and `PurgeUsed` are the cleaner's two deletions; `Abort`
is a crash, a failed call or a lost response.

`TokenLineage`. The live tokens are `good`, the tokens between a claim and its
mint are `owed`, the revoked sessions are `closed`. A crash between claim and
mint withdraws the entitlement, so it is a `Withdraw` step.

`OtpLogin`. `tenants` and `users` are the rows that exist, `otp` the OTP table,
`opened` counts the sessions a code has led to. A call of `requestOtp` looks up
and creates tenant and user in separate round trips and fails when somebody else
created the row in between.

`EventChain`. `log` is the table in commit order. A row's hash is represented by
its position; `prev` is the position of the row it is chained to, 0 for null.
`seen` is bookkeeping: how many rows the transaction's read could see. A row's
timestamp lies between the start of its transaction and its commit. `outbox` is
the queue of `setImmediate` callbacks, `emitted` what reached the stream.
`verifyChain` is `ChainValid`, over every order of the rows the database may
return for `ORDER BY createdAt`.

`RateLimiting`. One client of one endpoint, since keys of different clients
never meet. `kind` and `limit` are the configuration, chosen once. `mark` is
`:start` of the fixed window or `:lastRefill` of the bucket, `level` is `:count`
or `:tokens`, `stamps` the list of the sliding window; each is a value with the
moment it expires, and `Setex`, `Incr` and `Lpush` do to it what Redis does (an
`INCR` or `LPUSH` that creates a key gives it no expiry). `check` holds the calls
in flight with the `now` they captured; every branch of the three functions is a
program counter, and a check may die at any of them. `asked` and `granted` (sets
of requests, each a moment and a number), `passed` (what the fixed window's count
has let through since it was started) and `orderly` are bookkeeping for the
properties.

`RowCaches`. A behaviour is about one service, `svc`, and one row, or the set of
rows that one answer is computed from; `row` numbers its versions. `cache` holds
its keys, each a version and the time it has left; only a tenant has the second
one (`with_data`), which may refill the first. A reader looks, queries, fills. The
answers of the services in `Composed` (tenant lists and pages, tenant statistics,
user lists, reputations) come from several queries outside a transaction,
between which a writer may commit: the first is `Query`, the last `QueryMore`, and
the answer has the version, and so the age, of its oldest part, so a torn answer
is never the row. A writer follows its service: tenants delete their keys inside
the transaction, before the commit (`LockRow`, `DeleteBasic`, `DeleteWithData`,
`CommitTenant`); roles and reputations delete after the commit; profiles store
their own value after it; user lists, tenant pages beyond the invalidated ones
and tenant statistics are not tended by those who change what they are computed
from (`invalidateUserCache` passes a pattern to `DEL`, which takes none; a
tenant's writers delete its `:stats`, which to the counted rows is an `Evict`).

Some fill without looking: `WarmupCache` (profiles, when a process starts),
`UpdateReputation` (after each event of an address), and `findOne` with counts
(`FindOneRefresh`). The warm-up of the reputations differs: it stores for a fresh
life what `getReputation` returned, which may come from the key (`WarmupRead`,
`WarmupStore`). Each such warm-up can keep a stale reputation for one life more,
so they are counted, and `MaxWarmups` bounds them.

`RedisService` catches every error and returns null or nothing: a `get` may miss a
key that is live, a fill may store nothing, a deletion may delete nothing, and
the handler goes on (`Look`, `Fill`, `Delete`); where it is a handler's last
command, `Fail` covers it, as it does a process that dies. For the same reason the
in-memory `Map` the reputation service keeps for a failing Redis is never used,
and is not modelled. `Evict` is a Redis that loses a key. `Delay` bounds how long a
handler holds a version it has read (`elapsed`), not how long it runs. `age` and
`lag` measure what an answer was worth.

`RoleAdmin`. `rows` is `UserRole`, a row's id being the call that created it and
its role: the table has no unique key on user and role. `updateUserRole` reads
and checks (`UpdateUserRole`, `ValidateRoleHierarchy`), deletes what it sees
(`AssignRoles` to `InheritRoles`, one for each operation, with the rows to be
created computed alongside), commits, logs (`LogRoleChange`, whose event may be
lost without the call noticing), and clears the cache; a call may fail at any of
these. What a transaction deletes and creates becomes visible in
`Commit`. `bulkUpdateUserRoles` starts one such call per user and reports how
many settled well. `FindExpired` and `DeleteExpired` are the two statements of
the hourly job.

`Blocking`. `block` holds `expiresAt` per address. `blockIP` takes a connection
for its transaction (`OpenTransaction`), waits for the row of its address
(`UpsertBlock`), needs another connection for the reputation and the event
(`LogBlock`, or `LogFails`, since `logEvent` swallows its errors), commits and
answers. The other calls take a connection per statement. `TimeOut` is Prisma
giving up at any point. `promise` and `cleared` record what callers were told.
Addresses in `Compressed` contain `::`, which every check takes for masked.

`SecurityMonitor`. `times` and `place` are the `Map`: the stamps in each key's
bucket, and the place of the key in the insertion order that trimming goes by (the
number of the event that brought it in). `alerts` are the posts under way. The
handler is synchronous, so an event is one action. `since` and `forgot` are
bookkeeping.

`Access`. `EndpointOf` gives each endpoint its guards, of class and method in the
order Nest runs them, the roles of its decorator, where its tenant's slug is
looked for, and its body: the checks, records and the service call of the handler.
Guards and body make its stages. The roles are what the decorator names; they are
checked only where a `RolesGuard` is among the guards, and on `TenantEventsVerify`
none is (section 8, `RolesHeld`). Each stage reads `world` (session, address,
roles) for itself; `Change` alters it in between, `Die` ends the process. `names`
says whose tenant the request names. `trail` is what was logged on the request's
behalf, without the events that `logEvent` failed to store; `lost` says that the
last one handed to it was among those. An event that a service writes in the
transaction of its row (`tx.event.create` of the tenants service) is not lost. On
the route for bulk role changes the branch for a blocked address may throw before
it logs, since it counts the ids of a body that has not been validated
(`admin.controller.ts:715`). `CsrfGuard` looks at the session that the cookie or
the body names, which need not be the token's, so its verdict is a free choice. An
expired session counts as revoked; the strategy logs SESSION_EXPIRED or
AUTH_JWT_FAILURE for it, and the guard AUTH_JWT_FAILURE.

What an endpoint is meant to require is `Needs`. It asks for a tenant only of the
endpoints that act on the tenant their guard looked up. `ByTenantId` lists those
that act on a `tenantId` of the query or the body which nothing compares with
it, `AcrossTenants` those that act on no tenant, on all, or on one that a row
names.

## 5. The runs, their bounds, and what they show

| Run | Instance | Distinct states | Checks |
|---|---|---|---|
| `RotationRace` | 1 session, 3 tokens, 3 requests, crashes | 1.3 M | `OneHeirPerToken`, `ReuseEndsFamily`, `ImplementsLineage` |
| `RotationSessions` | 2 sessions of one user, 3 tokens, 2 requests, crashes | 3.6 M | `OneLiveTokenPerSession`, `IssuedTokenMatchesSession`, `RevocationIsFinal` |
| `RotationLiveness` | 1 session, 2 tokens, 2 requests, TTL 1, clock to 3, fair | 465 k | `UsedKeptWhileValid`, `NobodyStranded`, `MarkedWasExpired`, `ExpiredSessionsEnd`, `ReuseEndsAnswered` |
| `OtpRace` | 3 calls, 2 rows, 2 codes, crashes, fair | 442 k | `OpeningsAreConcurrent`, `ContentionServesSomebody` |
| `EventChainLog` | 2 writers, 3 rows, clock to 2, fair | 225 k | `ParentIsNoYounger`, `ForkNeedsOverlapOrTie`, `CommittedIsEmitted` |
| `RateLimits` | 3 algorithms, limits 1 and 2, 2 checks, window 3, delay 2, clock to 6, 4 requests | 4.5 M | `TypeOK`, `SerialQuota`, `OverlapQuota`, `DeniedHasSpent` |
| `RowCaches` | 8 services, 2 readers, 2 writers, 3 versions, life and delay 1, 1 warm-up of reputations, fair | 922 k | `ImplementsCachedRow`, `WriterSettles`, `EventuallyCurrent` |
| `RoleAdmin` | 2 users, 2 roles, 2 calls or a bulk of 2, the cleaner, fair | 1.3 M | `DuplicatesNeedOverlap`, `GrantsByAdmins`, `BulkCounts`, `SerialRolesExact`, `CleanerDeletesOnlyExpired`, `ExpiredEventuallyGone` |
| `Blocking` | 2 calls, 2 addresses (one compressed), 2 connections, fair | 247 k | `BlockHolds`, `ClearingHolds`, `StuckNeedsFullPool`, `EveryCallEnds` |
| `SecurityMonitor` | 3 keys, room for 2, 5 events, clock to 3, 1 restart | 375 k | `MonitorTypeOK`, `NoMissedAlert`, `AlertsAreEarned`, `AttemptsRunOut` |
| `Access` | all 47 endpoints, 5 ways to name a tenant, 2 changes | 2.8 M | `GrantedOnlyWithin`, `RefusalsAreJustified`, `OnRecord` |
| `RotationWinnerFinding` | 1 session, 2 tokens, 2 requests | | a violation, section 8 |

The type invariants of `RateLimiting` and `SecurityMonitor` say more than types
(the bucket's tokens, the size of buckets and `Map`) and are checked; those of
the other modules are proved only (section 7).

What the bounds have to contain, and do:

* Tokens. Three tokens are a login and two rotations: the shortest history in
  which a reused token's grandchild is live, and in which two requests could
  each have given a token an heir. In `RotationSessions` three tokens are two
  logins and one rotation, so that a token can be presented to a session that is
  not its own while both live.
* Requests. The third request of `RotationRace` is the one that is between its
  claim and its mint while the second answers the reuse that the first one's
  retry caused. For what happens in one session with time passing two suffice:
  one that is stale and one that made it so.
* Time. `TTL` and `Retention` enter only through comparisons with `now`. A TTL
  of 1 has a moment before the expiry, the expiry itself (still valid: the code
  compares with `<`) and one after. `Retention = TTL` is the worst case the
  assumption `TTL <= Retention` allows. Three ticks after a login a renewed
  session has outlived its first token, its record may be purged, and the second
  token has expired. Where time is not the question `TTL = 0` and one tick keep
  the order of expiry and request free with fewer states.
* Rows. Three rows are the least in which a fork can be followed by a row that
  hangs on one of its branches.
* One-time codes. Two rows and two codes drawn with repetition include the two
  rows with the same number; a lifetime of 1 with one tick leaves a code valid
  or expired while a call still holds it. With three calls two contend for the
  tenant and the user and a third arrives when one of them has died.
* Rate limits. `Life = Window` is the least TTL `Math.ceil` yields. `Delay = 2` is
  what it takes for a check to read a key before its expiry and finish after the
  next window could begin; two windows (`MaxTime = 6`) hold every stretch that
  meets both. The window of 3 does not divide by the limit of 2, so the refill
  rounds. Four requests pass the `Burst` of 3 that a limit of 1 has in the two
  windows, and the 2 that `OverlapQuota` leaves it with two checks. With clock and
  requests spent the model comes to a halt, so this run does not look for
  deadlocks. Longer delays, more requests and larger limits are covered by the
  proofs.
* Caches. Three versions and two writers let a version be replaced while two
  older copies are on their way into the keys. With life and delay 1 the bound
  of `CachedRow` is 2, for tenants 4, for reputations with one warm-up 4, and
  `Cap = 5` tells ages apart beyond them. One warm-up is enough to see a stale
  reputation live on; any number, and any other lengths, are covered by the
  proof.
* Roles. Two calls, single or in bulk, on two users with one updater who may lose
  the administrator's role to the other call; a member role that inherits from the
  administrator's; a row that has expired at the first tick. `MaxAsked = 1` names
  one role per call, `Duration = 0` makes a temporary grant end within the bound.
* Blocks. Two transactions fill two connections, which is the state in which each
  waits for a third. A block of one tick expires while a call still runs.
* Monitor. Thresholds 1 and 2, a window of 1, five events: a key can pass its
  threshold twice, one that came first is trimmed, one straddles a pruning.
* Requests through guards. Two changes let a fact become false and true again.

`Blocking`, `RoleAdmin`, `SecurityMonitor` and `Access` really stop when their
bounds (clock, calls, events, the one request) are used up, so those runs do not
look for deadlocks either.

Symmetry is used in `RotationRace`, `RotationSessions`, `RotationWinnerFinding`
and `RateLimits`, for tokens, sessions, requests and checks (one user owns all
sessions and the user is not permuted); the models compare them for equality
only, and no `CHOOSE` ranges over them. None of these runs checks liveness.

What the properties say, beyond their comments in the modules:

* `OneHeirPerToken`, `OneLiveTokenPerSession`, `ReuseEndsFamily` and
  `RevocationIsFinal` are the promises of refresh-token rotation. Their hazard is
  that claim, record, mint and binding are four separate writes. They hold
  because the claim is one conditional update, and because the rotation's
  update of the session never writes `revoked`. `ReuseEndsFamily` speaks of
  tokens that are honoured, not of live rows: a winner that was overtaken by the
  reuse handler still inserts a row that is not revoked, but its session is.
* `NobodyStranded` is the other half of rotation: whatever requests lose which
  races, the client of a session that is active and has not expired can go on,
  or the session is about to end. It speaks of runs without crashes, since a
  handler that dies after its claim does strand its client. Its one exception,
  `Overtime`, was found by TLC: a refresh captures `now` before it loads the
  session, so it may exchange a token that has expired meanwhile; a request of
  another session that presented the same token, and found it expired, then
  revokes the family (`StaleFamily`) with the new heir in it.
* `MarkedWasExpired` is what holds of the mark by id (section 8,
  `ExpiryRevokesOnlyExpired`): if it hits a session that has not expired, a refresh
  has renewed that session. `MarkFollowsRenewal`, which is proved, adds when: after
  the load, which found the session expired.
* `UsedKeptWhileValid` ties the cleaner's retention to the token lifetime: if
  `REFRESH_TOKEN_RETENTION_DAYS` were shorter than the refresh lifetime a replay would
  be answered as an unknown token.
* `OpeningsAreConcurrent` is the honest bound for a code: `verifyOtp` finds and
  consumes in two steps, so one code may open as many sessions as calls held it
  at once, and not one more.
* `ForkNeedsOverlapOrTie` says when the chain is what the comments claim it
  always is: calls that do not overlap, in different milliseconds. `NoFork` is
  false in general. `SerialLogLinks`, the same for what `verifyChain` follows, is
  proved.
* `SerialQuota` bounds any stretch of `windowMs`, not only those that begin with a
  window, by `Burst`. For the fixed window that is twice the limit and one more:
  a check that was allowed just before the count expired raises a count that is
  no longer there, so the window it belonged to let one through too many. For the
  sliding window it is the limit and two more: keys that expire while a check is
  under way take the list away between `LRANGE` and `LPUSH`, and a stamp pushed to
  a list that expires before `EXPIRE` is lost at once. For the bucket it is what
  was in it and what comes in.
* `OverlapQuota` is about the fixed window's count, from one time it is started to
  the next: each check that overlaps may slip one request past it. It does not
  bound what overlapping checks are allowed within a stretch of time, where one
  request too many for each check would be too little: checks that all found the
  window over each open it anew, the last of them with the earliest `now` puts the
  beginning back, and in the sliding window `LTRIM` lets late stamps push out
  newer ones.
* `DeniedHasSpent` is the other direction.
* `ReuseEndsAnswered` says what a reuse handler owes before it ends, whatever
  else runs between its writes: the session revoked, nothing of the family
  honoured, the use on record. It owes no event, since `logEvent` may swallow it.
* `AttemptsRunOut` is what is left of an alert's end: each step about it counts
  one attempt more, of finitely many, and what has settled is never posted
  again. That it settles is not promised, since the code gives `axios` no timeout
  (`security-monitor.service.ts:164`).
* `NothingLost`, `RowsAreFollowedUp`, `FoundRowsGo` and `WaitsForHolder` are the
  parts of the liveness properties
  that do not depend on fairness: what has to happen is always in somebody's
  hands, and what has happened is not undone. They are proved (section 7).
* `ImplementsCachedRow` is what is left of coherence when invalidation races with
  fills, answers are torn, Redis errors are swallowed and processes die: the time
  to live, plus the time a handler holds what it read, once for most services,
  twice for a tenant's first key, and once more per warm-up for a reputation,
  whose warm-ups could keep a stale one for ever if processes never stopped
  starting. `WriterSettles` says when invalidation works, and where the order of
  deletion and commit matters: a tenant's writer needs to have met no reader and
  no failing command, one that deletes after its commit only that no reader is
  still on its way. `EventuallyCurrent` includes that a torn answer goes.
* `DuplicatesNeedOverlap` and `SerialRolesExact` are the honest bounds for
  transactions at READ COMMITTED without a unique key. `GrantsByAdmins` is
  what a check before the transaction can give: an administrator at some time
  during the call. `BulkCounts` says what a reported success is worth: a commit,
  granted by an administrator, with nothing still at work. It says nothing of
  the event, nor of the users reported as failed.
* `BlockHolds` and `ClearingHolds` are each about what a caller was told, and
  exempt only calls on the same address that overlapped.
* `StuckNeedsFullPool` locates the only wait in a circle, and `EveryCallEnds` says
  that Prisma's timeouts undo it. `CanGo`, in which the former is stated, is the
  guard of every step of `Proceed`: beyond it a step asks only where its call
  stands.
* `GrantedOnlyWithin` does not ask for the facts to have held together, since each
  guard looks for itself, and claims only what is in `Needs` (section 4): neither
  the role of `TenantEventsVerify`, which is `RolesHeld` in section 8, nor the
  tenant of the routes in `ByTenantId`. `OnRecord` exempts a refusal whose event
  `logEvent` failed to store, and holds the four changes of a tenant, whose events
  commit with the row, to their record without exception.
  `RefusalsAreJustified` speaks of every refusal for a
  session, a role, an address or a tenant, the last but for the two routes of
  `AnalyticsReachable` (section 8).

## 6. Fairness

`RefreshRotation`: weak fairness of `Continue(r)` for each request, because a
handler that awaits a settled promise is resumed by the event loop, and of the two
deletions of the cleaner, because `@Cron(CLEANUP_CRON_EXPRESSION)` keeps
scheduling them. Crashes are off in that run: a process that dies owes nothing. No
client is obliged to send a request and the clock is not obliged to advance.

`OtpLogin`: weak fairness of `Continue(c)`, for the same reason. Crashes are on,
and `ContentionServesSomebody` says what it says unless one happened.

`EventChain`: weak fairness of `Return(w)` and of `Emit`: a promise that settled
and a callback that was queued with `setImmediate` are served. Nothing obliges a
transaction to commit.

`RowCaches`: weak fairness of a reader that has begun, of every writer's steps,
and of time. Nobody is obliged to begin. Keys run out because Redis expires them.
`EventuallyCurrent` also rests on two bounds, neither of them fairness: rows are
changed (`MaxRow`) and processes start (`MaxWarmups`) finitely often.

`RoleAdmin`: weak fairness of each call (it goes on or fails), of the report of a
bulk update, of the job's two statements and of time. Without a call that
keeps creating expired rows, which the bounded calls cannot, the job catches up.

`Blocking`: weak fairness of each call's next step and of its timeout, which
Prisma's `maxWait` and `timeout` give every transaction.

`RateLimiting`, `Access` and `SecurityMonitor` state no liveness. For the last, the
fairness that an alert's end would need does not exist: a connection that is
established and then silent keeps its post waiting for ever.

## 7. What is proved, and how

The theorems hold for every value of the constants that satisfies the assumptions
named in the modules: any finite or infinite number of sessions, tokens and
requests, `TTL <= Retention`, any numbers of writers and rows, any limit, window
and TTL with `Window <= Life`, any sets of users, roles, addresses, readers and
writers, any lifetime and delay, any size of the pool.

`RefreshRotationProofs`. `IInv` is `TypeOK`, the two properties
`OneHeirPerToken` and `OneLiveTokenPerSession`, and seven parts (defined in
`RefreshRotation`):

* `RowsInv`: a token that exists belongs to a session and a family that exist;
  clients hold tokens that exist.
* `RequestInv`: what each point of a handler may rely on: a request past its
  claim presents a token that is revoked and has no heir yet; one past its mint
  has a child that no client knows.
* `RotationInv`: at most one request per session is anywhere between a claim and
  its reply, and while it is, its session has no other live token.
* `ParentsInv`: a token with an heir is revoked.
* `BindingInv`: live tokens in clients' hands are current.
* `ReuseInv`: a reuse that was logged has ended the session of the family.
* `UseInv`: exchanged tokens have a record while they have not expired; no expiry
  is further ahead than a TTL, and none further behind its record.

`TypeOK` alone is not inductive: the type of a minted row depends on the family
of the presented token being a token, which is `RowsInv`, and on the request
holding a token at all, which is `RequestInv`. `OneHeirPerToken` needs
`RequestInv`, and `OneLiveTokenPerSession` needs `RotationInv`, since a mint is
safe only if nobody else is about to mint for the same session. The actions fall
into two kinds. Most are `Ordinary`: they only revoke, and only move a request
forward; one lemma, `OrdinaryPreserves`, covers what these have in common. The
seven that create or bind (`LoginSession`, `LoginToken`, `LoginBind`,
`RefreshClaim`, `RefreshMint`, `RefreshRotate`, `Reply`) have a lemma each.
`Invariance` combines them, and the properties follow from it. `StepRefines`
shows under `IInv` that each step is a step of `TokenLineage` or a stutter:
logins open, claims exchange, mints renew, everything else withdraws or changes
nothing abstract; `Refinement` is the theorem.

The same module proves about `TokenLineage` that `LineageInv` (types, one claim per
session, claims belong to sessions) is inductive; `OneClaim` and `Finality` are
what a client of the abstract specification may rely on. `OneClaimInService`
carries the first over to the tables: with `Refinement` and the counting of live
tokens and exchanges in flight, no session of the service is ever worth two.

`FullInv` adds to `IInv` what the properties about losing a race need:

* `RecordInv`: the record of a use is kept only of revoked tokens, and if it is
  there before the winner has written it, a reuse handler did, and ended the
  session. `WinnersLoseOnlyRevoked` is a part of it: the winner that the finding
  of section 8 is about never loses in a session that goes on.
* `MarkInv`: a session that a request is about to mark is expired or bound to an
  heir; a login binds only what nothing was bound to, a refresh binds an heir.
  `MarkingWasDue` follows. `RenewedSinceLoaded` looks at the steps: a request comes
  to mark a session from a load that found it expired (`MarkArrival`), and what
  makes it good again meanwhile is a refresh (`BindingSteps`).
* `StaleInv`: a token that a request found expired is the last one of its
  session (`LastToken`): nothing else of it is live and nobody else is at work
  on it, unless its heir was minted in overtime. This is why revoking the family
  of an expired token takes nothing from anybody.
* `StrandInv`, without crashes only: no session that is active and has not
  expired is left without a token in its client's hands, an exchange, a reuse
  handler that has yet to end it, or overtime. The proof follows the one token a
  session has: `TokenRevokers` says which steps can take it away (a claim, which
  promises another; a reuse handler, which ends the session; a logout, which has
  ended it; a revoke-all, which ends it in the same transaction; `StaleFamily`,
  where `StaleInv` applies), and
  `PromiseIsKept` that an exchange hands on what it took. `ClientsKeepATurn` is
  the theorem.

`OvertimeLasts` and `LastTokenLasts` carry the two ways out of `StaleInv` from step
to step, and `StepsKeep` what no step of one request changes for another.
`ReuseIsAnsweredOnEnd` states `ReuseEndsAnswered`, an action property: when a reuse
handler ends, the session is revoked, no token of the family is honoured, and
the use is on record while the token is valid. It follows from `ReuseInv`,
`UseInv` and the order of the handler's writes, with or without the event.

`EventStreamProofs`, the log. `ChainInv` says of every row, and of every writer about to
insert one, that it is chained to a row that was visible to its transaction and
is the latest of those. It needs no bound on writers or rows. `ParentsComeFirst`,
`ForksAreExplained` and `SerialLinksHold` follow. `NoneLost` follows an event from
the call that committed it to the queue and the stream: each step hands it over.
`NoneTwice` is the other half: by `HandInv` an event is in the hands of at most one
call, or once in the queue, or out, so the stream gets each exactly once while
the process lives.

`EventStreamProofs`, the monitor. `MonitorInv` is the type invariant, `BucketInv`
(a bucket holds every event of its key since the last alert that is in the window,
unless some were forgotten, and none from before) and `CountInv` (buckets and
`Map` are finite, and two keys never came in together). The last is what
`MonitorTypeOK` needs: that trimming keeps at most `MaxBuckets` keys is shown from
the key that came first among those kept (`FirstOne`, `TrimmedFits`), all others
of which came after it. `NoneMissed` and `AlertsEarned` follow from `BucketInv`.
`AttemptsEnd` (of `AttemptsRunOut`) needs `AlertInv` (an alert bears the number of
its event, and it alone) and two steps of temporal logic: attempts only rise, up
to the limit that `MonitorTypeOK` states, and an alert that has settled stays
settled.

`OtpLoginProofs`. `SpendingInv`: whoever is about to open a session has marked
its code consumed, and a code that opened one is consumed. `OpeningsBounded` also
needs the cardinality of the set of holders, by `FiniteSetTheorems`. `Followed`
shows `RowsAreFollowedUp` inductive: who loses the contest for a user leaves the
tenant to whoever won it, which is why tenants and users are one invariant.

`RateLimitingProofs`, four theorems with an invariant each, for every limit,
window, TTL, delay and number of checks.

* `TypeCorrect`: the limiter's keys keep their types, and the bucket holds between
  nothing and the limit, although a check writes what it computed from reads
  several commands older. Its strengthening says of a check that is about to
  write back that the tokens it holds are fewer than the limit.
* `CountKeeps`. `PassedInv`: while the count lives, what it has let through is no
  more than its value, and with the checks that hold an allowance not yet
  counted no more than the limit and one for each other check.
* `SerialKeeps`. The invariant cannot speak of the keys alone, since keys expire
  and requests do not. `FixedInv` and `SlidingInv` say that there are a moment `p`,
  a window's length before whatever is allowed from now on, and a set `C` of
  requests the present keys know of, such that the others after `p` are few: the
  limit for the fixed window, one for the sliding window. When keys go, `C` is
  given up and `p` moves on. `BucketInv` says of every moment after `p` that what
  was taken since, with what is left, was in the full bucket or has come in
  since. Each is given for every point a check can be at (`FixedRow`,
  `SlidingRow`, `BucketRow`), `OrderInv` and `Numbered` make counting requests
  sound, and `Sparse` is the bound itself, which a request may join where `Room`
  has been shown for it.
* `DeniedSpent`. `CountedInv`: the count is at most what was asked since its window
  began. `BehindInv`: as many stamps are younger than any moment as requests were
  asked after it, at most. `TakenInv`: the last refill is a request that was
  allowed. What a check saw of them when it decided, it still knows when it
  answers (`Busy` at the points in between).

Smaller bounds are false: with a delay of two a serial client passes twice the
limit of a fixed window, as section 5 explains, and TLC finds the behaviour when a
check may outlast a key by enough.

`RowCachesProofs`. The invariant is `TypeOK` and `Fresh`: what a key holds, or a
reader or writer is about to store in it, was current not longer ago than its
handler has held it, a key's remaining life being counted from when it was
filled. A tenant's first key is allowed one life and one delay more, since it may
have been filled from the second, and a reputation's one of both for every
warm-up so far (`Past`); a warm-up raises the allowance of whatever is in the key
or in a hand in the same step in which it takes a value along. A composed answer
is as old as its first query, so the time it is held is counted from there.
`TypeOK` does not say when a value was read, so it cannot bound an answer's age.
`StepGood` shows in one induction that each step keeps both and is a step of
`CachedRow` or a stutter; `Implements` is the theorem. It holds for every service,
however many readers, writers and warm-ups there are, and whatever dies, fails or
is evicted. `Settles` needs `SettleInv` besides: writers and readers under way
together have met, a writer that met no other stores or leaves the row as it is,
and a tenant's writer that met no reader, and whose deletions Redis did, has left
nothing in the keys it deleted.

`RoleAdminProofs`. `IInv` joins four of the properties' own formulas and what they
rest on: `OwnRows` (a transaction creates rows of its own, for its user, one per
role), `RowsAreDone` and `OneRowPerRole` (so do the rows in the table), `Words`
(the ghost `was` holds every call that is past its check, and whose updater is
an administrator), `AllMeet` (two open transactions on one user have met),
`AllSeen` (a row that an open transaction would duplicate is one it deletes, or
of a call it has met) and `AllExact` (one that has met nobody deletes and gives
what its operation says of the rows as they are now). `DuplicatesNeedOverlap`
follows from the last but one at each commit, `SerialRolesExact` from the last.
`FoundAreGone` rests on `FoundAreDone`: what the job has listed was in the table, so
the call that made it is over, and a row enters the table only with the commit of
its call (`EndedStay`). That it stays away once it is gone is again an induction of
its own, from any state in which the row is listed.

`BlockingProofs`. `IInv` is `TypeOK`, `AllMet` (two calls on one address under way
have met) and `Kept`, which says what an answer is owed before it is given: a
committed block still stands when nobody else touched its address, a call that
has deleted a block alone finds it gone, and while a call withdraws a block
nothing is promised. `TypeOK` includes that the pool is never overdrawn, by
`FiniteSetTheorems`, and that one transaction at a time holds an address.
`NotAllWait` shows `StuckNeedsFullPool`: while a connection is free some call under
way can go on, since who holds a row that others wait for needs at most a
connection. `HeldByAnother` says of each call that waits who has what it waits
for: a transaction that has begun, and another one's unless the pool has a single
connection, which `blockIP` would hold while it waits for a second.

`AccessProofs`. `IInv` joins `TypeOK`, `RefusalsAreJustified` and four parts:
`WorldNoted` (what is true of the world has been seen to be true, what is false to
be false), `ChecksHeld` (a guard or check that is behind the request has left its
fact in `held`), `ServedAt` (what is served was served at a stage that is behind,
whose event, where it commits with the row, is on the trail) and `LastWord` (a
refusal by a guard ended with its event, or with the loss of that very event). One
lemma covers every stage that passes, one every stage that refuses.
`GrantedOnlyWithin` then needs of each of the 47 endpoints only that the guards it
is built from contain the checks of what it is meant to require before its service
stage, which is a fact about constants.

Only model-checked, not proved:

* the liveness properties (`ExpiredSessionsEnd`, `ContentionServesSomebody`,
  `CommittedIsEmitted`, `EventuallyCurrent`, `ExpiredEventuallyGone`,
  `EveryCallEnds`), since fairness is out of the prover's reach. What they have of
  safety is proved, listed below;
* `FirstRequestWins`, which is a counterexample.

| Liveness property | Its part that is proved |
|---|---|
| `ExpiredSessionsEnd` | `RevocationLasts`, `RenewedSinceLoaded`: an ended session stays so, a mark was due |
| `ContentionServesSomebody` | `Followed`: a row that was created has a code or a call that will issue one |
| `CommittedIsEmitted` | `NoneLost`, `NoneTwice`: never out of everybody's hands, never out twice |
| `EventuallyCurrent` | `Implements`: the age of any answer is bounded |
| `ExpiredEventuallyGone` | `FoundAreGone`: what the job found it deletes for good |
| `EveryCallEnds` | `HeldByAnother`, `NotAllWait`: what a call waits for is somebody's to give back |

Every other property of a passing run is stated by a theorem. These theorems have
no property of a run, and are not about types: `FoundUnspent`, `NoneLost`,
`NoneTwice`, `SerialLinksHold`, `Followed`, `OneClaimInService`,
`RenewedSinceLoaded`, `WinnersLoseOnlyRevoked`, `FoundAreGone`, `HeldByAnother`,
and the two about `TokenLineage`. What they state is defined in the
modules, with a comment.

`verifyChain` walks the rows in a loop; `ChainValid` states the result of the walk
without recursion, so `EventChain` remains open to proofs.

## 8. Where code and comments disagree

`RotationWinnerFinding` ends in a violation: "first request wins"
(`auth.service.ts:514`). The loser records the use of the token too. If it is
faster, the winner's insert violates the unique `tokenHash`, the winner fails
after its claim, and nobody gets a token. It happens only in a session that the
loser's reuse handling has revoked (`WinnersLoseOnlyRevoked`, proved), so the
client loses a session that was ending, and gets an error of the server for it.

These are stated in the modules as definitions of their own, which the code does
not satisfy; put one into a configuration to see a behaviour that breaks it.

* `ExpiryRevokesOnlyExpired` (`RefreshRotation`): "If expired => mark revoked"
  (`auth.service.ts:316`). The mark goes by session id and does not look at the
  expiry again. A request that loaded the session just after its expiry can
  revoke it just after a refresh renewed it. It revokes no others
  (`MarkedWasExpired`, `MarkFollowsRenewal`).
* `NoFork` (`EventChain`): "read last integrityHash and insert new row
  atomically" (`event.service.ts:134`). Under READ COMMITTED two transactions
  read the same last row.
* `VerifierAccepts` (`EventChain`): "must match what logEvent used"
  (`event.service.ts:262`). `createdAt` is hashed by the writer and left out by
  the verifier, so no row verifies.
* `InvalidatedAfterCommit` (`RowCaches`): "do this after transaction completes"
  (`tenants.service.ts:478`). The deletions are inside the transaction, so a
  reader in between stores the old tenant again for a quarter of an hour.
* `AnalyticsReachable` (`Access`): two routes name a tenant by its id
  (`admin.controller.ts:558`), and the guard looks the id up as a slug
  (`tenant.guard.ts:39`), so they refuse everybody.
* `RolesHeld` (`Access`): "Only super admins can verify integrity"
  (`tenant-events.controller.ts:358`, with the decorator at `:355`). The
  controller's guards (`:80`) include no `RolesGuard`, and none is installed for
  the whole application, so any member of the tenant is served.
* `TemporaryKeepsPermanent` (`RoleAdmin`): "remove any existing temporary
  assignments" (`admin.service.ts:345`). Permanent ones of the same role go too.

Others that a reader of the code should know of, which no property is about:

* a slug with an underscore can be created (`tenants.service.ts:207`) and is then
  refused as malformed (`tenant.guard.ts:170`);
* addresses with `::` are taken for masked ones (`ip-reputation.service.ts:373`), so
  a block of one is stored and never enforced; the events that should lead to a
  block by score carry masked addresses, which `updateReputation` skips (`:257`);
* `logEvent` swallows its errors (`event.service.ts:212`), so a block
  (`ip-reputation.service.ts:337`), a detected reuse (`auth.service.ts:638`), a
  change of roles (`admin.service.ts:210`) or a refusal may leave no event, though
  the caller is answered as if it had;
* three routes for administrators go by a `tenantId` of the query or the body that
  nothing compares with the tenant the guard looked up (`admin.controller.ts:223`,
  `:284`, `:423`, `:516`);
* the route for bulk role changes counts `userIds` and `roleIds` for the record of a
  blocked address before the body is validated (`admin.controller.ts:715`), so
  without them it fails with an error of the server and records nothing;
* the warm-up of reputations stores for a full life what it may have read from
  the key (`ip-reputation.service.ts:655`), so a process that starts prolongs what
  is stale;
* answers that are put together from several queries (`tenants.service.ts:56`,
  `:661`, `admin.service.ts:74`, `ip-reputation.service.ts:181`) may be cached torn;
* the webhook's `axios.post` has no timeout (`security-monitor.service.ts:164`), so an
  alert may stay under way for ever;
* `findOne` and `getTenantStats` fill `tenant:<slug>:stats` with answers of different
  shape (`tenants.service.ts:167`, `:633`);
* a profile that an update made inactive is stored in the cache and served, though
  the query would not find it (`rate-limiting.service.ts:278`);
* `activeSessionsAfter` is logged as 0 although a login may have completed meanwhile
  (`auth.service.ts:750`).

## 9. What is not modelled, and why

* Cookies beyond which token a client holds; JWT signing and the 15 minutes of
  an access token; hashing; the parsing of headers. They are data that no
  property tells apart.
* Queries, pages, exports and statistics over events: they read only. Their
  endpoints, with the guards before them and the records they leave, are in
  `Access`.
* A Redis that does not answer the limiter: the wrapper turns every error into
  null or nothing, and the limiter then admits everybody, so no quota can be
  stated. In `RowCaches` such a Redis is modelled.
* Which limit an endpoint is given from a tenant's profile: a look-up in a table.
* How a reputation follows from an address's events, the scores of bot detection,
  behavioral analysis and device fingerprinting: tuned constants over text
  features and averages, with no statement in the repository of what they should
  yield. Where their verdicts decide something (`SessionGuardVerdict`) the
  decision is a free choice.
* Sanitisation of branding and names: text.
* Users, health checks, wiring: single-row operations or I/O.

## 10. What could be added

* `Scoring`: the scores as functions over bounded inputs, for ranges,
  monotonicity and thresholds, once someone says what they should be.
* A bound for what overlapping checks are allowed within a stretch of time, which
  has to count how often a window is opened again.
* The emission of `EventChain` composed with `SecurityMonitor`, should the monitor
  come to keep its counts outside the process.
