----------------------------- MODULE RowCaches ------------------------------
(***************************************************************************)
(* The Redis copies of database rows: tenants, tenant lists and counts,    *)
(* user lists, role details, rate-limit profiles and address reputations.  *)
(* Readers look, query and fill; writers commit and invalidate, each in    *)
(* the order its service has.  One behaviour is about one service, `svc`,  *)
(* and one row (or the set of rows one answer is computed from), whose     *)
(* versions are numbered.  An answer composed of several queries is given  *)
(* the version of the oldest of them, so it equals the row only if all of  *)
(* it does.  Implements CachedRow.                                         *)
(***************************************************************************)
EXTENDS Naturals, FiniteSets

CONSTANTS
  Readers,  \* handlers that read through the cache
  Writers,  \* handlers that change the row
  Life,     \* time-to-live of a filled key
  Delay,    \* longest time a handler holds a version before its last step
  MaxWarmups, \* bound: processes that start and warm up the reputations
  MaxRow,   \* bound: the versions of the row
  Cap       \* bound: ages are not told apart beyond this

Bounds == (1 + MaxWarmups) * (Life + Delay)

ASSUME CacheAssumption ==
  /\ Life \in Nat \ {0} /\ Delay \in Nat \ {0} /\ MaxRow \in Nat /\ Cap \in Nat
  /\ MaxWarmups \in Nat \ {0} /\ Cap > Bounds
  /\ Readers \cap Writers = {}

\* Services by what their writers do with the keys.
Inside   == {"tenant", "tenantList"}       \* delete before the commit
After    == {"userRoles", "reputation"}    \* delete after the commit
Through  == {"profile"}                    \* store their own value after it
Untended == {"tenantPage", "tenantStats", "userList"}
Services == Inside \cup After \cup Through \cup Untended

\* Services that answer from several queries outside a transaction.
Composed == Untended \cup {"tenantList", "reputation"}

Keys     == {"front", "deep"}   \* "deep" is used by tenants only: with_data
Versions == 0..MaxRow
Gone     == [val |-> 0, ttl |-> 0]
Rest     == [pc |-> "idle", val |-> 0, elapsed |-> 0]
Off      == [pc |-> "idle", op |-> "none", val |-> 0, elapsed |-> 0,
             exposed |-> FALSE, metWriter |-> FALSE]

VARIABLES
  svc,     \* the service; it never changes
  warmups, \* the warm-ups of the reputations so far
  status,  \* of the tenant, for svc = "tenant"
  row,     \* the committed version
  age,     \* how long ago each version was replaced
  cache,   \* the keys: a version and its remaining time, 0 when gone
  reader, writer,
  lag      \* ghost: how long ago the last answer had been replaced

vars == <<svc, warmups, status, row, age, cache, reader, writer, lag>>

ReadPcs  == {"idle", "deep", "query", "more", "refresh",
             "fillDeep", "fillOnly", "fill", "restore"}
WritePcs == {"idle", "found", "locked", "deleted", "cleared", "committed"}
Holding  == {"more", "fillDeep", "fillOnly", "fill", "restore", "committed"}
Ops      == {"none", "write", "create", "update", "remove", "activate"}

TypeOK ==
  /\ svc \in Services /\ warmups \in 0..MaxWarmups
  /\ status \in {"ACTIVE", "SUSPENDED"}
  /\ row \in Versions
  /\ age \in [Versions -> 0..Cap]
  /\ cache \in [Keys -> [val : Versions, ttl : 0..Life]]
  /\ reader \in [Readers -> [pc : ReadPcs, val : Versions, elapsed : 0..Delay]]
  /\ writer \in [Writers -> [pc : WritePcs, op : Ops, val : Versions,
                             elapsed : 0..Delay,
                             exposed : BOOLEAN, metWriter : BOOLEAN]]
  /\ lag \in 0..Cap

-----------------------------------------------------------------------------
Lag(v)    == IF v = row THEN 0 ELSE age[v]
Live(k)   == cache[k].ttl > 0
BusyR(r)  == reader[r].pc # "idle"
BusyW(w)  == writer[w].pc # "idle"
Locked(w) == writer[w].pc \in {"locked", "deleted", "cleared"}

\* (Mutant) stored as good as for ever.
StoredForever(k, v) == [cache EXCEPT ![k] = [val |-> v, ttl |-> Life + Cap]]

\* setex: the key holds v for a full life.
Stored(k, v) == [cache EXCEPT ![k] = [val |-> v, ttl |-> Life]]

\* The Redis service swallows the command's error: the handler goes on.
Fill(k, v) == cache' \in {Stored(k, v), cache}

Hand(r, pc, v) == reader' = [reader EXCEPT ![r].pc = pc, ![r].val = v]
Answer(r, v)   == lag' = Lag(v) /\ reader' = [reader EXCEPT ![r] = Rest]
Move(w, pc)    == writer' = [writer EXCEPT ![w].pc = pc]

\* Ghost: the writers in flight when a reader starts, who cannot count on the
\* keys they delete staying deleted.
MeetReader == writer' = [w \in Writers |-> IF BusyW(w)
                THEN [writer[w] EXCEPT !.exposed = TRUE] ELSE writer[w]]

-----------------------------------------------------------------------------
\* Reading through one key: get; on a miss, or an error that get swallows,
\* query; setex; answer.
Look(r, next) ==
  /\ reader[r].pc = "idle"
  /\ \/ Live("front") /\ lag' = Lag(cache["front"].val) /\ UNCHANGED <<reader, writer>>
     \/ Hand(r, next, 0) /\ MeetReader /\ UNCHANGED lag
  /\ UNCHANGED <<svc, warmups, status, row, age, cache>>

\* The first query of an answer, or its only one.
Query(r, from, next) ==
  /\ reader[r].pc = from
  /\ Hand(r, next, row)
  /\ UNCHANGED <<svc, warmups, status, row, age, cache, writer, lag>>

\* The last query of a composed answer: the row has perhaps changed since the
\* first, and the answer is as old as that one.
QueryMore(r) ==
  /\ reader[r].pc = "more"
  /\ Hand(r, "fill", reader[r].val)
  /\ UNCHANGED <<svc, warmups, status, row, age, cache, writer, lag>>

FillAnd(r, from, k) ==
  /\ reader[r].pc = from
  /\ Fill(k, reader[r].val)
  /\ Answer(r, reader[r].val)
  /\ UNCHANGED <<svc, warmups, status, row, age, writer>>

ReadThrough(r) ==
  \/ Look(r, "query")
  \/ Query(r, "query", IF svc \in Composed THEN "more" ELSE "fill")
  \/ QueryMore(r)
  \/ FillAnd(r, "fill", "front")

FindAll(r)            == svc \in {"tenantList", "tenantPage"} /\ ReadThrough(r)
GetTenantStats(r)     == svc = "tenantStats" /\ ReadThrough(r)
FindAllUsers(r)       == svc = "userList" /\ ReadThrough(r)
GetUserRoleDetails(r) == svc = "userRoles" /\ ReadThrough(r)
GetProfile(r)         == svc = "profile" /\ ReadThrough(r)
GetReputation(r)      == svc = "reputation" /\ ReadThrough(r)

\* Querying and storing whatever the key holds: a process that starts stores
\* every profile; every event of an address has its reputation computed anew
\* and stored, after a getReputation and perhaps a block or an unblock, which
\* are handlers of their own here.  Counted as answers, though nobody is given
\* them.
QueryAnyway(r) ==
  /\ reader[r].pc = "idle" /\ Hand(r, "query", 0) /\ MeetReader
  /\ UNCHANGED <<svc, warmups, status, row, age, cache, lag>>

WarmupCache(r)      == svc = "profile" /\ QueryAnyway(r)
UpdateReputation(r) == svc = "reputation" /\ QueryAnyway(r)

\* A process that starts stores the reputations once more as getReputation
\* returned them: from the key, or queried and already stored.
WarmupRead(r) ==
  /\ svc = "reputation" /\ warmups < MaxWarmups /\ warmups' = warmups + 1
  /\ \/ /\ reader[r].pc = "idle" /\ Live("front")
        /\ Hand(r, "restore", cache["front"].val)
        /\ MeetReader /\ UNCHANGED cache
     \/ /\ reader[r].pc = "fill" /\ Fill("front", reader[r].val)
        /\ Hand(r, "restore", reader[r].val)
        /\ UNCHANGED writer
  /\ UNCHANGED <<svc, status, row, age, lag>>

WarmupStore(r) == svc = "reputation" /\ FillAnd(r, "restore", "front")

\* A tenant has two keys; the second outlives and refills the first.
FindOneLook(r) == svc = "tenant" /\ Look(r, "deep")

FindOneDeep(r) ==
  /\ svc = "tenant" /\ reader[r].pc = "deep"
  /\ \/ Live("deep") /\ Hand(r, "fill", cache["deep"].val)
     \/ Hand(r, "query", 0)
  /\ UNCHANGED <<svc, warmups, status, row, age, cache, writer, lag>>

\* With counts asked for, neither key is believed.
FindOneRefresh(r) ==
  /\ svc = "tenant" /\ reader[r].pc = "idle"
  /\ Hand(r, "refresh", 0) /\ MeetReader
  /\ UNCHANGED <<svc, warmups, status, row, age, cache, lag>>

FindOneQuery(r) == svc = "tenant" /\ (\/ Query(r, "query", "fillDeep")
                                      \/ Query(r, "refresh", "fillOnly"))

FindOneFillDeep(r) ==
  /\ svc = "tenant" /\ reader[r].pc = "fillDeep"
  /\ Fill("deep", reader[r].val)
  /\ Hand(r, "fill", reader[r].val)
  /\ UNCHANGED <<svc, warmups, status, row, age, writer, lag>>

FindOneStats(r) == svc = "tenant" /\ FillAnd(r, "fillOnly", "deep")
FindOneFill(r)  == svc = "tenant" /\ FillAnd(r, "fill", "front")

FindOne(r) == \/ FindOneLook(r) \/ FindOneDeep(r) \/ FindOneRefresh(r)
              \/ FindOneQuery(r) \/ FindOneFillDeep(r)
              \/ FindOneStats(r) \/ FindOneFill(r)

-----------------------------------------------------------------------------
\* A writer's handler starts: the row is found and its state checked.
Start(w, op, pc) ==
  /\ writer[w].pc = "idle"
  /\ row + Cardinality({x \in Writers : BusyW(x)}) < MaxRow
  /\ writer' = [x \in Writers |->
       IF x = w THEN [Off EXCEPT !.pc = pc, !.op = op,
                        !.exposed = \E r \in Readers : BusyR(r),
                        !.metWriter = \E y \in Writers : BusyW(y)]
       ELSE IF BusyW(x) THEN [writer[x] EXCEPT !.metWriter = TRUE]
       ELSE writer[x]]
  /\ UNCHANGED <<svc, warmups, status, row, age, cache, reader, lag>>

Create(w)   == svc = "tenantList" /\ Start(w, "create", "found")
Update(w)   == svc \in Inside /\ Start(w, "update", "found")
Remove(w)   == svc \in Inside /\ status # "SUSPENDED" /\ Start(w, "remove", "found")
Activate(w) == svc \in Inside /\ status # "ACTIVE" /\ Start(w, "activate", "found")

\* Every other service: the statement that commits the row comes first.
Begin(w) == svc \notin Inside /\ Start(w, "write", "found")

\* tx.tenant.update waits for the row lock of another transaction.
LockRow(w) ==
  /\ svc \in Inside /\ writer[w].pc = "found"
  /\ \A x \in Writers : ~Locked(x)
  /\ Move(w, "locked")
  /\ UNCHANGED <<svc, warmups, status, row, age, cache, reader, lag>>

\* del: when it fails the handler is told of no key deleted and goes on.
Delete(w, from, k, next) ==
  /\ writer[w].pc = from
  /\ \/ cache' = [cache EXCEPT ![k] = Gone] /\ Move(w, next)
     \/ UNCHANGED cache
        /\ writer' = [writer EXCEPT ![w].pc = next, ![w].exposed = TRUE]
  /\ UNCHANGED <<svc, warmups, status, row, age, reader, lag>>

\* (Mutant) the second key is deleted under the name of the first.
DeleteOldName(w) == svc \in Inside /\ Delete(w, "deleted", "front", "cleared")

DeleteBasic(w)    == svc \in Inside /\ Delete(w, "locked", "front", "deleted")
DeleteWithData(w) == svc \in Inside /\ Delete(w, "deleted", "deep", "cleared")

NewStatus(op) == CASE op = "remove" -> "SUSPENDED" [] op = "activate" -> "ACTIVE"
                   [] OTHER -> status

\* The new version is visible; later ages count from here.
Commit(w, from) ==
  /\ writer[w].pc = from /\ row < MaxRow
  /\ row' = row + 1
  /\ status' = NewStatus(writer[w].op)
  /\ UNCHANGED <<svc, warmups, age, cache, reader, lag>>

CommitTenant(w) == svc \in Inside /\ Commit(w, "cleared")
                     /\ writer' = [writer EXCEPT ![w] = Off]

CommitRow(w) == svc \notin Inside /\ Commit(w, "found")
  /\ writer' = [writer EXCEPT ![w] =
                  IF svc \in Untended THEN Off
                  ELSE [@ EXCEPT !.pc = "committed", !.val = row + 1]]

Finish(w, entry) ==
  /\ writer[w].pc = "committed"
  /\ cache' = [cache EXCEPT !["front"] = entry]
  /\ writer' = [writer EXCEPT ![w] = Off]
  /\ UNCHANGED <<svc, warmups, status, row, age, reader, lag>>

InvalidateUserCache(w)   == svc = "userRoles" /\ Finish(w, Gone)
ClearCachedReputation(w) == svc = "reputation" /\ Finish(w, Gone)
StoreProfile(w) == svc = "profile" /\ Finish(w, [val |-> writer[w].val, ttl |-> Life])

-----------------------------------------------------------------------------
\* A process dies, an error ends the handler (and rolls its transaction back),
\* or the handler's last command fails and the error is swallowed.
Fail(p) ==
  /\ \/ p \in Readers /\ BusyR(p) /\ reader' = [reader EXCEPT ![p] = Rest]
        /\ UNCHANGED writer
     \/ p \in Writers /\ BusyW(p) /\ writer' = [writer EXCEPT ![p] = Off]
        /\ UNCHANGED reader
  /\ UNCHANGED <<svc, warmups, status, row, age, cache, lag>>

\* Redis loses a key: eviction, a restart, another handler's DEL.
Evict(k) ==
  /\ Live(k)
  /\ cache' = [cache EXCEPT ![k] = Gone]
  /\ UNCHANGED <<svc, warmups, status, row, age, reader, writer, lag>>

\* Time passes, as long as no handler holds a version for more than Delay.
Older(a)   == IF a < Cap THEN a + 1 ELSE a
\* (Mutant) a key without expiry.
ShorterNever(e) == e
Shorter(e) == IF e.ttl > 1 THEN [e EXCEPT !.ttl = @ - 1] ELSE Gone
Longer(p)  == IF p.pc \in Holding THEN [p EXCEPT !.elapsed = @ + 1] ELSE p
Due(p)     == p.pc \in Holding /\ p.elapsed = Delay

Tick ==
  /\ \A r \in Readers : ~Due(reader[r])
  /\ \A w \in Writers : ~Due(writer[w])
  /\ age' = [v \in Versions |-> IF v < row THEN Older(age[v]) ELSE 0]
  /\ cache' = [k \in Keys |-> Shorter(cache[k])]
  /\ reader' = [r \in Readers |-> Longer(reader[r])]
  /\ writer' = [w \in Writers |-> Longer(writer[w])]
  /\ UNCHANGED <<svc, warmups, status, row, lag>>

-----------------------------------------------------------------------------
Read(r) == \/ FindAll(r) \/ GetTenantStats(r) \/ FindAllUsers(r)
           \/ GetUserRoleDetails(r) \/ GetProfile(r) \/ GetReputation(r)
           \/ WarmupCache(r) \/ UpdateReputation(r)
           \/ WarmupRead(r) \/ WarmupStore(r) \/ FindOne(r)

Arrive(w) == Create(w) \/ Update(w) \/ Remove(w) \/ Activate(w) \/ Begin(w)

Write(w) == \/ LockRow(w) \/ DeleteBasic(w) \/ DeleteWithData(w)
            \/ CommitTenant(w) \/ CommitRow(w) \/ InvalidateUserCache(w)
            \/ ClearCachedReputation(w) \/ StoreProfile(w)

Init ==
  /\ svc \in Services /\ warmups = 0
  /\ status = "ACTIVE" /\ row = 0 /\ lag = 0
  /\ age = [v \in Versions |-> 0]
  /\ cache = [k \in Keys |-> Gone]
  /\ reader = [r \in Readers |-> Rest]
  /\ writer = [w \in Writers |-> Off]

Next == \/ \E r \in Readers : Read(r)
        \/ \E w \in Writers : Arrive(w) \/ Write(w)
        \/ \E p \in Readers \cup Writers : Fail(p)
        \/ \E k \in Keys : Evict(k)
        \/ Tick

Spec == Init /\ [][Next]_vars

\* Handlers run on once started, and time passes.
Fairness == /\ \A r \in Readers : WF_vars(BusyR(r) /\ Read(r))
            /\ \A w \in Writers : WF_vars(Write(w))
            /\ WF_vars(Tick)

FairSpec == Spec /\ Fairness

-----------------------------------------------------------------------------
\* What is served was, every part of it, the row not longer ago than a key's
\* life and the handler that filled it.  A tenant's first key may be filled
\* from its second, so twice that, and every warm-up may store a reputation
\* for one life more.  Whatever overlaps, dies, fails or is evicted.
Bound == CASE svc = "tenant" -> 2 * (Life + Delay)
           [] svc = "reputation" -> Bounds
           [] OTHER -> Life + Delay

Abstract == INSTANCE CachedRow WITH bound <- Bound

ImplementsCachedRow == Abstract!Spec

Current == \A k \in Keys : Live(k) => cache[k].val = row

LastStep(w) == \/ CommitTenant(w) \/ InvalidateUserCache(w)
               \/ ClearCachedReputation(w) \/ StoreProfile(w)

Alone(w) == /\ ~writer[w].metWriter /\ \A r \in Readers : ~BusyR(r)

\* When a writer that met no other writer and whose commands Redis did completes,
\* and no reader is left in flight, no key holds an older version: with both keys
\* of a tenant deleted before the commit this takes a writer that met no reader
\* either; with the invalidation after the commit a reader that came and went
\* does no harm.
WriterSettles ==
  [][\A w \in Writers :
       LastStep(w) /\ Alone(w) /\ (svc \in Inside => ~writer[w].exposed)
         => Current']_vars

\* tenants.service.ts:478 says the keys are deleted after the transaction
\* completes; then the same would hold of tenants without that condition.
InvalidatedAfterCommit ==
  [][\A w \in Writers : LastStep(w) /\ Alone(w) => Current']_vars

\* Once the row no longer changes, and no process starts any more and warms up
\* what it finds (MaxWarmups), every key comes to hold the row or to be gone,
\* even where no writer invalidates anything.
EventuallyCurrent == <>[]Current
-----------------------------------------------------------------------------
(* The invariant behind WriterSettles; RowCachesProofs shows it inductive *)

\* Who is in flight together has met, and a writer that met nobody holds the
\* row's own version and finds the keys it deleted still gone.
SettleInv ==
  /\ svc # "tenant" => ~Live("deep")
  /\ \A w, x \in Writers : BusyW(w) /\ BusyW(x) /\ w # x => writer[w].metWriter
  /\ \A w \in Writers, r \in Readers : BusyW(w) /\ BusyR(r) => writer[w].exposed
  /\ \A w \in Writers :
       /\ writer[w].pc = "committed" /\ ~writer[w].metWriter
            => writer[w].val = row
       /\ svc \in Inside /\ ~writer[w].exposed =>
            /\ writer[w].pc \in {"deleted", "cleared"} => ~Live("front")
            /\ writer[w].pc = "cleared" => ~Live("deep")
=============================================================================
