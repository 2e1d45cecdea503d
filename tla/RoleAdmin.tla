------------------------------ MODULE RoleAdmin ------------------------------
(***************************************************************************)
(* Role assignments of the users of one tenant: AdminService.updateUserRole *)
(* and its five operations, bulkUpdateUserRoles, which runs one such call  *)
(* per user side by side, and the hourly job that deletes expired rows.    *)
(* The table has no unique key on user and role, the database runs its     *)
(* transactions at READ COMMITTED, and the updater's own roles are read    *)
(* before the transaction that uses the answer begins.                     *)
(***************************************************************************)
EXTENDS Naturals, FiniteSets

CONSTANTS
  Users, Roles,
  Updaters,  \* the users who ask for changes
  Expiring,  \* pairs of a user and a role of which there may be a row at first
  Admins,    \* the roles that are system roles or named ADMIN and the like
  Parents,   \* pairs of a role and the role it inherits from
  Calls,     \* executions of updateUserRole, each used once
  Duration,  \* temporaryDurationDays
  MaxTime,   \* bound of the clock
  MaxAsked   \* bound: roles named in one call

ASSUME RoleAssumption ==
  /\ Updaters \subseteq Users /\ Updaters # {} /\ Expiring \subseteq Users \X Roles
  /\ Admins \subseteq Roles /\ Parents \subseteq Roles \X Roles
  /\ IsFiniteSet(Calls) /\ Duration \in Nat /\ MaxTime \in Nat /\ MaxAsked \in Nat
  /\ "cleaner" \notin Calls /\ "seed" \notin Calls

Forever == MaxTime + Duration + 1
Times   == 0..Forever
Ops     == {"assign", "remove", "replace", "temporary", "inherit"}
Pcs     == {"new", "begun", "checked", "deleted", "committed",
            "recorded", "ok", "failed"}
Rows    == [call : Calls \cup {"seed"}, user : Users, role : Roles, until : Times]

VARIABLES
  rows,     \* the UserRole table; a row's id is the call that created it and its role
  call,     \* the progress of every call
  bulk,     \* a bulk update: its calls and its answer
  cleaner,  \* the rows the job found, while it runs
  now,
  was       \* ghost: calls whose updater was an administrator at some time in them

vars == <<rows, call, bulk, cleaner, now, was>>

Unborn == [pc |-> "new", user |-> CHOOSE u \in Users : TRUE,
           by |-> CHOOSE u \in Updaters : TRUE, op |-> "assign", roles |-> {},
           until |-> Forever, bypass |-> FALSE, gone |-> {}, made |-> {},
           met |-> {}]

Closed == {"new", "ok", "failed"}
Busy(c)   == call[c].pc \notin Closed
Open(c)   == call[c].pc = "deleted"
Committed(c) == \E s \in {"committed", "recorded", "ok"} : call[c].pc = s

RolesIn(R, u)   == {r.role : r \in {x \in R : x.user = u}}
IsAdmin(R, u)   == RolesIn(R, u) \cap Admins # {}
Asked(c)        == call[c].roles
Inherited(S)    == S \cup {p[2] : p \in {q \in Parents : q[1] \in S}}

CallTypes == [pc : Pcs, user : Users, by : Updaters, op : Ops, roles : SUBSET Roles,
              until : Times, bypass : BOOLEAN, gone : SUBSET Rows, made : SUBSET Rows,
              met : SUBSET (Calls \cup {"cleaner"})]

TypeOK ==
  /\ rows \subseteq Rows
  /\ call \in [Calls -> CallTypes]
  /\ bulk \in [pc : {"none", "running", "done"}, calls : SUBSET Calls, ok : SUBSET Calls]
  /\ cleaner \in [pc : {"idle", "found"}, found : SUBSET Rows]
  /\ now \in 0..MaxTime /\ was \subseteq Calls

-----------------------------------------------------------------------------
Judged(c) == Busy(c) /\ ~Committed(c) /\ ~call[c].bypass
Ghost(R)  == was' = was \cup {c \in Calls : Judged(c) /\ IsAdmin(R, call[c].by)}

Step(c, from, to) == call[c].pc = from /\ call' = [call EXCEPT ![c].pc = to]

\* A call that has committed needs no more of its request.
Forget(c, pc) ==
  [Unborn EXCEPT !.pc = pc, !.by = call[c].by, !.bypass = call[c].bypass,
                 !.met = call[c].met]

Request(u, w, op, roles, until, bypass) ==
  [Unborn EXCEPT !.pc = "begun", !.user = u, !.by = w, !.op = op, !.roles = roles,
                 !.until = until, !.bypass = bypass]

\* A request of its own, its user and roles found in the tenant.  The body may
\* give an end for the rows.
UpdateUserRole(c) ==
  /\ call[c].pc = "new"
  /\ \E u \in Users, w \in Updaters, op \in Ops, roles \in (SUBSET Roles) \ {{}},
        until \in {now, Forever}, bypass \in BOOLEAN :
       /\ Cardinality(roles) <= MaxAsked
       /\ until # Forever => op \in {"assign", "replace"}
       /\ call' = [call EXCEPT ![c] = Request(u, w, op, roles, until, bypass)]
       /\ was' = IF ~bypass /\ IsAdmin(rows, w) THEN was \cup {c} ELSE was
  /\ UNCHANGED <<rows, bulk, cleaner, now>>

\* One call per user, none bypassing the hierarchy; Promise.allSettled.
BulkOf(C, who, w, op, roles) ==
  /\ bulk.pc = "none"
  /\ C # {} /\ \A c \in C : call[c].pc = "new"
  /\ \A c, d \in C : who[c] = who[d] => c = d
  /\ Cardinality(roles) <= MaxAsked
  /\ call' = [c \in Calls |-> IF c \in C
                THEN Request(who[c], w, op, roles, Forever, FALSE) ELSE call[c]]
  /\ was' = IF IsAdmin(rows, w) THEN was \cup C ELSE was
  /\ bulk' = [pc |-> "running", calls |-> C, ok |-> {}]
  /\ UNCHANGED <<rows, cleaner, now>>

BulkUpdateUserRoles ==
  \E C \in SUBSET Calls : \E who \in [C -> Users] : \E w \in Updaters :
  \E op \in {"assign", "remove", "replace"} : \E roles \in (SUBSET Roles) \ {{}} :
    BulkOf(C, who, w, op, roles)

\* (Mutant) any role will do.
ValidateRoleHierarchyAny(c) ==
  /\ call[c].bypass \/ RolesIn(rows, call[c].by) # {}
  /\ Step(c, "begun", "checked")
  /\ UNCHANGED <<rows, bulk, cleaner, now, was>>

ValidateRoleHierarchy(c) ==
  /\ call[c].bypass \/ IsAdmin(rows, call[c].by)
  /\ Step(c, "begun", "checked")
  /\ UNCHANGED <<rows, bulk, cleaner, now, was>>

\* 404, 403 or 400 before the transaction, an error or a rollback in it, an
\* error of Redis after it, or of the event's own data when the user is gone:
\* the caller is told it failed.
Fail(c) ==
  /\ Busy(c)
  /\ \/ /\ Committed(c) /\ call' = [call EXCEPT ![c].pc = "failed"] /\ UNCHANGED was
     \/ /\ ~Committed(c) /\ call' = [call EXCEPT ![c] = [Unborn EXCEPT !.pc = "failed"]]
        /\ was' = was \ {c}
  /\ UNCHANGED <<rows, bulk, cleaner, now>>

-----------------------------------------------------------------------------
\* The five operations: the rows deleted, those created, and their end.
OfRoles(c) == {r \in rows : r.user = call[c].user /\ r.role \in Asked(c)}
OfUser(c)  == {r \in rows : r.user = call[c].user}
NewRows(c, roles, until) ==
  [call : {c}, user : {call[c].user}, role : roles, until : {until}]

\* deleteMany sees what is committed when it starts.  A row another open
\* transaction has deleted makes it wait; the order of the two commits, which
\* is all the wait decides, is left open here.
Transact(c, gone, made) ==
  /\ call[c].pc = "checked"
  /\ call' = [d \in Calls |->
       IF d = c THEN [call[c] EXCEPT !.pc = "deleted", !.gone = gone, !.made = made,
                        !.met = {x \in Calls : Open(x) /\ call[x].user = call[c].user}]
       ELSE IF Open(d) /\ call[d].user = call[c].user
         THEN [call[d] EXCEPT !.met = @ \cup {c}] ELSE call[d]]
  /\ UNCHANGED <<rows, bulk, cleaner, now, was>>

\* (Mutant) the old row is left in place.
AssignRolesTwice(c) == call[c].op = "assign"
  /\ Transact(c, {}, NewRows(c, Asked(c), call[c].until))
AssignRoles(c) == call[c].op = "assign"
  /\ Transact(c, OfRoles(c), NewRows(c, Asked(c), call[c].until))
RemoveRoles(c) == call[c].op = "remove" /\ Transact(c, OfRoles(c), {})
\* (Mutant) what was written for assign: roles not named stay.
ReplaceRolesNamed(c) == call[c].op = "replace"
  /\ Transact(c, OfRoles(c), NewRows(c, Asked(c), call[c].until))
ReplaceRoles(c) == call[c].op = "replace"
  /\ Transact(c, OfUser(c), NewRows(c, Asked(c), call[c].until))
TemporaryAssignRoles(c) == call[c].op = "temporary"
  /\ Transact(c, OfRoles(c), NewRows(c, Asked(c), now + Duration))
InheritRoles(c) == call[c].op = "inherit"
  /\ Transact(c, OfUser(c), NewRows(c, Inherited(Asked(c)), Forever))

After(c) == (rows \ call[c].gone) \cup call[c].made

\* The rows created are nobody else's to see until now.
Commit(c) ==
  /\ call[c].pc = "deleted" /\ call' = [call EXCEPT ![c] = Forget(c, "committed")]
  /\ rows' = After(c) /\ Ghost(After(c))
  /\ UNCHANGED <<bulk, cleaner, now>>

\* logEvent answers null when it cannot store the event, and the call goes on
\* all the same: "recorded" says that it was asked, never that the event exists.
LogRoleChange(c) ==
  Step(c, "committed", "recorded") /\ UNCHANGED <<rows, bulk, cleaner, now, was>>

\* Redis has forgotten the details and the roles of the user: RowCaches.
InvalidateUserCache(c) ==
  Step(c, "recorded", "ok") /\ UNCHANGED <<rows, bulk, cleaner, now, was>>

\* (Mutant) a call that settled counts as one that succeeded.
BulkReportSettled ==
  /\ bulk.pc = "running" /\ \A c \in bulk.calls : ~Busy(c)
  /\ bulk' = [bulk EXCEPT !.pc = "done", !.ok = bulk.calls]
  /\ UNCHANGED <<rows, call, cleaner, now, was>>

BulkReport ==
  /\ bulk.pc = "running" /\ \A c \in bulk.calls : ~Busy(c)
  /\ bulk' = [bulk EXCEPT !.pc = "done", !.ok = {c \in bulk.calls : call[c].pc = "ok"}]
  /\ UNCHANGED <<rows, call, cleaner, now, was>>

-----------------------------------------------------------------------------
\* The job.  A row that ended before now is expired.
Expired(r) == r.until < now

\* (Mutant) rows of the administrators' roles are spared.
FindExpiredSparing ==
  /\ cleaner.pc = "idle"
  /\ LET R == {r \in rows : Expired(r) /\ r.role \notin Admins} IN
       R # {} /\ cleaner' = [pc |-> "found", found |-> R]
  /\ UNCHANGED <<rows, call, bulk, now, was>>

FindExpired ==
  /\ cleaner.pc = "idle" /\ \E r \in rows : Expired(r)
  /\ cleaner' = [pc |-> "found", found |-> {r \in rows : Expired(r)}]
  /\ UNCHANGED <<rows, call, bulk, now, was>>

Removes(R) ==
  /\ cleaner.pc = "found"
  /\ rows' = rows \ R /\ Ghost(rows \ R)
  /\ call' = [c \in Calls |->
       IF Open(c) /\ \E r \in R : r.user = call[c].user
         THEN [call[c] EXCEPT !.met = @ \cup {"cleaner"}] ELSE call[c]]
  /\ cleaner' = [pc |-> "idle", found |-> {}]
  /\ UNCHANGED <<bulk, now>>

\* (Mutant) the rows are deleted by user and role.
DeleteExpiredByRole ==
  Removes({r \in rows : \E f \in cleaner.found : r.user = f.user /\ r.role = f.role})

DeleteExpired == Removes(cleaner.found)

Tick == /\ now < MaxTime /\ now' = now + 1
        /\ UNCHANGED <<rows, call, bulk, cleaner, was>>

-----------------------------------------------------------------------------
Operate(c) == \/ AssignRoles(c) \/ RemoveRoles(c) \/ ReplaceRoles(c)
              \/ TemporaryAssignRoles(c) \/ InheritRoles(c)

Proceed(c) == \/ ValidateRoleHierarchy(c) \/ Operate(c)
              \/ Commit(c) \/ LogRoleChange(c) \/ InvalidateUserCache(c)

\* One updater is an administrator; a user may hold a row that ends now.
Init ==
  /\ \E first \in Updaters, a \in Admins, S \in SUBSET Expiring :
       rows = {[call |-> "seed", user |-> first, role |-> a, until |-> Forever]}
         \cup {[call |-> "seed", user |-> s[1], role |-> s[2], until |-> 0] :
                 s \in S \ {<<first, a>>}}
  /\ call = [c \in Calls |-> Unborn]
  /\ bulk = [pc |-> "none", calls |-> {}, ok |-> {}]
  /\ cleaner = [pc |-> "idle", found |-> {}]
  /\ now = 0 /\ was = {}

Next == \/ \E c \in Calls : UpdateUserRole(c) \/ Proceed(c) \/ Fail(c)
        \/ BulkUpdateUserRoles \/ BulkReport
        \/ FindExpired \/ DeleteExpired \/ Tick

Spec == Init /\ [][Next]_vars

\* Calls run on once begun or fail, the job runs every hour, time passes.
Fairness == /\ \A c \in Calls : WF_vars(Proceed(c) \/ Fail(c))
            /\ WF_vars(BulkReport) /\ WF_vars(Tick)
            /\ WF_vars(FindExpired) /\ WF_vars(DeleteExpired)

FairSpec == Spec /\ Fairness

-----------------------------------------------------------------------------
\* A user holds a role twice only if the two calls that gave it had their
\* transactions open at the same time: each deleted what it saw, neither saw
\* the other's row.
DuplicatesNeedOverlap ==
  \A a, b \in rows :
    a # b /\ a.user = b.user /\ a.role = b.role
      => /\ a.call # "seed" /\ b.call # "seed"
         /\ (a.call \in call[b.call].met \/ b.call \in call[a.call].met)

Wanted(c, before) ==
  CASE call[c].op = "remove"  -> before \ Asked(c)
    [] call[c].op = "replace" -> Asked(c)
    [] call[c].op = "inherit" -> Inherited(Asked(c))
    [] OTHER                  -> before \cup Asked(c)

\* A call whose transaction met no other one changes the roles exactly as its
\* operation says.  Two that meet may leave the union of two replacements.
SerialRolesExact ==
  [][\A c \in Calls : Commit(c) /\ call[c].met = {}
       => LET u == call[c].user IN
          RolesIn(rows', u) = Wanted(c, RolesIn(rows, u))]_vars

\* A row that a call created stands on an administrator's word: the updater was
\* one at some time during the call, or the body bypassed the check.  It need
\* not have been one any more when the row was committed.
GrantsByAdmins ==
  \A r \in rows : r.call = "seed" \/ call[r.call].bypass \/ r.call \in was

\* The job deletes no row that is not expired: a role extended between the two
\* statements has a new row, which the second one does not name.
CleanerDeletesOnlyExpired ==
  [][DeleteExpired => \A r \in rows \ rows' : Expired(r)]_vars

\* The answer of a bulk update is final: none of its calls is still at work, and
\* a user counted as updated has the change committed, on the word of somebody
\* who was an administrator during the call.  That its event is stored is not
\* promised, since logEvent swallows its errors, and a user counted as failed may
\* have been changed all the same.
BulkCounts ==
  /\ bulk.pc = "done" => \A c \in bulk.calls : ~Busy(c)
  /\ \A c \in bulk.ok : Committed(c) /\ c \in was

\* A row the job has found never outlives it: it stays on the job's list until
\* it is gone, and no call brings it back, then or later.
FoundRowsGo ==
  \A r \in Rows : [](r \in cleaner.found => [](r \in cleaner.found \/ r \notin rows))

\* An expired row, which the guards still honour, is deleted in the end.
ExpiredEventuallyGone == <>[](\A r \in rows : ~Expired(r))

\* admin.service.ts:345 removes "existing temporary assignments" before it
\* grants one: a permanent assignment would stay.
TemporaryKeepsPermanent ==
  [][\A c \in Calls : Commit(c) /\ call[c].op = "temporary"
       => \A r \in rows : r.until = Forever => r \in rows']_vars
=============================================================================
