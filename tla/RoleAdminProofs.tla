--------------------------- MODULE RoleAdminProofs ---------------------------
(***************************************************************************)
(* What RoleAdmin's run checks for two calls of one updater holds for every *)
(* number of users, roles, updaters and calls.                             *)
(***************************************************************************)
EXTENDS RoleAdmin, TLAPS

Ended     == {"committed", "recorded", "ok", "failed"}

\* No two rows of one call give the same role.
OneRowPerRole ==
  \A a, b \in rows : a.call = b.call /\ a.call # "seed" /\ a.role = b.role => a = b

\* What a call's transaction deletes and creates is its user's, and its own.
OwnRows == \A c \in Calls :
  /\ \A r \in call[c].made : r.call = c /\ r.user = call[c].user
  /\ \A a, b \in call[c].made : a.role = b.role => a = b
  /\ \A r \in call[c].gone : r.user = call[c].user

\* Rows in the table are those of calls whose transaction is over.
RowsAreDone == \A r \in rows : r.call = "seed" \/ call[r.call].pc \in Ended

-----------------------------------------------------------------------------
\* Every step keeps the types.

LEMMA InheritedRoles == ASSUME NEW S \in SUBSET Roles PROVE Inherited(S) \subseteq Roles
  BY RoleAssumption DEF Inherited

LEMMA TimesFacts ==
  /\ Forever \in Times
  /\ \A t \in 0..MaxTime : t \in Times /\ t + Duration \in Times /\ t # Forever
  BY RoleAssumption DEF Times, Forever

LEMMA UnbornType == Unborn \in CallTypes
  BY RoleAssumption, TimesFacts DEF Unborn, CallTypes, Pcs, Ops

LEMMA RequestType ==
  ASSUME NEW u \in Users, NEW w \in Updaters, NEW op \in Ops, NEW S \in SUBSET Roles,
         NEW until \in Times, NEW b \in BOOLEAN
  PROVE  Request(u, w, op, S, until, b) \in CallTypes
  BY UnbornType DEF Request, Unborn, CallTypes, Pcs

LEMMA NewRowsType ==
  ASSUME TypeOK, NEW c \in Calls, NEW S \in SUBSET Roles, NEW until \in Times
  PROVE  NewRows(c, S, until) \subseteq Rows
  BY DEF NewRows, Rows, TypeOK, CallTypes

\* What an operation deletes, and the roles it gives.
GoneOf(c)  == IF call[c].op \in {"replace", "inherit"} THEN OfUser(c) ELSE OfRoles(c)
GivenBy(c) == CASE call[c].op = "inherit" -> Inherited(Asked(c))
                [] call[c].op = "remove"  -> {}
                [] OTHER                  -> Asked(c)

LEMMA NewRowsFields ==
  ASSUME NEW c, NEW S, NEW until
  PROVE  /\ \A r \in NewRows(c, S, until) : r.call = c /\ r.user = call[c].user /\ r.role \in S
         /\ \A s \in S : \E r \in NewRows(c, S, until) : r.user = call[c].user /\ r.role = s
         /\ \A a, b \in NewRows(c, S, until) : a.role = b.role => a = b
<1>1. ASSUME NEW s \in S
      PROVE  \E r \in NewRows(c, S, until) : r.user = call[c].user /\ r.role = s
  <2>1. [call |-> c, user |-> call[c].user, role |-> s, until |-> until]
          \in NewRows(c, S, until)
    BY DEF NewRows
  <2>2. QED
    BY <2>1
<1>2. QED
  BY <1>1 DEF NewRows

LEMMA GoneAndGiven ==
  ASSUME TypeOK, NEW c \in Calls
  PROVE  GoneOf(c) \subseteq Rows /\ GivenBy(c) \subseteq Roles
<1>1. call[c] \in CallTypes
  BY DEF TypeOK
<1>2. Asked(c) \subseteq Roles /\ Inherited(Asked(c)) \subseteq Roles
  BY <1>1, InheritedRoles DEF Asked, CallTypes
<1>3. QED
  BY <1>2 DEF GoneOf, GivenBy, OfRoles, OfUser, TypeOK

LEMMA Operation ==
  ASSUME TypeOK, NEW c \in Calls, Operate(c)
  PROVE  \E until \in Times : Transact(c, GoneOf(c), NewRows(c, GivenBy(c), until))
<1>1. now + Duration \in Times /\ Forever \in Times /\ call[c].until \in Times
  BY TimesFacts DEF TypeOK, CallTypes
<1>2. \A until : NewRows(c, {}, until) = {}
  BY DEF NewRows
<1> USE DEF GoneOf, GivenBy
<1>3. CASE AssignRoles(c)
  BY <1>1, <1>3 DEF AssignRoles
<1>4. CASE RemoveRoles(c)
  BY <1>1, <1>2, <1>4 DEF RemoveRoles
<1>5. CASE ReplaceRoles(c)
  BY <1>1, <1>5 DEF ReplaceRoles
<1>6. CASE TemporaryAssignRoles(c)
  BY <1>1, <1>6 DEF TemporaryAssignRoles
<1>7. CASE InheritRoles(c)
  BY <1>1, <1>7 DEF InheritRoles
<1>8. QED
  BY <1>3, <1>4, <1>5, <1>6, <1>7 DEF Operate

LEMMA TransactType ==
  ASSUME TypeOK, NEW c \in Calls, NEW gone \in SUBSET Rows, NEW made \in SUBSET Rows,
         Transact(c, gone, made)
  PROVE  call' \in [Calls -> CallTypes]
<1> DEFINE others == {x \in Calls : Open(x) /\ call[x].user = call[c].user}
<1>1. call[c] \in CallTypes /\ \A d \in Calls : call[d] \in CallTypes
  BY DEF TypeOK
<1>2. [call[c] EXCEPT !.pc = "deleted", !.gone = gone, !.made = made,
                     !.met = others] \in CallTypes
  BY <1>1 DEF CallTypes, Pcs
<1>3. ASSUME NEW d \in Calls
      PROVE  [call[d] EXCEPT !.met = @ \cup {c}] \in CallTypes
  BY <1>1 DEF CallTypes
<1>4. QED
  BY <1>1, <1>2, <1>3 DEF Transact

LEMMA BulkType ==
  ASSUME TypeOK, NEW C \in SUBSET Calls, NEW who \in [C -> Users], NEW w \in Updaters,
         NEW op \in {"assign", "remove", "replace"}, NEW S \in (SUBSET Roles) \ {{}},
         BulkOf(C, who, w, op, S)
  PROVE  TypeOK'
<1> USE DEF TypeOK
<1>1. \A c \in C : Request(who[c], w, op, S, Forever, FALSE) \in CallTypes
  BY RequestType, TimesFacts DEF Ops
<1>2. call' \in [Calls -> CallTypes]
  BY <1>1 DEF BulkOf
<1>3. was' \subseteq Calls
  BY DEF BulkOf
<1>4. bulk' \in [pc : {"none", "running", "done"}, calls : SUBSET Calls, ok : SUBSET Calls]
  BY DEF BulkOf
<1>5. QED
  BY <1>2, <1>3, <1>4 DEF BulkOf

LEMMA TypeStep == TypeOK /\ [Next]_vars => TypeOK'
<1> SUFFICES ASSUME TypeOK, [Next]_vars PROVE TypeOK'
  OBVIOUS
<1> USE DEF TypeOK
<1>0. /\ \A d \in Calls : call[d] \in CallTypes
      /\ \A pc \in Pcs : \A d \in Calls : [call[d] EXCEPT !.pc = pc] \in CallTypes
      /\ Pcs = {"new", "begun", "checked", "deleted", "committed", "recorded", "ok", "failed"}
  BY DEF CallTypes, Pcs
<1>1. ASSUME NEW c \in Calls, UpdateUserRole(c) PROVE TypeOK'
  <2>1. call' \in [Calls -> CallTypes]
    BY <1>1, RequestType, TimesFacts DEF UpdateUserRole
  <2>2. QED
    BY <1>1, <2>1 DEF UpdateUserRole
<1>2. ASSUME BulkUpdateUserRoles PROVE TypeOK'
  <2>1. PICK C \in SUBSET Calls : \E who \in [C -> Users] : \E w \in Updaters :
          \E op \in {"assign", "remove", "replace"} : \E S \in (SUBSET Roles) \ {{}} :
            BulkOf(C, who, w, op, S)
    BY <1>2, Zenon DEF BulkUpdateUserRoles
  <2>2. PICK who \in [C -> Users] : \E w \in Updaters :
          \E op \in {"assign", "remove", "replace"} : \E S \in (SUBSET Roles) \ {{}} :
            BulkOf(C, who, w, op, S)
    BY <2>1
  <2>3. PICK w \in Updaters, op \in {"assign", "remove", "replace"},
             S \in (SUBSET Roles) \ {{}} : BulkOf(C, who, w, op, S)
    BY <2>2
  <2> HIDE DEF TypeOK
  <2>4. QED
    BY <2>3, BulkType
<1>3. ASSUME NEW c \in Calls, ValidateRoleHierarchy(c) PROVE TypeOK'
  BY <1>0, <1>3 DEF ValidateRoleHierarchy, Step
<1>4. ASSUME NEW c \in Calls, Fail(c) PROVE TypeOK'
  <2>1. [Unborn EXCEPT !.pc = "failed"] \in CallTypes
    BY UnbornType DEF CallTypes, Pcs
  <2>2. QED
    BY <1>0, <1>4, <2>1 DEF Fail
<1>5. ASSUME NEW c \in Calls, Operate(c) PROVE TypeOK'
  <2> DEFINE made(until) == NewRows(c, GivenBy(c), until)
  <2>1. PICK until \in Times : Transact(c, GoneOf(c), made(until))
    BY <1>5, Operation
  <2>2. GoneOf(c) \in SUBSET Rows /\ made(until) \in SUBSET Rows
    BY GoneAndGiven, NewRowsType
  <2>3. call' \in [Calls -> CallTypes]
    BY <2>1, <2>2, TransactType
  <2>4. QED
    BY <2>1, <2>3 DEF Transact
<1>6. ASSUME NEW c \in Calls, Commit(c) PROVE TypeOK'
  <2>1. Forget(c, "committed") \in CallTypes
    <3>1. /\ call[c].by \in Updaters /\ call[c].bypass \in BOOLEAN
          /\ call[c].met \in SUBSET (Calls \cup {"cleaner"})
      BY <1>0 DEF CallTypes
    <3>2. QED
      BY <3>1, UnbornType DEF Forget, CallTypes, Pcs
  <2>2. After(c) \subseteq Rows
    BY <1>0 DEF After, CallTypes
  <2>3. QED
    BY <1>0, <1>6, <2>1, <2>2 DEF Commit, Ghost
<1>7. ASSUME NEW c \in Calls, LogRoleChange(c) PROVE TypeOK'
  BY <1>0, <1>7 DEF LogRoleChange, Step
<1>8. ASSUME NEW c \in Calls, InvalidateUserCache(c) PROVE TypeOK'
  BY <1>0, <1>8 DEF InvalidateUserCache, Step
<1>9. ASSUME BulkReport PROVE TypeOK'
  BY <1>9 DEF BulkReport
<1>10. ASSUME FindExpired PROVE TypeOK'
  BY <1>10 DEF FindExpired
<1>11. ASSUME DeleteExpired PROVE TypeOK'
  <2>1. ASSUME NEW c \in Calls
        PROVE  [call[c] EXCEPT !.met = @ \cup {"cleaner"}] \in CallTypes
    <3>1. call[c] \in CallTypes
      BY <1>0
    <3>2. QED
      BY <3>1 DEF CallTypes
  <2>2. call' \in [Calls -> CallTypes]
    BY <1>0, <1>11, <2>1 DEF DeleteExpired, Removes
  <2>3. QED
    BY <1>11, <2>2 DEF DeleteExpired, Removes, Ghost
<1>12. ASSUME Tick PROVE TypeOK'
  BY <1>12, RoleAssumption DEF Tick
<1>13. CASE UNCHANGED vars
  BY <1>13 DEF vars
<1>14. QED
  BY <1>1, <1>2, <1>3, <1>4, <1>5, <1>6, <1>7, <1>8, <1>9, <1>10, <1>11, <1>12, <1>13
     DEF Next, Proceed

-----------------------------------------------------------------------------
\* What a step does to the calls, field by field.

Same(d)   == call'[d] = call[d]
Alike(d)  == /\ call'[d].user = call[d].user /\ call'[d].by = call[d].by
             /\ call'[d].op = call[d].op /\ call'[d].roles = call[d].roles
             /\ call'[d].bypass = call[d].bypass
             /\ call'[d].gone = call[d].gone /\ call'[d].made = call[d].made
Blank(d)  == call'[d].gone = {} /\ call'[d].made = {}
Others(c) == \A d \in Calls \ {c} : Same(d)

\* Met(d, x): d goes on, having met x.
Met(d, x) == /\ Open(d) /\ Alike(d) /\ call'[d].pc = call[d].pc
             /\ call'[d].met = call[d].met \cup {x}

LEMMA BeginFields ==
  ASSUME TypeOK, NEW c \in Calls, UpdateUserRole(c)
  PROVE  /\ Others(c) /\ rows' = rows
         /\ call[c].pc = "new" /\ call'[c].pc = "begun" /\ Blank(c)
  BY DEF TypeOK, UpdateUserRole, Others, Same, Blank, Request, Unborn

LEMMA BulkFields ==
  ASSUME TypeOK, BulkUpdateUserRoles
  PROVE  /\ rows' = rows
         /\ \A d \in Calls : \/ Same(d)
                            \/ /\ call[d].pc = "new" /\ call'[d].pc = "begun"
                               /\ Blank(d)
<1>1. ASSUME NEW C \in SUBSET Calls, NEW who \in [C -> Users], NEW w \in Updaters,
             NEW op \in {"assign", "remove", "replace"}, NEW S \in (SUBSET Roles) \ {{}},
             BulkOf(C, who, w, op, S)
      PROVE  /\ rows' = rows
             /\ \A d \in Calls : \/ Same(d)
                                \/ /\ call[d].pc = "new" /\ call'[d].pc = "begun"
                                   /\ Blank(d)
  BY <1>1 DEF BulkOf, TypeOK, Same, Blank, Request, Unborn
<1>2. QED
  BY <1>1, Zenon DEF BulkUpdateUserRoles

\* The steps that only move a call on.
Moves(c) == \/ ValidateRoleHierarchy(c) \/ LogRoleChange(c) \/ InvalidateUserCache(c)
            \/ Fail(c) /\ Committed(c)

LEMMA MoveFields ==
  ASSUME TypeOK, NEW c \in Calls, Moves(c)
  PROVE  /\ Others(c) /\ rows' = rows /\ was' = was
         /\ Alike(c) /\ call'[c].met = call[c].met
         /\ \/ call[c].pc = "begun" /\ call'[c].pc = "checked" /\ ValidateRoleHierarchy(c)
            \/ call[c].pc = "committed" /\ call'[c].pc = "recorded" /\ LogRoleChange(c)
            \/ call[c].pc = "recorded" /\ call'[c].pc = "ok"
            \/ call[c].pc \in {"committed", "recorded"} /\ call'[c].pc = "failed"
<1>1. call[c] \in CallTypes /\ call \in [Calls -> CallTypes]
  BY DEF TypeOK
<1>2. \A pc \in Pcs : /\ [call[c] EXCEPT !.pc = pc].pc = pc
                      /\ [call[c] EXCEPT !.pc = pc].user = call[c].user
                      /\ [call[c] EXCEPT !.pc = pc].by = call[c].by
                      /\ [call[c] EXCEPT !.pc = pc].op = call[c].op
                      /\ [call[c] EXCEPT !.pc = pc].roles = call[c].roles
                      /\ [call[c] EXCEPT !.pc = pc].bypass = call[c].bypass
                      /\ [call[c] EXCEPT !.pc = pc].gone = call[c].gone
                      /\ [call[c] EXCEPT !.pc = pc].made = call[c].made
                      /\ [call[c] EXCEPT !.pc = pc].met = call[c].met
  BY <1>1 DEF CallTypes
<1>3. Pcs = {"new", "begun", "checked", "deleted", "committed", "recorded", "ok", "failed"}
  BY DEF Pcs
<1> USE DEF Others, Same, Alike
<1>4. CASE ValidateRoleHierarchy(c)
  BY <1>1, <1>2, <1>3, <1>4 DEF ValidateRoleHierarchy, Step
<1>5. CASE LogRoleChange(c)
  BY <1>1, <1>2, <1>3, <1>5 DEF LogRoleChange, Step
<1>6. CASE InvalidateUserCache(c)
  BY <1>1, <1>2, <1>3, <1>6 DEF InvalidateUserCache, Step
<1>7. CASE Fail(c) /\ Committed(c)
  BY <1>1, <1>2, <1>3, <1>7 DEF Fail, Committed, Busy, Closed
<1>8. QED
  BY <1>4, <1>5, <1>6, <1>7 DEF Moves

LEMMA FailFields ==
  ASSUME TypeOK, NEW c \in Calls, Fail(c), ~Committed(c)
  PROVE  /\ Others(c) /\ rows' = rows /\ was' = was \ {c}
         /\ call'[c].pc = "failed" /\ ~call'[c].bypass /\ Blank(c)
         /\ call[c].pc \in {"begun", "checked", "deleted"}
<1>1. call[c].pc \in {"new", "begun", "checked", "deleted", "committed", "recorded", "ok", "failed"}
  BY DEF TypeOK, CallTypes, Pcs
<1>2. call[c].pc \in {"begun", "checked", "deleted"}
  BY <1>1 DEF Fail, Busy, Closed, Committed
<1>3. call' = [call EXCEPT ![c] = [Unborn EXCEPT !.pc = "failed"]]
  BY DEF Fail
<1>4. call'[c].pc = "failed" /\ ~call'[c].bypass /\ Blank(c) /\ Others(c)
  BY <1>3 DEF TypeOK, Unborn, Blank, Others, Same
<1>5. QED
  BY <1>2, <1>4 DEF Fail

LEMMA TransactFields ==
  ASSUME TypeOK, NEW c \in Calls, NEW gone \in SUBSET Rows, NEW made \in SUBSET Rows,
         Transact(c, gone, made)
  PROVE  /\ rows' = rows /\ was' = was
         /\ call[c].pc = "checked" /\ call'[c].pc = "deleted"
         /\ call'[c].user = call[c].user /\ call'[c].by = call[c].by
         /\ call'[c].op = call[c].op /\ call'[c].roles = call[c].roles
         /\ call'[c].bypass = call[c].bypass
         /\ call'[c].gone = gone /\ call'[c].made = made
         /\ call'[c].met = {x \in Calls : Open(x) /\ call[x].user = call[c].user}
         /\ \A d \in Calls \ {c} :
              IF Open(d) /\ call[d].user = call[c].user THEN Met(d, c) ELSE Same(d)
<1>1. \A d \in Calls : call[d] \in CallTypes
  BY DEF TypeOK
<1>2. ASSUME NEW d \in Calls \ {c}
      PROVE  IF Open(d) /\ call[d].user = call[c].user THEN Met(d, c) ELSE Same(d)
  BY <1>1, <1>2 DEF Transact, CallTypes, Met, Same, Alike
<1>3. QED
  BY <1>1, <1>2 DEF Transact, CallTypes

LEMMA CommitFields ==
  ASSUME TypeOK, NEW c \in Calls, Commit(c)
  PROVE  /\ Others(c) /\ rows' = After(c)
         /\ call[c].pc = "deleted" /\ call'[c].pc = "committed" /\ Blank(c)
         /\ call'[c].met = call[c].met /\ call'[c].bypass = call[c].bypass
         /\ call'[c].by = call[c].by
<1>1. Unborn \in CallTypes
  BY UnbornType
<1>2. /\ Forget(c, "committed").pc = "committed" /\ Forget(c, "committed").by = call[c].by
      /\ Forget(c, "committed").bypass = call[c].bypass
      /\ Forget(c, "committed").met = call[c].met
      /\ Forget(c, "committed").gone = {} /\ Forget(c, "committed").made = {}
  BY DEF Forget, Unborn
<1>3. call'[c] = Forget(c, "committed") /\ Others(c)
  BY DEF Commit, TypeOK, Others, Same
<1>4. QED
  BY <1>2, <1>3 DEF Commit, Blank

LEMMA RemoveFields ==
  ASSUME TypeOK, DeleteExpired
  PROVE  /\ rows' = rows \ cleaner.found
         /\ \A d \in Calls :
              IF Open(d) /\ \E r \in cleaner.found : r.user = call[d].user
              THEN Met(d, "cleaner") ELSE Same(d)
<1>1. \A d \in Calls : call[d] \in CallTypes
  BY DEF TypeOK
<1>2. ASSUME NEW d \in Calls
      PROVE  IF Open(d) /\ \E r \in cleaner.found : r.user = call[d].user
             THEN Met(d, "cleaner") ELSE Same(d)
  BY <1>1, <1>2 DEF DeleteExpired, Removes, CallTypes, Met, Same, Alike
<1>3. QED
  BY <1>2 DEF DeleteExpired, Removes

\* Everything else leaves the rows and the calls alone.
Rest == BulkReport \/ FindExpired \/ Tick \/ UNCHANGED vars

LEMMA RestFields ==
  ASSUME Rest PROVE rows' = rows /\ call' = call /\ was' = was
  BY DEF Rest, BulkReport, FindExpired, Tick, vars

LEMMA Steps ==
  ASSUME [Next]_vars
  PROVE  \/ \E c \in Calls : UpdateUserRole(c)
         \/ BulkUpdateUserRoles
         \/ \E c \in Calls : Moves(c)
         \/ \E c \in Calls : Fail(c) /\ ~Committed(c)
         \/ \E c \in Calls : Operate(c)
         \/ \E c \in Calls : Commit(c)
         \/ DeleteExpired
         \/ Rest
<1>1. CASE Next
  <2>1. ASSUME NEW c \in Calls, UpdateUserRole(c) \/ Proceed(c) \/ Fail(c)
        PROVE  \/ UpdateUserRole(c)
               \/ Moves(c)
               \/ Fail(c) /\ ~Committed(c)
               \/ Operate(c)
               \/ Commit(c)
    BY <2>1 DEF Proceed, Moves
  <2>2. QED
    BY <1>1, <2>1, Zenon DEF Next, Rest
<1>2. CASE UNCHANGED vars
  BY <1>2, Zenon DEF Rest
<1>3. QED
  BY <1>1, <1>2

LEMMA OperateFields ==
  ASSUME TypeOK, NEW c \in Calls, Operate(c)
  PROVE  \E until \in Times :
         /\ rows' = rows /\ was' = was
         /\ call[c].pc = "checked" /\ call'[c].pc = "deleted"
         /\ call'[c].user = call[c].user /\ call'[c].by = call[c].by
         /\ call'[c].op = call[c].op /\ call'[c].roles = call[c].roles
         /\ call'[c].bypass = call[c].bypass
         /\ call'[c].gone = GoneOf(c) /\ call'[c].made = NewRows(c, GivenBy(c), until)
         /\ call'[c].met = {x \in Calls : Open(x) /\ call[x].user = call[c].user}
         /\ \A d \in Calls \ {c} :
              IF Open(d) /\ call[d].user = call[c].user THEN Met(d, c) ELSE Same(d)
<1>1. PICK until \in Times : Transact(c, GoneOf(c), NewRows(c, GivenBy(c), until))
  BY Operation
<1>2. GoneOf(c) \in SUBSET Rows /\ NewRows(c, GivenBy(c), until) \in SUBSET Rows
  BY GoneAndGiven, NewRowsType
<1>3. QED
  BY <1>1, <1>2, TransactFields

-----------------------------------------------------------------------------
\* Rows and the transactions they come from.

LEMMA OwnStep == TypeOK /\ OwnRows /\ [Next]_vars => OwnRows'
<1> SUFFICES ASSUME TypeOK, OwnRows, [Next]_vars PROVE OwnRows'
  OBVIOUS
<1> DEFINE Own(d) == /\ \A r \in call[d].made : r.call = d /\ r.user = call[d].user
                     /\ \A a, b \in call[d].made : a.role = b.role => a = b
                     /\ \A r \in call[d].gone : r.user = call[d].user
<1>0. /\ \A d \in Calls : Own(d)
      /\ (\A d \in Calls : Own(d)') => OwnRows'
  BY DEF OwnRows
<1>1. ASSUME NEW d \in Calls, Same(d) PROVE Own(d)'
  BY <1>0, <1>1 DEF Same
<1>2. ASSUME NEW d \in Calls, Blank(d) PROVE Own(d)'
  BY <1>2 DEF Blank
<1>3. ASSUME NEW d \in Calls, Alike(d) PROVE Own(d)'
  BY <1>0, <1>3 DEF Alike
<1>4. ASSUME NEW d \in Calls, NEW x, Met(d, x) PROVE Own(d)'
  BY <1>3, <1>4 DEF Met
<1> HIDE DEF Own
<1>5. ASSUME NEW c \in Calls, UpdateUserRole(c) PROVE OwnRows'
  BY <1>0, <1>1, <1>2, <1>5, BeginFields DEF Others
<1>6. ASSUME BulkUpdateUserRoles PROVE OwnRows'
  BY <1>0, <1>1, <1>2, <1>6, BulkFields
<1>7. ASSUME NEW c \in Calls, Moves(c) PROVE OwnRows'
  BY <1>0, <1>1, <1>3, <1>7, MoveFields DEF Others
<1>8. ASSUME NEW c \in Calls, Fail(c), ~Committed(c) PROVE OwnRows'
  BY <1>0, <1>1, <1>2, <1>8, FailFields DEF Others
<1>9. ASSUME NEW c \in Calls, Operate(c) PROVE OwnRows'
  <2>1. PICK until \in Times :
         /\ call'[c].user = call[c].user
         /\ call'[c].gone = GoneOf(c) /\ call'[c].made = NewRows(c, GivenBy(c), until)
         /\ \A d \in Calls \ {c} :
              IF Open(d) /\ call[d].user = call[c].user THEN Met(d, c) ELSE Same(d)
    BY <1>9, OperateFields
  <2>2. \A r \in GoneOf(c) : r.user = call[c].user
    BY DEF GoneOf, OfUser, OfRoles
  <2>3. Own(c)'
    BY <2>1, <2>2, NewRowsFields DEF Own
  <2>4. QED
    BY <1>0, <1>1, <1>4, <2>1, <2>3
<1>10. ASSUME NEW c \in Calls, Commit(c) PROVE OwnRows'
  BY <1>0, <1>1, <1>2, <1>10, CommitFields DEF Others
<1>11. ASSUME DeleteExpired PROVE OwnRows'
  BY <1>0, <1>1, <1>4, <1>11, RemoveFields
<1>12. ASSUME Rest PROVE OwnRows'
  BY <1>12, RestFields DEF OwnRows
<1>13. QED
  BY <1>5, <1>6, <1>7, <1>8, <1>9, <1>10, <1>11, <1>12, Steps

LEMMA DoneStep == TypeOK /\ OwnRows /\ RowsAreDone /\ [Next]_vars => RowsAreDone'
<1> SUFFICES ASSUME TypeOK, OwnRows, RowsAreDone, [Next]_vars PROVE RowsAreDone'
  OBVIOUS
<1>1. ASSUME rows' \subseteq rows,
             \A d \in Calls : call[d].pc \in Ended => call'[d].pc \in Ended
      PROVE  RowsAreDone'
  BY <1>1 DEF RowsAreDone, TypeOK, Rows
<1> USE DEF Ended, Others, Same
<1>2. ASSUME NEW c \in Calls, UpdateUserRole(c) PROVE RowsAreDone'
  BY <1>1, <1>2, BeginFields
<1>3. ASSUME BulkUpdateUserRoles PROVE RowsAreDone'
  BY <1>1, <1>3, BulkFields
<1>4. ASSUME NEW c \in Calls, Moves(c) PROVE RowsAreDone'
  BY <1>1, <1>4, MoveFields
<1>5. ASSUME NEW c \in Calls, Fail(c), ~Committed(c) PROVE RowsAreDone'
  BY <1>1, <1>5, FailFields
<1>6. ASSUME NEW c \in Calls, Operate(c) PROVE RowsAreDone'
  BY <1>1, <1>6, OperateFields DEF Met
<1>7. ASSUME NEW c \in Calls, Commit(c) PROVE RowsAreDone'
  <2>1. \A r \in rows' : r \in rows \/ r.call = c
    BY <1>7, CommitFields DEF After, OwnRows
  <2>2. QED
    BY <1>7, <2>1, CommitFields DEF RowsAreDone, TypeOK, Rows
<1>8. ASSUME DeleteExpired PROVE RowsAreDone'
  BY <1>1, <1>8, RemoveFields DEF Met
<1>9. ASSUME Rest PROVE RowsAreDone'
  BY <1>1, <1>9, RestFields
<1>10. QED
  BY <1>2, <1>3, <1>4, <1>5, <1>6, <1>7, <1>8, <1>9, Steps

LEMMA OneRowStep ==
  TypeOK /\ OwnRows /\ RowsAreDone /\ OneRowPerRole /\ [Next]_vars => OneRowPerRole'
<1> SUFFICES ASSUME TypeOK, OwnRows, RowsAreDone, OneRowPerRole, [Next]_vars
             PROVE OneRowPerRole'
  OBVIOUS
<1>1. CASE rows' \subseteq rows
  BY <1>1 DEF OneRowPerRole
<1>2. ASSUME NEW c \in Calls, Commit(c) PROVE OneRowPerRole'
  <2>1. call[c].pc \notin Ended
    BY <1>2, CommitFields DEF Ended
  <2>2. \A r \in rows : r.call # c
    BY <2>1, RoleAssumption DEF RowsAreDone
  <2>3. \A r \in rows' : r \in rows \/ (r \in call[c].made /\ r.call = c)
    BY <1>2, CommitFields DEF After, OwnRows
  <2>4. QED
    BY <2>2, <2>3 DEF OneRowPerRole, OwnRows
<1>3. (\E c \in Calls : Commit(c)) \/ rows' \subseteq rows
  BY Steps, BeginFields, BulkFields, MoveFields, FailFields, OperateFields,
     RemoveFields, RestFields
<1>4. QED
  BY <1>1, <1>2, <1>3

-----------------------------------------------------------------------------
\* Whose word a row stands on.

\* The ghost `was` holds every call not yet committed whose updater is an
\* administrator, and every one past the check that did not bypass it or fail.
Words == \A c \in Calls :
  /\ call[c].pc \in {"begun", "checked", "deleted"} /\ ~call[c].bypass
       /\ IsAdmin(rows, call[c].by) => c \in was
  /\ call[c].pc \in {"checked", "deleted", "committed", "recorded", "ok"}
       => call[c].bypass \/ c \in was

LEMMA GhostHolds ==
  ASSUME TypeOK, NEW R, Ghost(R), NEW d \in Calls,
         call[d].pc \in {"begun", "checked", "deleted"}
  PROVE  /\ d \in was => d \in was'
         /\ ~call[d].bypass /\ IsAdmin(R, call[d].by) => d \in was'
  BY DEF Ghost, Judged, Busy, Closed, Committed

LEMMA WordStep == TypeOK /\ Words /\ [Next]_vars => Words'
<1> SUFFICES ASSUME TypeOK, Words, [Next]_vars PROVE Words'
  OBVIOUS
<1> DEFINE Word(d) ==
      /\ call[d].pc \in {"begun", "checked", "deleted"} /\ ~call[d].bypass
           /\ IsAdmin(rows, call[d].by) => d \in was
      /\ call[d].pc \in {"checked", "deleted", "committed", "recorded", "ok"}
           => call[d].bypass \/ d \in was
<1>0. /\ \A d \in Calls : Word(d)
      /\ (\A d \in Calls : Word(d)') => Words'
  BY DEF Words
<1>1. ASSUME NEW d \in Calls, rows' = rows, d \in was => d \in was',
             call'[d].pc = call[d].pc, call'[d].bypass = call[d].bypass,
             call'[d].by = call[d].by
      PROVE  Word(d)'
  BY <1>0, <1>1 DEF IsAdmin, RolesIn
<1>2. ASSUME NEW c \in Calls, UpdateUserRole(c) PROVE Words'
  <2>1. PICK u \in Users, w \in Updaters, op \in Ops, S \in (SUBSET Roles) \ {{}},
             until \in {now, Forever}, bypass \in BOOLEAN :
          /\ call' = [call EXCEPT ![c] = Request(u, w, op, S, until, bypass)]
          /\ was' = IF ~bypass /\ IsAdmin(rows, w) THEN was \cup {c} ELSE was
    BY <1>2, Zenon DEF UpdateUserRole
  <2>2. call'[c].pc = "begun" /\ call'[c].by = w /\ call'[c].bypass = bypass /\ rows' = rows
    BY <1>2, <2>1 DEF TypeOK, Request, Unborn, UpdateUserRole
  <2>3. Word(c)'
    BY <2>1, <2>2 DEF IsAdmin, RolesIn
  <2>4. \A d \in Calls \ {c} : Word(d)'
    BY <1>1, <1>2, <2>1, BeginFields DEF Others, Same
  <2>5. QED
    BY <1>0, <2>3, <2>4
<1>3. ASSUME BulkUpdateUserRoles PROVE Words'
  <2>1. ASSUME NEW C \in SUBSET Calls, NEW who \in [C -> Users], NEW w \in Updaters,
               NEW op \in {"assign", "remove", "replace"},
               NEW S \in (SUBSET Roles) \ {{}}, BulkOf(C, who, w, op, S)
        PROVE  Words'
    <3>1. ASSUME NEW d \in C PROVE Word(d)'
      BY <2>1, <3>1 DEF BulkOf, Request, Unborn, IsAdmin, RolesIn
    <3>2. ASSUME NEW d \in Calls \ C PROVE Word(d)'
      BY <1>1, <2>1, <3>2 DEF BulkOf
    <3>3. QED
      BY <1>0, <3>1, <3>2
  <2>2. QED
    BY <1>3, <2>1, Zenon DEF BulkUpdateUserRoles
<1>4. ASSUME NEW c \in Calls, Moves(c) PROVE Words'
  <2>1. \A d \in Calls \ {c} : Word(d)'
    BY <1>1, <1>4, MoveFields DEF Others, Same
  <2>2. CASE ValidateRoleHierarchy(c)
    <3>1. call[c].pc = "begun" /\ (call[c].bypass \/ IsAdmin(rows, call[c].by))
      BY <2>2 DEF ValidateRoleHierarchy, Step
    <3>2. call[c].bypass \in BOOLEAN
      BY DEF TypeOK, CallTypes
    <3>3. call[c].bypass \/ c \in was
      BY <1>0, <3>1, <3>2
    <3>4. Word(c)'
      BY <1>4, <3>3, MoveFields DEF Alike
    <3>5. QED
      BY <1>0, <2>1, <3>4
  <2>3. CASE call[c].pc \in {"committed", "recorded"}
    <3>1. /\ call'[c].pc \in {"recorded", "ok", "failed"} /\ was' = was
          /\ call'[c].bypass = call[c].bypass
      BY <1>4, <2>3, MoveFields DEF Alike
    <3>2. Word(c)'
      BY <1>0, <2>3, <3>1
    <3>3. QED
      BY <1>0, <2>1, <3>2
  <2>4. QED
    BY <1>4, <2>2, <2>3, MoveFields
<1>5. ASSUME NEW c \in Calls, Fail(c), ~Committed(c) PROVE Words'
  <2>1. Word(c)'
    BY <1>5, FailFields
  <2>2. \A d \in Calls \ {c} : Word(d)'
    BY <1>1, <1>5, FailFields DEF Others, Same
  <2>3. QED
    BY <1>0, <2>1, <2>2
<1>6. ASSUME NEW c \in Calls, Operate(c) PROVE Words'
  <2>1. Word(c)'
    BY <1>0, <1>6, OperateFields DEF IsAdmin, RolesIn
  <2>2. \A d \in Calls \ {c} : Word(d)'
    BY <1>1, <1>6, OperateFields DEF Met, Same, Alike
  <2>3. QED
    BY <1>0, <2>1, <2>2
<1>7. ASSUME NEW c \in Calls, Commit(c) PROVE Words'
  <2>1. Word(c)'
    <3>1. c \in was => c \in was'
      BY <1>7 DEF Commit, Ghost
    <3>2. QED
      BY <1>0, <1>7, <3>1, CommitFields
  <2>2. ASSUME NEW d \in Calls \ {c} PROVE Word(d)'
    <3>1. Ghost(rows') /\ call'[d] = call[d] /\ (d \in was => d \in was')
      BY <1>7, CommitFields DEF Commit, Ghost, Others, Same
    <3>2. call[d].pc \in {"begun", "checked", "deleted"} /\ ~call[d].bypass
            /\ IsAdmin(rows', call[d].by) => d \in was'
      BY <3>1, GhostHolds
    <3>3. QED
      BY <1>0, <3>1, <3>2 DEF IsAdmin, RolesIn
  <2>3. QED
    BY <1>0, <2>1, <2>2
<1>8. ASSUME DeleteExpired PROVE Words'
  <2>1. Ghost(rows')
    BY <1>8 DEF DeleteExpired, Removes, Ghost
  <2>2. ASSUME NEW d \in Calls
        PROVE  /\ call'[d].pc = call[d].pc /\ call'[d].by = call[d].by
               /\ call'[d].bypass = call[d].bypass
    BY <1>8, RemoveFields DEF Met, Same, Alike
  <2>3. ASSUME NEW d \in Calls PROVE Word(d)'
    <3>1. d \in was => d \in was'
      BY <2>1 DEF Ghost
    <3>2. QED
      BY <1>0, <2>1, <2>2, <3>1, GhostHolds DEF IsAdmin, RolesIn
  <2>4. QED
    BY <1>0, <2>3
<1>9. ASSUME Rest PROVE Words'
  BY <1>0, <1>1, <1>9, RestFields
<1>10. QED
  BY <1>2, <1>3, <1>4, <1>5, <1>6, <1>7, <1>8, <1>9, Steps

LEMMA GrantStep ==
  TypeOK /\ OwnRows /\ RowsAreDone /\ Words /\ GrantsByAdmins /\ [Next]_vars
    => GrantsByAdmins'
<1> SUFFICES ASSUME TypeOK, OwnRows, RowsAreDone, Words, GrantsByAdmins, [Next]_vars
             PROVE GrantsByAdmins'
  OBVIOUS
<1> DEFINE Granted(d) == call[d].bypass \/ d \in was
<1>0. \A r \in rows : r.call = "seed" \/ (r.call \in Calls /\ Granted(r.call)
                                          /\ call[r.call].pc \in Ended)
  BY DEF GrantsByAdmins, RowsAreDone, TypeOK, Rows
<1>1. ASSUME rows' \subseteq rows,
             \A d \in Calls : call[d].pc \in Ended /\ Granted(d) => Granted(d)'
      PROVE  GrantsByAdmins'
  BY <1>0, <1>1 DEF GrantsByAdmins
<1>2. ASSUME NEW c \in Calls, UpdateUserRole(c) PROVE GrantsByAdmins'
  <2>1. was \subseteq was'
    BY <1>2 DEF UpdateUserRole
  <2>2. QED
    BY <1>1, <1>2, <2>1, BeginFields DEF Others, Same, Ended
<1>3. ASSUME BulkUpdateUserRoles PROVE GrantsByAdmins'
  <2>1. was \subseteq was'
    <3>1. ASSUME NEW C \in SUBSET Calls, NEW who \in [C -> Users], NEW w \in Updaters,
                 NEW op \in {"assign", "remove", "replace"},
                 NEW S \in (SUBSET Roles) \ {{}}, BulkOf(C, who, w, op, S)
          PROVE  was \subseteq was'
      BY <3>1 DEF BulkOf
    <3>2. QED
      BY <1>3, <3>1, Zenon DEF BulkUpdateUserRoles
  <2>2. QED
    BY <1>1, <1>3, <2>1, BulkFields DEF Same, Ended
<1>4. ASSUME NEW c \in Calls, Moves(c) PROVE GrantsByAdmins'
  BY <1>1, <1>4, MoveFields DEF Others, Same, Alike
<1>5. ASSUME NEW c \in Calls, Fail(c), ~Committed(c) PROVE GrantsByAdmins'
  BY <1>1, <1>5, FailFields DEF Others, Same, Ended
<1>6. ASSUME NEW c \in Calls, Operate(c) PROVE GrantsByAdmins'
  BY <1>1, <1>6, OperateFields DEF Met, Same, Alike
<1>7. ASSUME NEW c \in Calls, Commit(c) PROVE GrantsByAdmins'
  <2>1. Granted(c)
    BY <1>7, CommitFields DEF Words
  <2>2. was \subseteq was'
    BY <1>7 DEF Commit, Ghost
  <2>3. \A d \in Calls : Granted(d) => Granted(d)'
    BY <1>7, <2>2, CommitFields DEF Others, Same
  <2>4. \A r \in rows' : r \in rows \/ r.call = c
    BY <1>7, CommitFields DEF After, OwnRows
  <2>5. QED
    BY <1>0, <2>1, <2>3, <2>4 DEF GrantsByAdmins
<1>8. ASSUME DeleteExpired PROVE GrantsByAdmins'
  <2>1. was \subseteq was'
    BY <1>8 DEF DeleteExpired, Removes, Ghost
  <2>2. QED
    BY <1>1, <1>8, <2>1, RemoveFields DEF Met, Same, Alike
<1>9. ASSUME Rest PROVE GrantsByAdmins'
  BY <1>1, <1>9, RestFields
<1>10. QED
  BY <1>2, <1>3, <1>4, <1>5, <1>6, <1>7, <1>8, <1>9, Steps

-----------------------------------------------------------------------------
\* The answer of a bulk update, and the job.

\* The calls of a bulk update never bypass the check, and once it is answered
\* they are over; those it counts succeeded.
BulkAnswered ==
  /\ \A c \in bulk.calls : call[c].pc # "new" /\ ~call[c].bypass
  /\ bulk.pc = "done" => \A c \in bulk.calls : call[c].pc \in {"ok", "failed"}
  /\ \A c \in bulk.ok : c \in bulk.calls /\ call[c].pc = "ok"

FoundAreExpired == \A r \in cleaner.found : Expired(r)

LEMMA BulkStep == TypeOK /\ BulkAnswered /\ [Next]_vars => BulkAnswered'
<1> SUFFICES ASSUME TypeOK, BulkAnswered, [Next]_vars PROVE BulkAnswered'
  OBVIOUS
<1>0. bulk.ok \subseteq Calls /\ bulk.calls \subseteq Calls
  BY DEF TypeOK
<1>1. ASSUME bulk' = bulk,
             \A d \in Calls : call[d].pc # "new" =>
               /\ call'[d].pc # "new" /\ (~call[d].bypass => ~call'[d].bypass)
               /\ call[d].pc \in {"ok", "failed"} => call'[d].pc = call[d].pc
      PROVE  BulkAnswered'
  BY <1>0, <1>1 DEF BulkAnswered
<1>2. ASSUME NEW c \in Calls, UpdateUserRole(c) PROVE BulkAnswered'
  BY <1>1, <1>2, BeginFields DEF Others, Same, UpdateUserRole
<1>3. ASSUME BulkUpdateUserRoles PROVE BulkAnswered'
  <2>1. ASSUME NEW C \in SUBSET Calls, NEW who \in [C -> Users], NEW w \in Updaters,
               NEW op \in {"assign", "remove", "replace"},
               NEW S \in (SUBSET Roles) \ {{}}, BulkOf(C, who, w, op, S)
        PROVE  BulkAnswered'
    <3>1. bulk' = [pc |-> "running", calls |-> C, ok |-> {}]
      BY <2>1 DEF BulkOf
    <3>2. \A c \in C : call'[c].pc = "begun" /\ ~call'[c].bypass
      BY <2>1 DEF BulkOf, Request, Unborn
    <3>3. QED
      BY <3>1, <3>2 DEF BulkAnswered
  <2>2. QED
    BY <1>3, <2>1, Zenon DEF BulkUpdateUserRoles
<1>4. ASSUME NEW c \in Calls, Moves(c) PROVE BulkAnswered'
  <2>1. bulk' = bulk
    BY <1>4 DEF Moves, ValidateRoleHierarchy, LogRoleChange, InvalidateUserCache, Fail
  <2>2. QED
    BY <1>1, <1>4, <2>1, MoveFields DEF Others, Same, Alike
<1>5. ASSUME NEW c \in Calls, Fail(c), ~Committed(c) PROVE BulkAnswered'
  <2>1. bulk' = bulk
    BY <1>5 DEF Fail
  <2>2. QED
    BY <1>1, <1>5, <2>1, FailFields DEF Others, Same
<1>6. ASSUME NEW c \in Calls, Operate(c) PROVE BulkAnswered'
  <2>1. bulk' = bulk
    BY <1>6 DEF Operate, AssignRoles, RemoveRoles, ReplaceRoles,
       TemporaryAssignRoles, InheritRoles, Transact
  <2>2. QED
    BY <1>1, <1>6, <2>1, OperateFields DEF Met, Same, Alike
<1>7. ASSUME NEW c \in Calls, Commit(c) PROVE BulkAnswered'
  <2>1. bulk' = bulk
    BY <1>7 DEF Commit
  <2>2. QED
    BY <1>1, <1>7, <2>1, CommitFields DEF Others, Same
<1>8. ASSUME DeleteExpired PROVE BulkAnswered'
  <2>1. bulk' = bulk
    BY <1>8 DEF DeleteExpired, Removes
  <2>2. QED
    BY <1>1, <1>8, <2>1, RemoveFields DEF Met, Same, Alike
<1>9. ASSUME Rest PROVE BulkAnswered'
  <2>1. CASE BulkReport
    <3>1. /\ bulk'.pc = "done" /\ bulk'.calls = bulk.calls /\ call' = call
          /\ bulk'.ok = {c \in bulk.calls : call[c].pc = "ok"}
      BY <2>1 DEF BulkReport, TypeOK
    <3>2. \A c \in bulk.calls : call[c].pc \in {"ok", "failed"}
      BY <2>1 DEF BulkReport, Busy, Closed, BulkAnswered
    <3>3. QED
      BY <3>1, <3>2 DEF BulkAnswered
  <2>2. CASE FindExpired \/ Tick \/ UNCHANGED vars
    BY <1>1, <2>2 DEF FindExpired, Tick, vars
  <2>3. QED
    BY <1>9, <2>1, <2>2 DEF Rest
<1>10. QED
  BY <1>2, <1>3, <1>4, <1>5, <1>6, <1>7, <1>8, <1>9, Steps

\* What the job found was in the table: the calls that made it are over.
FoundAreDone ==
  /\ \A r \in cleaner.found : r.call = "seed" \/ call[r.call].pc \in Ended
  /\ cleaner.pc = "idle" => cleaner.found = {}

\* The job's list changes only with its own steps.
LEMMA ListSteps ==
  ASSUME [Next]_vars PROVE cleaner' = cleaner \/ FindExpired \/ DeleteExpired
<1>1. CASE \E c \in Calls : UpdateUserRole(c)
  BY <1>1 DEF UpdateUserRole
<1>2. CASE BulkUpdateUserRoles
  BY <1>2 DEF BulkUpdateUserRoles, BulkOf
<1>3. CASE \E c \in Calls : Moves(c)
  BY <1>3 DEF Moves, ValidateRoleHierarchy, LogRoleChange, InvalidateUserCache, Fail
<1>4. CASE \E c \in Calls : Fail(c) /\ ~Committed(c)
  BY <1>4 DEF Fail
<1>5. CASE \E c \in Calls : Operate(c)
  BY <1>5 DEF Operate, AssignRoles, RemoveRoles, ReplaceRoles,
     TemporaryAssignRoles, InheritRoles, Transact
<1>6. CASE \E c \in Calls : Commit(c)
  BY <1>6 DEF Commit
<1>7. CASE Rest
  BY <1>7 DEF Rest, BulkReport, Tick, vars
<1>8. QED
  BY <1>1, <1>2, <1>3, <1>4, <1>5, <1>6, <1>7, Steps

\* A call that is over stays so, and a row comes only with a commit.
LEMMA EndedStay ==
  ASSUME TypeOK, OwnRows, [Next]_vars
  PROVE  /\ \A c \in Calls : call[c].pc \in Ended => call'[c].pc \in Ended
         /\ \A r \in rows' \ rows : r.call \in Calls /\ call[r.call].pc = "deleted"
<1> USE DEF Ended, Others, Same
<1>1. CASE \E c \in Calls : UpdateUserRole(c)
  BY <1>1, BeginFields
<1>2. CASE BulkUpdateUserRoles
  BY <1>2, BulkFields
<1>3. CASE \E c \in Calls : Moves(c)
  BY <1>3, MoveFields
<1>4. CASE \E c \in Calls : Fail(c) /\ ~Committed(c)
  BY <1>4, FailFields
<1>5. CASE \E c \in Calls : Operate(c)
  BY <1>5, OperateFields DEF Met
<1>6. CASE \E c \in Calls : Commit(c)
  BY <1>6, CommitFields DEF After, OwnRows
<1>7. CASE DeleteExpired
  BY <1>7, RemoveFields DEF Met
<1>8. CASE Rest
  BY <1>8, RestFields
<1>9. QED
  BY <1>1, <1>2, <1>3, <1>4, <1>5, <1>6, <1>7, <1>8, Steps

LEMMA FoundStep ==
  /\ TypeOK /\ OwnRows /\ RowsAreDone /\ FoundAreExpired /\ FoundAreDone /\ [Next]_vars
  => FoundAreExpired' /\ FoundAreDone'
<1> SUFFICES ASSUME TypeOK, OwnRows, RowsAreDone, FoundAreExpired, FoundAreDone,
                    [Next]_vars
             PROVE  FoundAreExpired' /\ FoundAreDone'
  OBVIOUS
<1>1. /\ now \in Nat /\ Times \subseteq Nat
      /\ \A r \in cleaner.found : r.until \in Nat /\ r.call \in Calls \cup {"seed"}
      /\ \A r \in rows : r.call \in Calls \cup {"seed"}
  BY RoleAssumption DEF TypeOK, Rows, Times, Forever
<1>2. now' = now \/ now' = now + 1
  <2>1. ASSUME NEW c \in Calls, Operate(c) PROVE now' = now
    BY <2>1 DEF Operate, AssignRoles, RemoveRoles, ReplaceRoles,
       TemporaryAssignRoles, InheritRoles, Transact
  <2>2. QED
    BY <2>1, Steps DEF UpdateUserRole, BulkUpdateUserRoles, BulkOf, Moves,
       ValidateRoleHierarchy, LogRoleChange, InvalidateUserCache, Fail, Commit,
       DeleteExpired, Removes, Rest, BulkReport, FindExpired, Tick, vars
<1>3. CASE FindExpired
  <2>1. FoundAreExpired'
    BY <1>3 DEF FindExpired, FoundAreExpired, Expired
  <2>2. FoundAreDone'
    BY <1>1, <1>3, EndedStay DEF FindExpired, FoundAreDone, RowsAreDone
  <2>3. QED
    BY <2>1, <2>2
<1>4. CASE DeleteExpired
  BY <1>4 DEF DeleteExpired, Removes, FoundAreExpired, FoundAreDone
<1>5. CASE cleaner' = cleaner
  <2>1. FoundAreExpired'
    BY <1>1, <1>2, <1>5 DEF FoundAreExpired, Expired
  <2>2. FoundAreDone'
    BY <1>1, <1>5, EndedStay DEF FoundAreDone
  <2>3. QED
    BY <2>1, <2>2
<1>6. QED
  BY <1>3, <1>4, <1>5, ListSteps

-----------------------------------------------------------------------------
\* Transactions that are open at the same time.

\* Two of one user have met.
AllMeet == \A c, d \in Calls :
  Open(c) /\ Open(d) /\ c # d /\ call[c].user = call[d].user => c \in call[d].met

\* A row that an open transaction is about to duplicate is one it deletes, or
\* one of a call it has met.
AllSeen == \A c \in Calls : Open(c) =>
  \A r \in rows : \A m \in call[c].made :
    r.user = m.user /\ r.role = m.role
      => r \in call[c].gone \/ (r.call # "seed" /\ r.call \in call[c].met)

\* One that has met nobody deletes and gives what its operation says of the
\* rows as they are now.
AllExact == \A c \in Calls : Open(c) /\ call[c].met = {} =>
  /\ call[c].gone = GoneOf(c)
  /\ \E until \in Times : call[c].made = NewRows(c, GivenBy(c), until)

LEMMA MeetStep == TypeOK /\ AllMeet /\ [Next]_vars => AllMeet'
<1> SUFFICES ASSUME TypeOK, AllMeet, [Next]_vars PROVE AllMeet'
  OBVIOUS
<1>1. ASSUME \A d \in Calls : Open(d)' => /\ Open(d) /\ call'[d].user = call[d].user
                                         /\ call[d].met \subseteq call'[d].met
      PROVE  AllMeet'
  BY <1>1 DEF AllMeet
<1> USE DEF Open
<1>2. ASSUME NEW c \in Calls, UpdateUserRole(c) PROVE AllMeet'
  BY <1>1, <1>2, BeginFields DEF Others, Same
<1>3. ASSUME BulkUpdateUserRoles PROVE AllMeet'
  BY <1>1, <1>3, BulkFields DEF Same
<1>4. ASSUME NEW c \in Calls, Moves(c) PROVE AllMeet'
  BY <1>1, <1>4, MoveFields DEF Others, Same
<1>5. ASSUME NEW c \in Calls, Fail(c), ~Committed(c) PROVE AllMeet'
  BY <1>1, <1>5, FailFields DEF Others, Same
<1>6. ASSUME NEW c \in Calls, Operate(c) PROVE AllMeet'
  <2>1. /\ ~Open(c) /\ call'[c].user = call[c].user
        /\ call'[c].met = {x \in Calls : Open(x) /\ call[x].user = call[c].user}
        /\ \A d \in Calls \ {c} :
             IF Open(d) /\ call[d].user = call[c].user THEN Met(d, c) ELSE Same(d)
    BY <1>6, OperateFields
  <2>2. ASSUME NEW d \in Calls \ {c}
        PROVE  /\ Open(d)' = Open(d) /\ call'[d].user = call[d].user
               /\ call[d].met \subseteq call'[d].met
               /\ Open(d) /\ call[d].user = call[c].user => c \in call'[d].met
    BY <2>1, <2>2 DEF Met, Alike, Same
  <2>3. QED
    BY <2>1, <2>2 DEF AllMeet
<1>7. ASSUME NEW c \in Calls, Commit(c) PROVE AllMeet'
  BY <1>1, <1>7, CommitFields DEF Others, Same
<1>8. ASSUME DeleteExpired PROVE AllMeet'
  BY <1>1, <1>8, RemoveFields DEF Met, Same, Alike
<1>9. ASSUME Rest PROVE AllMeet'
  BY <1>1, <1>9, RestFields
<1>10. QED
  BY <1>2, <1>3, <1>4, <1>5, <1>6, <1>7, <1>8, <1>9, Steps

LEMMA SeenStep ==
  TypeOK /\ OwnRows /\ AllMeet /\ AllSeen /\ [Next]_vars => AllSeen'
<1> SUFFICES ASSUME TypeOK, OwnRows, AllMeet, AllSeen, [Next]_vars PROVE AllSeen'
  OBVIOUS
<1> DEFINE Seen(d) == Open(d) =>
      \A r \in rows : \A m \in call[d].made :
        r.user = m.user /\ r.role = m.role
          => r \in call[d].gone \/ (r.call # "seed" /\ r.call \in call[d].met)
<1>0. /\ \A d \in Calls : Seen(d)
      /\ (\A d \in Calls : Seen(d)') => AllSeen'
  BY DEF AllSeen
<1>1. ASSUME NEW d \in Calls, rows' \subseteq rows, Same(d) PROVE Seen(d)'
  BY <1>0, <1>1 DEF Same, Open
<1>2. ASSUME NEW d \in Calls, ~Open(d)' PROVE Seen(d)'
  BY <1>2
<1>3. ASSUME NEW d \in Calls, NEW x, rows' \subseteq rows, Met(d, x) PROVE Seen(d)'
  BY <1>0, <1>3 DEF Met, Alike
<1>4. ASSUME NEW c \in Calls, UpdateUserRole(c) PROVE AllSeen'
  BY <1>0, <1>1, <1>2, <1>4, BeginFields DEF Others, Open
<1>5. ASSUME BulkUpdateUserRoles PROVE AllSeen'
  BY <1>0, <1>1, <1>2, <1>5, BulkFields DEF Open
<1>6. ASSUME NEW c \in Calls, Moves(c) PROVE AllSeen'
  BY <1>0, <1>1, <1>2, <1>6, MoveFields DEF Others, Open
<1>7. ASSUME NEW c \in Calls, Fail(c), ~Committed(c) PROVE AllSeen'
  BY <1>0, <1>1, <1>2, <1>7, FailFields DEF Others, Open
<1>8. ASSUME NEW c \in Calls, Operate(c) PROVE AllSeen'
  <2>1. PICK until \in Times :
         /\ rows' = rows
         /\ call'[c].gone = GoneOf(c) /\ call'[c].made = NewRows(c, GivenBy(c), until)
         /\ \A d \in Calls \ {c} :
              IF Open(d) /\ call[d].user = call[c].user THEN Met(d, c) ELSE Same(d)
    BY <1>8, OperateFields
  <2>2. ASSUME NEW r \in rows, r.user = call[c].user, r.role \in GivenBy(c)
        PROVE  r \in GoneOf(c)
    BY <2>2 DEF GoneOf, GivenBy, OfUser, OfRoles
  <2>3. \A m \in call'[c].made : m.user = call[c].user /\ m.role \in GivenBy(c)
    BY <2>1, NewRowsFields
  <2>4. Seen(c)'
    BY <2>1, <2>2, <2>3
  <2>5. \A d \in Calls \ {c} : Seen(d)'
    BY <1>1, <1>3, <2>1
  <2>6. QED
    BY <1>0, <2>4, <2>5
<1>9. ASSUME NEW c \in Calls, Commit(c) PROVE AllSeen'
  <2>1. Seen(c)'
    BY <1>2, <1>9, CommitFields DEF Open
  <2>2. ASSUME NEW d \in Calls \ {c}, Open(d)', NEW r \in rows', NEW m \in call'[d].made,
               r.user = m.user, r.role = m.role
        PROVE  r \in call'[d].gone \/ (r.call # "seed" /\ r.call \in call'[d].met)
    <3>1. Same(d) /\ Open(d) /\ Open(c) /\ rows' = After(c)
      BY <1>9, <2>2, CommitFields DEF Others, Same, Open
    <3>2. CASE r \in rows
      BY <1>0, <2>2, <3>1, <3>2 DEF Same
    <3>3. CASE r \in call[c].made
      <4>1. r.call = c /\ r.user = call[c].user /\ m.user = call[d].user
        BY <2>2, <3>1, <3>3 DEF OwnRows, Same
      <4>2. c \in call[d].met
        BY <2>2, <3>1, <4>1 DEF AllMeet
      <4>3. QED
        BY <3>1, <4>1, <4>2, RoleAssumption DEF Same
    <3>4. QED
      BY <3>1, <3>2, <3>3 DEF After
  <2>3. QED
    BY <1>0, <2>1, <2>2
<1>10. ASSUME DeleteExpired PROVE AllSeen'
  BY <1>0, <1>1, <1>3, <1>10, RemoveFields
<1>11. ASSUME Rest PROVE AllSeen'
  BY <1>0, <1>1, <1>11, RestFields DEF Same
<1>12. QED
  BY <1>4, <1>5, <1>6, <1>7, <1>8, <1>9, <1>10, <1>11, Steps

LEMMA DuplicateStep ==
  TypeOK /\ OwnRows /\ RowsAreDone /\ AllSeen /\ DuplicatesNeedOverlap /\ [Next]_vars
    => DuplicatesNeedOverlap'
<1> SUFFICES ASSUME TypeOK, OwnRows, RowsAreDone, AllSeen, DuplicatesNeedOverlap, [Next]_vars
             PROVE DuplicatesNeedOverlap'
  OBVIOUS
<1>0. \A r \in rows : r.call = "seed" \/ (r.call \in Calls /\ call[r.call].pc \in Ended)
  BY DEF RowsAreDone, TypeOK, Rows
<1>1. ASSUME rows' \subseteq rows,
             \A d \in Calls : call[d].pc \in Ended => call'[d].met = call[d].met
      PROVE  DuplicatesNeedOverlap'
  BY <1>0, <1>1 DEF DuplicatesNeedOverlap
<1> USE DEF Ended
<1>2. ASSUME NEW c \in Calls, UpdateUserRole(c) PROVE DuplicatesNeedOverlap'
  BY <1>1, <1>2, BeginFields DEF Others, Same
<1>3. ASSUME BulkUpdateUserRoles PROVE DuplicatesNeedOverlap'
  BY <1>1, <1>3, BulkFields DEF Same
<1>4. ASSUME NEW c \in Calls, Moves(c) PROVE DuplicatesNeedOverlap'
  BY <1>1, <1>4, MoveFields DEF Others, Same
<1>5. ASSUME NEW c \in Calls, Fail(c), ~Committed(c) PROVE DuplicatesNeedOverlap'
  BY <1>1, <1>5, FailFields DEF Others, Same
<1>6. ASSUME NEW c \in Calls, Operate(c) PROVE DuplicatesNeedOverlap'
  BY <1>1, <1>6, OperateFields DEF Met, Same, Open
<1>7. ASSUME NEW c \in Calls, Commit(c) PROVE DuplicatesNeedOverlap'
  <2>1. /\ rows' = After(c) /\ Open(c) /\ c # "seed"
        /\ \A d \in Calls : call'[d].met = call[d].met
    BY <1>7, CommitFields, RoleAssumption DEF Others, Same, Open
  <2>2. ASSUME NEW a \in call[c].made, NEW b \in rows, b \notin call[c].gone,
               a.user = b.user, a.role = b.role
        PROVE  a.call = c /\ b.call # "seed" /\ b.call \in call[c].met
    BY <2>1, <2>2 DEF AllSeen, OwnRows
  <2>3. \A a, b \in call[c].made : a.role = b.role => a = b
    BY DEF OwnRows
  <2>4. ASSUME NEW a \in rows', NEW b \in rows', a # b, a.user = b.user, a.role = b.role
        PROVE  /\ a.call # "seed" /\ b.call # "seed"
               /\ (a.call \in call'[b.call].met \/ b.call \in call'[a.call].met)
    <3>1. /\ a \in call[c].made \/ (a \in rows /\ a \notin call[c].gone)
          /\ b \in call[c].made \/ (b \in rows /\ b \notin call[c].gone)
      BY <2>1 DEF After
    <3>2. CASE a \in call[c].made /\ b \in call[c].made
      BY <2>3, <2>4, <3>2
    <3>3. CASE a \in call[c].made /\ b \in rows /\ b \notin call[c].gone
      BY <2>1, <2>2, <2>4, <3>3
    <3>4. CASE b \in call[c].made /\ a \in rows /\ a \notin call[c].gone
      BY <2>1, <2>2, <2>4, <3>4
    <3>5. CASE a \in rows /\ b \in rows
      BY <1>0, <2>1, <2>4, <3>5 DEF DuplicatesNeedOverlap
    <3>6. QED
      BY <3>1, <3>2, <3>3, <3>4, <3>5
  <2>5. QED
    BY <2>4 DEF DuplicatesNeedOverlap
<1>8. ASSUME DeleteExpired PROVE DuplicatesNeedOverlap'
  BY <1>1, <1>8, RemoveFields DEF Met, Same, Open
<1>9. ASSUME Rest PROVE DuplicatesNeedOverlap'
  BY <1>1, <1>9, RestFields
<1>10. QED
  BY <1>2, <1>3, <1>4, <1>5, <1>6, <1>7, <1>8, <1>9, Steps

LEMMA ExactStep ==
  TypeOK /\ OwnRows /\ AllMeet /\ AllExact /\ [Next]_vars => AllExact'
<1> SUFFICES ASSUME TypeOK, OwnRows, AllMeet, AllExact, [Next]_vars PROVE AllExact'
  OBVIOUS
<1> DEFINE Exact(d) == Open(d) /\ call[d].met = {} =>
      /\ call[d].gone = GoneOf(d)
      /\ \E until \in Times : call[d].made = NewRows(d, GivenBy(d), until)
<1>0. /\ \A d \in Calls : Exact(d)
      /\ (\A d \in Calls : Exact(d)') => AllExact'
  BY DEF AllExact
<1>1. ASSUME NEW d \in Calls, Same(d), Open(d) /\ call[d].met = {} =>
               \A r : r.user = call[d].user => (r \in rows' <=> r \in rows)
      PROVE  Exact(d)'
  <2>1. SUFFICES ASSUME Open(d), call[d].met = {} PROVE Exact(d)'
    BY <1>1 DEF Same, Open
  <2>2. GoneOf(d)' = GoneOf(d)
    BY <1>1, <2>1 DEF Same, GoneOf, OfUser, OfRoles, Asked
  <2>3. GivenBy(d)' = GivenBy(d) /\ \A u : NewRows(d, GivenBy(d), u)' = NewRows(d, GivenBy(d), u)
    BY <1>1 DEF Same, GivenBy, Asked, NewRows
  <2>4. QED
    BY <1>0, <1>1, <2>1, <2>2, <2>3 DEF Same
<1>2. ASSUME NEW d \in Calls, ~Open(d)' PROVE Exact(d)'
  BY <1>2
<1>3. ASSUME NEW d \in Calls, NEW x, Met(d, x) PROVE Exact(d)'
  BY <1>3 DEF Met
<1> HIDE DEF Exact
<1>4. ASSUME NEW c \in Calls, UpdateUserRole(c) PROVE AllExact'
  BY <1>0, <1>1, <1>2, <1>4, BeginFields DEF Others, Open
<1>5. ASSUME BulkUpdateUserRoles PROVE AllExact'
  BY <1>0, <1>1, <1>2, <1>5, BulkFields DEF Open
<1>6. ASSUME NEW c \in Calls, Moves(c) PROVE AllExact'
  BY <1>0, <1>1, <1>2, <1>6, MoveFields DEF Others, Open
<1>7. ASSUME NEW c \in Calls, Fail(c), ~Committed(c) PROVE AllExact'
  BY <1>0, <1>1, <1>2, <1>7, FailFields DEF Others, Open
<1>8. ASSUME NEW c \in Calls, Operate(c) PROVE AllExact'
  <2>1. PICK until \in Times :
         /\ rows' = rows /\ call'[c].user = call[c].user
         /\ call'[c].op = call[c].op /\ call'[c].roles = call[c].roles
         /\ call'[c].gone = GoneOf(c) /\ call'[c].made = NewRows(c, GivenBy(c), until)
         /\ \A d \in Calls \ {c} :
              IF Open(d) /\ call[d].user = call[c].user THEN Met(d, c) ELSE Same(d)
    BY <1>8, OperateFields
  <2>2. GoneOf(c)' = GoneOf(c)
    BY <2>1 DEF GoneOf, OfUser, OfRoles, Asked
  <2>3. NewRows(c, GivenBy(c), until)' = NewRows(c, GivenBy(c), until)
    BY <2>1 DEF GivenBy, Asked, NewRows
  <2>4. Exact(c)'
    BY <2>1, <2>2, <2>3 DEF Exact
  <2>5. \A d \in Calls \ {c} : Exact(d)'
    BY <1>1, <1>3, <2>1
  <2>6. QED
    BY <1>0, <2>4, <2>5
<1>9. ASSUME NEW c \in Calls, Commit(c) PROVE AllExact'
  <2>1. Exact(c)'
    BY <1>2, <1>9, CommitFields DEF Open
  <2>2. ASSUME NEW d \in Calls \ {c} PROVE Exact(d)'
    <3>1. Same(d) /\ Open(c) /\ rows' = After(c)
      BY <1>9, <2>2, CommitFields DEF Others, Open
    <3>2. ASSUME Open(d), call[d].met = {}, NEW r, r.user = call[d].user
          PROVE  r \in rows' <=> r \in rows
      <4>1. call[d].user # call[c].user
        BY <2>2, <3>1, <3>2 DEF AllMeet
      <4>2. r \notin call[c].made /\ r \notin call[c].gone
        BY <3>2, <4>1 DEF OwnRows
      <4>3. QED
        BY <3>1, <4>2 DEF After
    <3>3. QED
      BY <1>1, <3>1, <3>2
  <2>3. QED
    BY <1>0, <2>1, <2>2
<1>10. ASSUME DeleteExpired PROVE AllExact'
  <2>1. ASSUME NEW d \in Calls, Same(d),
               ~(Open(d) /\ \E r \in cleaner.found : r.user = call[d].user)
        PROVE  Exact(d)'
    BY <1>1, <1>10, <2>1, RemoveFields
  <2>2. QED
    BY <1>0, <1>3, <1>10, <2>1, RemoveFields
<1>11. ASSUME Rest PROVE AllExact'
  BY <1>0, <1>1, <1>11, RestFields DEF Same
<1>12. QED
  BY <1>4, <1>5, <1>6, <1>7, <1>8, <1>9, <1>10, <1>11, Steps

-----------------------------------------------------------------------------
\* The inductive invariant, and what follows from it.

IInv == /\ TypeOK /\ OwnRows /\ RowsAreDone /\ OneRowPerRole
        /\ Words /\ GrantsByAdmins /\ BulkAnswered /\ FoundAreExpired /\ FoundAreDone
        /\ AllMeet /\ AllSeen /\ DuplicatesNeedOverlap /\ AllExact

LEMMA InitRows ==
  ASSUME Init
  PROVE  /\ rows \subseteq Rows /\ \A r \in rows : r.call = "seed"
         /\ \A a, b \in rows : a.user = b.user /\ a.role = b.role => a = b
<1>1. PICK first \in Updaters, a \in Admins, S \in SUBSET Expiring :
        rows = {[call |-> "seed", user |-> first, role |-> a, until |-> Forever]}
          \cup {[call |-> "seed", user |-> s[1], role |-> s[2], until |-> 0] :
                  s \in S \ {<<first, a>>}}
  BY DEF Init
<1>2. first \in Users /\ a \in Roles /\ Forever \in Times /\ 0 \in Times
  BY RoleAssumption, TimesFacts
<1>3. \A s \in S : s[1] \in Users /\ s[2] \in Roles /\ s = <<s[1], s[2]>>
  BY RoleAssumption
<1>4. rows \subseteq Rows
  BY <1>1, <1>2, <1>3 DEF Rows
<1>5. ASSUME NEW r \in rows
      PROVE  \/ /\ r = [call |-> "seed", user |-> first, role |-> a, until |-> Forever]
             \/ \E s \in S : /\ s # <<first, a>>
                             /\ r = [call |-> "seed", user |-> s[1], role |-> s[2],
                                     until |-> 0]
  BY <1>1
<1>6. ASSUME NEW p \in rows, NEW q \in rows, p.user = q.user, p.role = q.role
      PROVE  p = q
  BY <1>3, <1>5, <1>6
<1>7. QED
  BY <1>4, <1>5, <1>6

LEMMA InitIInv == Init => IInv
<1> SUFFICES ASSUME Init PROVE IInv
  OBVIOUS
<1>1. \A c \in Calls : /\ call[c] = Unborn /\ call[c].pc = "new"
                       /\ call[c].gone = {} /\ call[c].made = {}
  BY DEF Init, Unborn
<1>2. TypeOK
  <2>1. call \in [Calls -> CallTypes]
    BY UnbornType DEF Init
  <2>2. QED
    BY <2>1, InitRows, RoleAssumption DEF Init, TypeOK
<1>3. OwnRows /\ Words /\ AllMeet /\ AllSeen /\ AllExact
  BY <1>1 DEF OwnRows, Words, AllMeet, AllSeen, AllExact, Open
<1>4. RowsAreDone /\ OneRowPerRole /\ GrantsByAdmins /\ DuplicatesNeedOverlap
  BY InitRows DEF RowsAreDone, OneRowPerRole, GrantsByAdmins, DuplicatesNeedOverlap
<1>5. BulkAnswered /\ FoundAreExpired /\ FoundAreDone
  BY <1>1 DEF BulkAnswered, FoundAreExpired, FoundAreDone, Init
<1>6. QED
  BY <1>2, <1>3, <1>4, <1>5 DEF IInv

LEMMA IInvStep == IInv /\ [Next]_vars => IInv'
  BY TypeStep, OwnStep, DoneStep, OneRowStep, WordStep, GrantStep, BulkStep, FoundStep,
     MeetStep, SeenStep, DuplicateStep, ExactStep DEF IInv

LEMMA Inductive == Spec => []IInv
  BY InitIInv, IInvStep, PTL DEF Spec

\* Every reachable state is one the variables' descriptions allow.
THEOREM TypeCorrect == Spec => []TypeOK
<1>1. IInv => TypeOK
  BY DEF IInv
<1>2. QED
  BY <1>1, Inductive, PTL

\* No role is ever held on the word of somebody who was not an administrator
\* at any time of the call that gave it, unless the request bypassed the check:
\* the hierarchy is checked before the transaction, and others may take the
\* updater's roles away in between (admin.service.ts:174, 247).
THEOREM Grants == Spec => []GrantsByAdmins
<1>1. IInv => GrantsByAdmins
  BY DEF IInv
<1>2. QED
  BY <1>1, Inductive, PTL

\* A bulk update answers when every one of its calls is over, and a user that it
\* counts as updated has the change committed on an administrator's word, for
\* any number of calls (admin.service.ts:650, 662).
THEOREM BulkIsHonest == Spec => []BulkCounts
<1>1. IInv => BulkCounts
  <2> SUFFICES ASSUME IInv PROVE BulkCounts
    OBVIOUS
  <2>1. TypeOK /\ BulkAnswered /\ Words
    BY DEF IInv
  <2>2. ASSUME NEW c \in bulk.ok PROVE Committed(c) /\ c \in was
    BY <2>1 DEF BulkAnswered, Words, Committed, TypeOK
  <2>3. ASSUME bulk.pc = "done", NEW c \in bulk.calls PROVE ~Busy(c)
    BY <2>1, <2>3 DEF BulkAnswered, Busy, Closed
  <2>4. QED
    BY <2>2, <2>3 DEF BulkCounts
<1>2. QED
  BY <1>1, Inductive, PTL

\* However many calls run, a user holds a role twice only when the two
\* transactions that gave it were open together (admin.service.ts:247).
THEOREM Duplicates == Spec => []DuplicatesNeedOverlap
<1>1. IInv => DuplicatesNeedOverlap
  BY DEF IInv
<1>2. QED
  BY <1>1, Inductive, PTL

\* The job's deletion by id spares whatever was extended since it looked
\* (session-cleaner.service.ts:74).
THEOREM CleanerExact == Spec => CleanerDeletesOnlyExpired
<1>1. IInv => (DeleteExpired => \A r \in rows \ rows' : Expired(r))
  BY DEF IInv, FoundAreExpired, DeleteExpired, Removes
<1>2. QED
  BY <1>1, Inductive, PTL DEF CleanerDeletesOnlyExpired

\* No call brings back what the job has listed or deleted: the ids of rows are
\* used once (session-cleaner.service.ts:74, admin.service.ts:269).
THEOREM FoundAreGone == Spec => FoundRowsGo
<1> SUFFICES ASSUME NEW r \in Rows
             PROVE  Spec => [](r \in cleaner.found => [](r \in cleaner.found \/ r \notin rows))
  BY DEF FoundRowsGo
<1> DEFINE Dropped == /\ r.call = "seed" \/ call[r.call].pc \in Ended
                      /\ r \in cleaner.found \/ r \notin rows
<1>1. IInv /\ r \in cleaner.found => Dropped
  BY DEF IInv, FoundAreDone
<1>2. IInv /\ Dropped /\ [Next]_vars => Dropped'
  <2> SUFFICES ASSUME IInv, Dropped, [Next]_vars PROVE Dropped'
    OBVIOUS
  <2>1. r.call \in Calls \cup {"seed"} /\ "seed" \notin Calls
    BY RoleAssumption DEF Rows
  <2>2. /\ r.call = "seed" \/ call'[r.call].pc \in Ended
        /\ r \notin rows => r \notin rows'
    BY <2>1, EndedStay DEF IInv, Ended
  <2>3. r \in cleaner.found => r \in cleaner'.found \/ r \notin rows'
    <3>1. FindExpired \/ DeleteExpired \/ cleaner' = cleaner
      BY ListSteps
    <3>2. FindExpired => cleaner.found = {}
      BY DEF IInv, FoundAreDone, FindExpired
    <3>3. QED
      BY <3>1, <3>2 DEF DeleteExpired, Removes
  <2>4. QED
    BY <2>2, <2>3
<1>3. Dropped => r \in cleaner.found \/ r \notin rows
  OBVIOUS
<1> HIDE DEF Dropped
<1>4. QED
  BY <1>1, <1>2, <1>3, Inductive, PTL DEF Spec

LEMMA ExactCommit ==
  ASSUME IInv, NEW c \in Calls, Commit(c), call[c].met = {}
  PROVE  RolesIn(rows', call[c].user) = Wanted(c, RolesIn(rows, call[c].user))
<1> DEFINE u == call[c].user
<1>1. Open(c) /\ rows' = After(c) /\ TypeOK /\ AllExact
  BY CommitFields DEF IInv, Open
<1>2. PICK until \in Times : /\ call[c].gone = GoneOf(c)
                             /\ call[c].made = NewRows(c, GivenBy(c), until)
  BY <1>1 DEF AllExact
<1>3. rows' = (rows \ GoneOf(c)) \cup NewRows(c, GivenBy(c), until)
  BY <1>1, <1>2 DEF After
<1>4. RolesIn(rows', u) = RolesIn(rows \ GoneOf(c), u) \cup GivenBy(c)
  <2>1. RolesIn(NewRows(c, GivenBy(c), until), u) = GivenBy(c)
    BY NewRowsFields DEF RolesIn
  <2>2. \A P, Q : RolesIn(P \cup Q, u) = RolesIn(P, u) \cup RolesIn(Q, u)
    BY DEF RolesIn
  <2>3. QED
    BY <1>3, <2>1, <2>2
<1>5. CASE call[c].op \in {"replace", "inherit"}
  <2>1. RolesIn(rows \ GoneOf(c), u) = {}
    BY <1>5 DEF GoneOf, OfUser, RolesIn
  <2>2. QED
    BY <1>4, <1>5, <2>1 DEF Wanted, GivenBy
<1>6. CASE call[c].op \notin {"replace", "inherit"}
  <2>1. RolesIn(rows \ GoneOf(c), u) = RolesIn(rows, u) \ Asked(c)
    BY <1>6 DEF GoneOf, OfRoles, RolesIn
  <2>2. CASE call[c].op = "remove"
    BY <1>4, <2>1, <2>2 DEF Wanted, GivenBy
  <2>3. CASE call[c].op # "remove"
    BY <1>4, <1>6, <2>1, <2>3 DEF Wanted, GivenBy
  <2>4. QED
    BY <2>2, <2>3
<1>7. QED
  BY <1>5, <1>6

\* A call whose transaction met no other one of its user leaves the roles its
\* operation names (admin.service.ts:247-411).
THEOREM SerialExact == Spec => SerialRolesExact
<1>1. IInv => \A c \in Calls : Commit(c) /\ call[c].met = {}
                => LET u == call[c].user IN
                   RolesIn(rows', u) = Wanted(c, RolesIn(rows, u))
  BY ExactCommit
<1>2. QED
  BY <1>1, Inductive, PTL DEF SerialRolesExact
=============================================================================
