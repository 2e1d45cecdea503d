----------------------------- MODULE EventChain -----------------------------
(***************************************************************************)
(* The hash-chained security event log: EventLogService.logEvent, called   *)
(* by every other service, and verifyChain, called by the admin pages.     *)
(*                                                                         *)
(* Each call of logEvent is a writer.  Its transaction is two round trips, *)
(* the read of the most recent row and the insert; PostgreSQL's default    *)
(* isolation (READ COMMITTED) lets other transactions commit in between.   *)
(* The hash of a row is taken to be collision-free and is represented by   *)
(* the row's position in commit order, 0 standing for null.                *)
(*                                                                         *)
(* TenantsService writes to the same table inside its own transactions and *)
(* does not chain: prevHash stays null, integrityHash covers a fixed text. *)
(***************************************************************************)
EXTENDS Integers, Sequences

CONSTANTS
  Writers,    \* calls of logEvent in flight at the same time
  MaxTime,    \* bound of the clock
  MaxRows     \* bound of the log

ASSUME BoundAssumption == MaxTime \in Nat /\ MaxRows \in Nat

VARIABLES
  log,        \* the Event table, in commit order
  writer,     \* the calls in flight
  outbox,     \* rows whose setImmediate callback is queued, in order
  emitted,    \* rows handed to the event stream
  now         \* the clock, in the resolution of createdAt

vars == <<log, writer, outbox, emitted, now>>

Rows == 1..Len(log)
NoRow == 0

\* `by` and `seen` are bookkeeping of the model: who wrote the row, and how many
\* rows the transaction's read could see (none when there is no read).
EventRow == [by: {"logEvent", "tenants"},
             prev: 0..MaxRows, seen: 0..MaxRows, created: 0..MaxTime]

WriterRow == [pc: {"idle", "insert", "direct", "committed"},
              prev: 0..MaxRows, seen: 0..MaxRows, began: 0..MaxTime,
              row: 0..MaxRows]

Idle == [pc |-> "idle", prev |-> NoRow, seen |-> 0, began |-> 0, row |-> NoRow]

TypeOK ==
  /\ log \in Seq(EventRow) /\ Len(log) <= MaxRows
  /\ writer \in [Writers -> WriterRow]
  /\ outbox \in Seq(1..MaxRows)
  /\ emitted \in SUBSET (1..MaxRows)
  /\ now \in 0..MaxTime

Init ==
  /\ log = <<>>
  /\ writer = [w \in Writers |-> Idle]
  /\ outbox = <<>>
  /\ emitted = {}
  /\ now = 0

-----------------------------------------------------------------------------
(* logEvent *)

\* Mutant: findFirst orderBy createdAt asc.
Earliest(i) == /\ i \in Rows
               /\ \A j \in Rows : log[j].created >= log[i].created

\* findFirst orderBy createdAt desc: with equal stamps the database may return
\* any of the latest rows.
Latest(i) == /\ i \in Rows
             /\ \A j \in Rows : log[j].created <= log[i].created

ReadLast(w) ==
  /\ writer[w].pc = "idle"
  /\ \E p \in Rows \cup {NoRow} :
       /\ IF log = <<>> THEN p = NoRow ELSE Latest(p)
       /\ writer' = [writer EXCEPT ![w] =
                       [pc |-> "insert", prev |-> p, seen |-> Len(log),
                        began |-> now, row |-> NoRow]]
  /\ UNCHANGED <<log, outbox, emitted, now>>

\* Mutant: the caller's own time of the event becomes createdAt.
InsertBackdated(w) ==
  /\ writer[w].pc = "insert"
  /\ Len(log) < MaxRows
  /\ \E c \in 0..now :
       log' = Append(log, [by |-> "logEvent", prev |-> writer[w].prev,
                           seen |-> writer[w].seen, created |-> c])
  /\ writer' = [writer EXCEPT ![w].pc = "committed", ![w].row = Len(log) + 1]
  /\ UNCHANGED <<outbox, emitted, now>>

\* createdAt is the column's default: some moment between the transaction's
\* start and its insert.
Insert(w) ==
  /\ writer[w].pc = "insert"
  /\ Len(log) < MaxRows
  /\ \E c \in writer[w].began..now :
       log' = Append(log, [by |-> "logEvent", prev |-> writer[w].prev,
                           seen |-> writer[w].seen, created |-> c])
  /\ writer' = [writer EXCEPT ![w].pc = "committed", ![w].row = Len(log) + 1]
  /\ UNCHANGED <<outbox, emitted, now>>

\* The transaction fails; logEvent swallows the error and returns null, the
\* tenant operation is rolled back.
Fail(w) ==
  /\ writer[w].pc \in {"insert", "direct"}
  /\ writer' = [writer EXCEPT ![w] = Idle]
  /\ UNCHANGED <<log, outbox, emitted, now>>

\* create, update, remove and activate of a tenant, from the start of their
\* transaction to its commit; the row is stamped somewhere in between.
TenantBegin(w) ==
  /\ writer[w].pc = "idle"
  /\ writer' = [writer EXCEPT ![w] =
                  [pc |-> "direct", prev |-> NoRow, seen |-> 0, began |-> now,
                   row |-> NoRow]]
  /\ UNCHANGED <<log, outbox, emitted, now>>

TenantCommit(w) ==
  /\ writer[w].pc = "direct"
  /\ Len(log) < MaxRows
  /\ \E c \in writer[w].began..now :
       log' = Append(log, [by |-> "tenants", prev |-> NoRow, seen |-> 0,
                           created |-> c])
  /\ writer' = [writer EXCEPT ![w] = Idle]
  /\ UNCHANGED <<outbox, emitted, now>>

\* Back in the event loop: queue the emission, return the row.
Return(w) ==
  /\ writer[w].pc = "committed"
  /\ outbox' = Append(outbox, writer[w].row)
  /\ writer' = [writer EXCEPT ![w] = Idle]
  /\ UNCHANGED <<log, emitted, now>>

\* Mutant: the callback empties the queue and hands over its first row only.
EmitFirst ==
  /\ outbox # <<>>
  /\ emitted' = emitted \cup {Head(outbox)}
  /\ outbox' = <<>>
  /\ UNCHANGED <<log, writer, now>>

Emit ==
  /\ outbox # <<>>
  /\ emitted' = emitted \cup {Head(outbox)}
  /\ outbox' = Tail(outbox)
  /\ UNCHANGED <<log, writer, now>>

Tick ==
  /\ now < MaxTime
  /\ now' = now + 1
  /\ UNCHANGED <<log, writer, outbox, emitted>>

Next == \/ \E w \in Writers : \/ ReadLast(w) \/ Insert(w) \/ Fail(w) \/ Return(w)
                              \/ TenantBegin(w) \/ TenantCommit(w)
        \/ Emit
        \/ Tick

Spec == Init /\ [][Next]_vars

\* A settled promise and a queued callback are always served.
Fairness == (\A w \in Writers : WF_vars(Return(w))) /\ WF_vars(Emit)

FairSpec == Spec /\ Fairness

-----------------------------------------------------------------------------
(* verifyChain *)

\* What each side puts under the hash.
LoggedFields == {"userId", "tenantId", "type", "severity", "metadata",
                 "ipAddress", "userAgent", "prevHash", "createdAt"}
VerifiedFields == {"userId", "tenantId", "type", "severity", "metadata",
                   "ipAddress", "userAgent", "prevHash"}

\* The rows in the order verifyChain reads them; ties come in any order.
AuditOrders ==
  {o \in [Rows -> Rows] :
     /\ \A i, j \in Rows : o[i] = o[j] => i = j
     /\ \A k \in Rows : \E i \in Rows : o[i] = k
     /\ \A i, j \in Rows : i < j => log[o[i]].created <= log[o[j]].created}

LinkHolds(o, i) == log[o[i]].prev = IF i = 1 THEN NoRow ELSE o[i - 1]

\* A recomputed hash equals the stored one iff it covers the same fields; a
\* hash of a fixed text never does.
HashHolds(o, i) == log[o[i]].by = "logEvent" /\ LoggedFields = VerifiedFields

ChainValid(o) == \A i \in Rows : HashHolds(o, i) /\ LinkHolds(o, i)

-----------------------------------------------------------------------------
(* Properties *)

\* The row an event is chained to was committed before the event was even
\* begun, and its createdAt is no later: the log is a forest rooted in null.
ParentIsNoYounger ==
  \A i \in Rows : log[i].prev # NoRow =>
    /\ log[i].prev \in 1..log[i].seen /\ log[i].seen < i
    /\ log[log[i].prev].created <= log[i].created

\* Two events hang on the same row only if the later one was chained without
\* sight of the earlier, or the earlier carries the very timestamp of that row.
ForkNeedsOverlapOrTie ==
  \A i, j \in Rows :
    (i < j /\ log[i].prev = log[j].prev) =>
      \/ log[j].seen < i
      \/ /\ log[i].prev # NoRow
         /\ log[log[i].prev].created = log[i].created

\* Calls that never overlap, in different milliseconds, make a log whose links
\* verifyChain finds in order.
SerialLogLinks ==
  (/\ \A i \in Rows : log[i].seen = i - 1
   /\ \A i, j \in Rows : i < j => log[i].created < log[j].created)
  => \A o \in AuditOrders, i \in Rows : LinkHolds(o, i)

\* Every event that logEvent committed reaches the stream, unless the process
\* dies.
CommittedIsEmitted ==
  \A i \in 1..MaxRows :
    (i \in Rows /\ log[i].by = "logEvent") ~> (i \in emitted)

\* Between commit and stream an event is always in somebody's hands: a call
\* that has yet to return, or the queue.  A call may not be dropped there, and
\* the queue not be overwritten, whoever else commits meanwhile.
NothingLost ==
  \A i \in Rows : log[i].by = "logEvent" =>
    \/ i \in emitted
    \/ \E k \in 1..Len(outbox) : outbox[k] = i
    \/ \E w \in Writers : writer[w].pc = "committed" /\ writer[w].row = i

\* The stream gets an event at most once, and only events that logEvent wrote:
\* what the queue holds it holds once, and it has not been handed over before.
EmittedOnce ==
  /\ \A i \in emitted : i \in Rows /\ log[i].by = "logEvent"
  /\ \A k, l \in 1..Len(outbox) : outbox[k] = outbox[l] => k = l
  /\ \A k \in 1..Len(outbox) : outbox[k] \notin emitted

\* "Read last integrityHash and insert new row atomically": no two events are
\* chained to the same row.
NoFork ==
  \A i, j \in Rows :
    (/\ log[i].by = "logEvent" /\ log[j].by = "logEvent"
     /\ log[i].prev = log[j].prev) => i = j

\* "Must match what logEvent used": verifyChain accepts what logEvent wrote,
\* when one call at a time wrote it in different milliseconds.
VerifierAccepts ==
  (/\ \A i \in Rows : log[i].by = "logEvent" /\ log[i].seen = i - 1
   /\ \A i, j \in Rows : i < j => log[i].created < log[j].created)
  => \A o \in AuditOrders : ChainValid(o)

-----------------------------------------------------------------------------
(* The invariant behind the properties; EventStreamProofs shows it inductive *)

\* p is a most recent one of the first n rows, and no younger than c.
ChainsTo(p, n, c) ==
  /\ n = 0 => p = NoRow
  /\ n > 0 => /\ p \in 1..n
              /\ \A k \in 1..n : log[k].created <= log[p].created
              /\ log[p].created <= c

ChainInv ==
  /\ \A i \in Rows : /\ log[i].seen < i
                     /\ ChainsTo(log[i].prev, log[i].seen, log[i].created)
                     /\ log[i].created <= now
  /\ \A w \in Writers : writer[w].pc = "insert" =>
       /\ writer[w].seen <= Len(log)
       /\ ChainsTo(writer[w].prev, writer[w].seen, writer[w].began)
       /\ writer[w].began <= now
  /\ \A w \in Writers : writer[w].pc = "committed" => writer[w].row \in Rows

\* A committed event is in the hands of one call, or once in the queue, or out.
HandInv ==
  /\ EmittedOnce
  /\ \A k \in 1..Len(outbox) : /\ outbox[k] \in Rows
                                /\ log[outbox[k]].by = "logEvent"
  /\ \A w \in Writers : writer[w].pc = "committed" =>
       /\ writer[w].row \in Rows /\ log[writer[w].row].by = "logEvent"
       /\ writer[w].row \notin emitted
       /\ \A k \in 1..Len(outbox) : outbox[k] # writer[w].row
       /\ \A v \in Writers :
            (writer[v].pc = "committed" /\ writer[v].row = writer[w].row) => v = w

=============================================================================
