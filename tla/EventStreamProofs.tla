------------------------- MODULE EventStreamProofs -------------------------
(* Proofs about EventChain, the log, and about SecurityMonitor, the reader *)
(* of the stream of events it emits, for all values of their constants.    *)
EXTENDS EventChain, SecurityMonitor, FiniteSetTheorems, WellFoundedInduction, TLAPS

-----------------------------------------------------------------------------
(* The hash-chained log *)

(* Every action keeps the types, given that committed writers hold a row. *)
LEMMA TypeNext ==
  ASSUME TypeOK, ChainInv, [Next]_vars
  PROVE  TypeOK'
<1> USE BoundAssumption DEF TypeOK, NoRow
<1>1. ASSUME NEW w \in Writers, ReadLast(w) PROVE TypeOK'
  <2>1. PICK p \in Rows \cup {NoRow} :
          writer' = [writer EXCEPT ![w] =
                       [pc |-> "insert", prev |-> p, seen |-> Len(log),
                        began |-> now, row |-> NoRow]]
    BY <1>1 DEF ReadLast
  <2>2. p \in 0..MaxRows /\ Len(log) \in 0..MaxRows
    BY DEF Rows
  <2>3. writer' \in [Writers -> WriterRow]
    BY <2>1, <2>2 DEF WriterRow
  <2>4. QED
    BY <1>1, <2>3 DEF ReadLast
<1>2. ASSUME NEW w \in Writers, Insert(w) PROVE TypeOK'
  <2>1. PICK c \in writer[w].began..now :
          log' = Append(log, [by |-> "logEvent", prev |-> writer[w].prev,
                              seen |-> writer[w].seen, created |-> c])
    BY <1>2 DEF Insert
  <2>2. [by |-> "logEvent", prev |-> writer[w].prev, seen |-> writer[w].seen,
         created |-> c] \in EventRow
    BY DEF EventRow, WriterRow
  <2>3. log' \in Seq(EventRow) /\ Len(log') = Len(log) + 1
    BY <2>1, <2>2
  <2>4. writer' \in [Writers -> WriterRow]
    <3>1. /\ Len(log) + 1 \in 0..MaxRows
          /\ writer' = [writer EXCEPT ![w].pc = "committed",
                                      ![w].row = Len(log) + 1]
      BY <1>2 DEF Insert
    <3>2. QED
      BY <3>1 DEF WriterRow
  <2>5. QED
    BY <1>2, <2>3, <2>4 DEF Insert
<1>3. ASSUME NEW w \in Writers, Fail(w) PROVE TypeOK'
  BY <1>3 DEF Fail, Idle, WriterRow
<1>4. ASSUME NEW w \in Writers, Return(w) PROVE TypeOK'
  <2>1. writer[w].row \in 1..MaxRows
    BY <1>4 DEF Return, ChainInv, Rows
  <2>2. outbox' \in Seq(1..MaxRows)
    BY <1>4, <2>1 DEF Return
  <2>3. QED
    BY <1>4, <2>2 DEF Return, Idle, WriterRow
<1>5. CASE Emit
  <2>1. Head(outbox) \in 1..MaxRows /\ Tail(outbox) \in Seq(1..MaxRows)
    BY <1>5 DEF Emit
  <2>2. QED
    BY <1>5, <2>1 DEF Emit
<1>6. CASE Tick
  BY <1>6 DEF Tick
<1>7. CASE UNCHANGED vars
  BY <1>7 DEF vars
<1>8. ASSUME NEW w \in Writers, TenantBegin(w) PROVE TypeOK'
  BY <1>8 DEF TenantBegin, WriterRow
<1>9. ASSUME NEW w \in Writers, TenantCommit(w) PROVE TypeOK'
  <2>1. PICK c \in writer[w].began..now :
          log' = Append(log, [by |-> "tenants", prev |-> NoRow, seen |-> 0,
                              created |-> c])
    BY <1>9 DEF TenantCommit
  <2>2. [by |-> "tenants", prev |-> NoRow, seen |-> 0, created |-> c] \in EventRow
    BY DEF EventRow, WriterRow
  <2>3. log' \in Seq(EventRow) /\ Len(log') = Len(log) + 1
    BY <2>1, <2>2
  <2>4. QED
    BY <1>9, <2>3 DEF TenantCommit, Idle, WriterRow
<1>10. QED
  BY <1>1, <1>2, <1>3, <1>4, <1>5, <1>6, <1>7, <1>8, <1>9 DEF Next

\* The log only grows, and the bound on the stamp may be relaxed.
LEMMA ChainsToGrows ==
  ASSUME log \in Seq(EventRow), log' \in Seq(EventRow),
         NEW n \in 0..Len(log), \A k \in 1..Len(log) : log'[k] = log[k],
         NEW p, NEW b \in Nat, NEW e \in Nat, b <= e, ChainsTo(p, n, b)
  PROVE  /\ n = 0 => p = NoRow
         /\ n > 0 => /\ p \in 1..n
                     /\ \A k \in 1..n : log'[k].created <= log'[p].created
                     /\ log'[p].created <= e
<1>1. CASE n = 0
  BY <1>1 DEF ChainsTo
<1>2. CASE n > 0
  <2>1. /\ p \in 1..n
        /\ \A k \in 1..n : log[k].created <= log[p].created
        /\ log[p].created <= b
    BY <1>2 DEF ChainsTo
  <2>2. Len(log) \in Nat /\ \A k \in 1..n : k \in 1..Len(log)
    OBVIOUS
  <2>3. \A k \in 1..n : log'[k] = log[k]
    BY <2>2
  <2>4. log[p] \in EventRow
    BY <2>1, <2>2
  <2>5. log[p].created \in Int
    BY <2>4, BoundAssumption DEF EventRow
  <2>6. log[p].created <= e
    BY <2>1, <2>5
  <2>7. QED
    BY <1>2, <2>1, <2>3, <2>6
<1>3. QED
  BY <1>1, <1>2

(* Every action keeps ChainInv. *)
LEMMA ChainNext ==
  ASSUME TypeOK, TypeOK', ChainInv, [Next]_vars
  PROVE  ChainInv'
<1> USE BoundAssumption DEF TypeOK, NoRow
<1>t. /\ Len(log) \in Nat /\ now \in Nat
      /\ \A i \in Rows : log[i] \in EventRow
      /\ \A w \in Writers : writer[w] \in WriterRow
  BY DEF Rows
<1>1. ASSUME NEW w \in Writers, ReadLast(w) PROVE ChainInv'
  <2>1. PICK p \in Rows \cup {NoRow} :
          /\ IF log = <<>> THEN p = NoRow ELSE Latest(p)
          /\ writer' = [writer EXCEPT ![w] =
                          [pc |-> "insert", prev |-> p, seen |-> Len(log),
                           began |-> now, row |-> NoRow]]
    BY <1>1 DEF ReadLast
  <2>2. ChainsTo(p, Len(log), now)
    BY <2>1, <1>t DEF ChainsTo, Latest, Rows, ChainInv
  <2>3. QED
    BY <1>1, <1>t, <2>1, <2>2 DEF ReadLast, ChainInv, ChainsTo, Rows
<1>2. ASSUME NEW w \in Writers, Insert(w) PROVE ChainInv'
  <2>1. PICK c \in writer[w].began..now :
          log' = Append(log, [by |-> "logEvent", prev |-> writer[w].prev,
                              seen |-> writer[w].seen, created |-> c])
    BY <1>2 DEF Insert
  <2>2. /\ Len(log') = Len(log) + 1
        /\ \A i \in Rows : log'[i] = log[i]
        /\ log'[Len(log) + 1] = [by |-> "logEvent", prev |-> writer[w].prev,
                                 seen |-> writer[w].seen, created |-> c]
    BY <2>1, <1>t DEF Rows
  <2>3. /\ log' \in Seq(EventRow) /\ \A k \in 1..Len(log) : log'[k] = log[k]
        /\ \A k \in Rows : log[k].seen \in Nat /\ log[k].created \in Nat
        /\ \A v \in Writers : writer[v].seen \in Nat /\ writer[v].began \in Nat
    <3>1. \A k \in Rows : log[k].seen \in Nat /\ log[k].created \in Nat
      BY <1>t DEF EventRow
    <3>2. ASSUME NEW v \in Writers
          PROVE  writer[v].seen \in Nat /\ writer[v].began \in Nat
      <4>1. writer[v].seen \in 0..MaxRows /\ writer[v].began \in 0..MaxTime
        BY <1>t DEF WriterRow
      <4>2. QED
        BY <4>1
    <3>3. QED
      BY <2>2, <3>1, <3>2 DEF Rows
  <2>4. /\ writer[w].pc = "insert" /\ now' = now
        /\ writer[w].seen \in 0..Len(log)
        /\ writer[w].began \in Nat /\ c \in Nat
        /\ writer[w].began <= c /\ c <= now
    BY <1>2, <1>t DEF Insert, ChainInv, WriterRow
  <2>5. ASSUME NEW i \in Rows'
        PROVE  /\ log'[i].seen < i
               /\ ChainsTo(log[i].prev, log[i].seen, log[i].created)'
               /\ log'[i].created <= now'
    <3>1. CASE i = Len(log) + 1
      <4>1. ChainsTo(writer[w].prev, writer[w].seen, writer[w].began)
        BY <2>4 DEF ChainInv
      <4>2. /\ log'[i].prev = writer[w].prev /\ log'[i].seen = writer[w].seen
            /\ log'[i].created = c
        BY <2>2, <3>1
      <4>3. /\ writer[w].seen = 0 => writer[w].prev = NoRow
            /\ writer[w].seen > 0 =>
                 /\ writer[w].prev \in 1..writer[w].seen
                 /\ \A k \in 1..writer[w].seen :
                         log'[k].created <= log'[writer[w].prev].created
                 /\ log'[writer[w].prev].created <= c
        <5>1. /\ log \in Seq(EventRow) /\ log' \in Seq(EventRow)
              /\ \A k \in 1..Len(log) : log'[k] = log[k]
          BY <1>t, <2>3
        <5>2. QED
          BY ONLY <5>1, <4>1, <2>4, ChainsToGrows
      <4>4. ChainsTo(log[i].prev, log[i].seen, log[i].created)'
        BY <4>2, <4>3 DEF ChainsTo
      <4>5. QED
        BY <4>2, <4>4, <2>4, <3>1, <1>t
    <3>2. CASE i \in Rows
      <4>1. /\ log[i].seen < i /\ log[i].created <= now
            /\ ChainsTo(log[i].prev, log[i].seen, log[i].created)
        BY <3>2 DEF ChainInv
      <4>2. /\ log[i].seen \in 0..Len(log) /\ log[i].created \in Nat
            /\ log[i].created <= log[i].created
        BY <4>1, <3>2, <2>3, <1>t DEF Rows
      <4>3. log'[i] = log[i]
        BY <2>2, <3>2
      <4>4. /\ log[i].seen = 0 => log[i].prev = NoRow
            /\ log[i].seen > 0 =>
                 /\ log[i].prev \in 1..log[i].seen
                 /\ \A k \in 1..log[i].seen :
                         log'[k].created <= log'[log[i].prev].created
                 /\ log'[log[i].prev].created <= log[i].created
        <5>1. /\ log \in Seq(EventRow) /\ log' \in Seq(EventRow)
              /\ \A k \in 1..Len(log) : log'[k] = log[k]
          BY <1>t, <2>3
        <5>2. QED
          BY ONLY <5>1, <4>1, <4>2, ChainsToGrows
      <4>5. ChainsTo(log[i].prev, log[i].seen, log[i].created)'
        BY <4>3, <4>4 DEF ChainsTo
      <4>6. QED
        BY <4>1, <4>3, <4>5, <2>4
    <3>3. QED
      BY <3>1, <3>2, <2>2, <1>t DEF Rows
  <2>6. ASSUME NEW v \in Writers, writer'[v].pc = "insert"
        PROVE  /\ writer'[v].seen <= Len(log')
               /\ ChainsTo(writer[v].prev, writer[v].seen, writer[v].began)'
               /\ writer'[v].began <= now'
    <3>1. v # w /\ writer'[v] = writer[v] /\ writer[v].pc = "insert"
      BY <1>2, <2>6 DEF Insert, WriterRow
    <3>2. /\ writer[v].seen \in 0..Len(log) /\ writer[v].began \in Nat
          /\ writer[v].began <= now
          /\ ChainsTo(writer[v].prev, writer[v].seen, writer[v].began)
      BY <3>1, <1>t, <2>3 DEF ChainInv
    <3>3. /\ writer[v].seen = 0 => writer[v].prev = NoRow
          /\ writer[v].seen > 0 =>
               /\ writer[v].prev \in 1..writer[v].seen
               /\ \A k \in 1..writer[v].seen :
                       log'[k].created <= log'[writer[v].prev].created
               /\ log'[writer[v].prev].created <= writer[v].began
      <4>1. /\ log \in Seq(EventRow) /\ log' \in Seq(EventRow)
            /\ \A k \in 1..Len(log) : log'[k] = log[k]
            /\ writer[v].began <= writer[v].began
        BY <1>t, <2>3, <3>2
      <4>2. QED
        BY ONLY <4>1, <3>2, ChainsToGrows
    <3>4. ChainsTo(writer[v].prev, writer[v].seen, writer[v].began)'
      BY <3>1, <3>3 DEF ChainsTo
    <3>5. QED
      BY <3>1, <3>2, <3>4, <2>2, <2>4, <1>t
  <2>7. ASSUME NEW v \in Writers, writer'[v].pc = "committed"
        PROVE  writer'[v].row \in Rows'
    BY <1>2, <2>2, <2>7, <1>t DEF Insert, ChainInv, Rows, WriterRow
  <2>8. QED
    BY <2>5, <2>6, <2>7 DEF ChainInv
<1>3. ASSUME NEW w \in Writers, Fail(w) \/ Return(w) \/ TenantBegin(w)
      PROVE  ChainInv'
  <2>1. /\ log' = log /\ now' = now
        /\ \A v \in Writers : \/ writer'[v] = writer[v]
                              \/ writer'[v].pc \in {"idle", "direct"}
    BY <1>3 DEF Fail, Return, TenantBegin, Idle
  <2>2. QED
    BY <2>1 DEF ChainInv, ChainsTo, Rows
<1>4. CASE Emit \/ UNCHANGED vars
  BY <1>4 DEF Emit, vars, ChainInv, ChainsTo, Rows
<1>5. CASE Tick
  <2>1. log' = log /\ writer' = writer /\ now <= now'
    BY <1>5 DEF Tick
  <2>2. QED
    <3>1. \A i \in Rows : log[i].created \in Int
      BY <1>t, BoundAssumption DEF EventRow
    <3>2. \A w \in Writers : writer[w].began \in Int
      BY <1>t, BoundAssumption DEF WriterRow
    <3>3. now \in Int /\ now' \in Int
      OBVIOUS
    <3>4. \A i \in Rows' : /\ log'[i].seen < i /\ log'[i].created <= now'
                          /\ ChainsTo(log[i].prev, log[i].seen, log[i].created)'
      BY <2>1, <3>1, <3>3 DEF ChainInv, ChainsTo, Rows
    <3>5. \A w \in Writers : writer'[w].pc = "insert" =>
            /\ writer'[w].seen <= Len(log') /\ writer'[w].began <= now'
            /\ ChainsTo(writer[w].prev, writer[w].seen, writer[w].began)'
      BY <2>1, <3>2, <3>3 DEF ChainInv, ChainsTo
    <3>6. \A w \in Writers :
            writer'[w].pc = "committed" => writer'[w].row \in Rows'
      BY <2>1 DEF ChainInv, Rows
    <3>7. QED
      BY <3>4, <3>5, <3>6 DEF ChainInv
<1>6. ASSUME NEW w \in Writers, TenantCommit(w) PROVE ChainInv'
  <2>1. PICK c \in writer[w].began..now :
          log' = Append(log, [by |-> "tenants", prev |-> NoRow, seen |-> 0,
                              created |-> c])
    BY <1>6 DEF TenantCommit
  <2>2. /\ Len(log') = Len(log) + 1 /\ now' = now
        /\ \A i \in Rows : log'[i] = log[i]
        /\ log'[Len(log) + 1] = [by |-> "tenants", prev |-> NoRow, seen |-> 0,
                                 created |-> c]
        /\ \A v \in Writers : \/ writer'[v] = writer[v]
                              \/ writer'[v].pc = "idle"
    BY <1>6, <2>1, <1>t DEF TenantCommit, Rows, Idle
  <2>3. ASSUME NEW q, NEW n \in 0..Len(log), NEW e, ChainsTo(q, n, e)
        PROVE  ChainsTo(q, n, e)'
    <3>1. \A k \in 1..n : log'[k] = log[k]
      BY <2>2, <1>t DEF Rows
    <3>2. QED
      BY <2>3, <3>1 DEF ChainsTo
  <2>4. ASSUME NEW i \in Rows'
        PROVE  /\ log'[i].seen < i
               /\ ChainsTo(log[i].prev, log[i].seen, log[i].created)'
               /\ log'[i].created <= now'
    <3>1. CASE i = Len(log) + 1
      BY <2>2, <3>1, <1>t DEF ChainsTo, WriterRow
    <3>2. CASE i \in Rows
      <4>1. /\ log[i].seen < i /\ log[i].created <= now /\ log'[i] = log[i]
            /\ ChainsTo(log[i].prev, log[i].seen, log[i].created)
        BY <3>2, <2>2 DEF ChainInv
      <4>2. log[i].seen \in Nat
        BY <3>2, <1>t DEF EventRow
      <4>3. log[i].seen \in 0..Len(log)
        BY <4>1, <4>2, <3>2, <1>t DEF Rows
      <4>4. ChainsTo(log[i].prev, log[i].seen, log[i].created)'
        BY <2>3, <4>1, <4>3
      <4>5. QED
        BY <2>2, <4>1, <4>4
    <3>3. QED
      BY <2>2, <3>1, <3>2, <1>t DEF Rows
  <2>5. ASSUME NEW v \in Writers, writer'[v].pc = "insert"
        PROVE  /\ writer'[v].seen <= Len(log')
               /\ ChainsTo(writer[v].prev, writer[v].seen, writer[v].began)'
               /\ writer'[v].began <= now'
    <3>1. /\ writer'[v] = writer[v] /\ writer[v].pc = "insert"
          /\ writer[v].seen \in 0..MaxRows
      BY <2>2, <2>5, <1>t DEF WriterRow
    <3>2. /\ writer[v].seen \in 0..Len(log) /\ writer[v].began <= now
          /\ ChainsTo(writer[v].prev, writer[v].seen, writer[v].began)
      BY <3>1, <1>t DEF ChainInv
    <3>3. ChainsTo(writer[v].prev, writer[v].seen, writer[v].began)'
      BY <2>3, <3>1, <3>2
    <3>4. QED
      BY <2>2, <3>1, <3>2, <3>3, <1>t
  <2>6. ASSUME NEW v \in Writers, writer'[v].pc = "committed"
        PROVE  writer'[v].row \in Rows'
    <3>1. writer[v].pc = "committed" /\ writer'[v] = writer[v]
      BY <2>2, <2>6
    <3>2. writer[v].row \in Rows
      BY <3>1 DEF ChainInv
    <3>3. QED
      BY <2>2, <3>1, <3>2, <1>t DEF Rows
  <2>7. QED
    BY <2>4, <2>5, <2>6 DEF ChainInv
<1>7. QED
  BY <1>1, <1>2, <1>3, <1>4, <1>5, <1>6 DEF Next

(* ChainInv holds in every reachable state. *)
LEMMA ChainInvariance == Spec => [](TypeOK /\ ChainInv)
<1>1. Init => TypeOK /\ ChainInv
  BY BoundAssumption
  DEF Init, TypeOK, ChainInv, Rows, EventRow, WriterRow, Idle, NoRow
<1>2. TypeOK /\ ChainInv /\ [Next]_vars => (TypeOK /\ ChainInv)'
  BY TypeNext, ChainNext
<1>3. QED
  BY <1>1, <1>2, PTL DEF Spec

(* The log, the calls in flight and the emission queue keep their types.   *)
THEOREM LogTypeCorrect == Spec => []TypeOK
BY ChainInvariance, PTL

(* However many calls of logEvent overlap, every event hangs on an event    *)
(* that was committed before it began and that is no younger.               *)
THEOREM ParentsComeFirst == Spec => []ParentIsNoYounger
<1>1. ASSUME TypeOK, ChainInv PROVE ParentIsNoYounger
  <2>1. SUFFICES ASSUME NEW i \in Rows, log[i].prev # NoRow
                 PROVE  /\ log[i].prev \in 1..log[i].seen /\ log[i].seen < i
                        /\ log[log[i].prev].created <= log[i].created
    BY DEF ParentIsNoYounger
  <2>2. log[i] \in EventRow
    BY <1>1 DEF TypeOK, Rows
  <2>3. log[i].seen \in Nat
    BY <2>2, BoundAssumption DEF EventRow
  <2>4. log[i].seen < i /\ ChainsTo(log[i].prev, log[i].seen, log[i].created)
    BY <1>1 DEF ChainInv
  <2>5. QED
    BY <2>1, <2>3, <2>4 DEF ChainsTo
<1>2. QED
  BY <1>1, ChainInvariance, PTL

(* logEvent forks the chain only when two calls overlap or a timestamp is   *)
(* used twice.                                                              *)
THEOREM ForksAreExplained == Spec => []ForkNeedsOverlapOrTie
<1>1. ASSUME TypeOK, ChainInv PROVE ForkNeedsOverlapOrTie
  <2>1. SUFFICES ASSUME NEW i \in Rows, NEW j \in Rows, i < j,
                        log[i].prev = log[j].prev, ~(log[j].seen < i)
                 PROVE  /\ log[i].prev # NoRow
                        /\ log[log[i].prev].created = log[i].created
    BY DEF ForkNeedsOverlapOrTie
  <2>2. /\ \A k \in Rows : log[k] \in EventRow
        /\ i \in 1..log[j].seen /\ log[j].seen < j
    <3>1. \A k \in Rows : log[k] \in EventRow
      BY <1>1 DEF TypeOK, Rows
    <3>2. log[j].seen \in Nat /\ i \in Nat /\ i >= 1
      BY <3>1, BoundAssumption DEF EventRow, Rows
    <3>3. log[j].seen < j
      BY <1>1 DEF ChainInv
    <3>4. QED
      BY <3>1, <3>2, <3>3, <2>1
  <2>3. /\ log[j].prev \in 1..log[j].seen
        /\ log[i].created <= log[log[j].prev].created
    BY <1>1, <2>2 DEF ChainInv, ChainsTo, EventRow
  <2>4. log[i].prev \in Rows /\ log[i].prev # NoRow
    BY <2>1, <2>2, <2>3 DEF Rows, NoRow, EventRow
  <2>5. log[log[i].prev].created <= log[i].created
    BY <1>1, <2>1, <2>2, <2>4 DEF ChainInv, ChainsTo, EventRow, NoRow
  <2>6. QED
    BY <2>1, <2>2, <2>3, <2>4, <2>5 DEF EventRow
<1>2. QED
  BY <1>1, ChainInvariance, PTL

(* verifyChain's link check accepts what calls of logEvent wrote one after  *)
(* the other in different milliseconds.                                     *)
THEOREM SerialLinksHold == Spec => []SerialLogLinks
<1>1. ASSUME TypeOK, ChainInv PROVE SerialLogLinks
  <2>1. SUFFICES ASSUME \A i \in Rows : log[i].seen = i - 1,
                        \A i, j \in Rows :
                          i < j => log[i].created < log[j].created,
                        NEW o \in AuditOrders, NEW i \in Rows
                 PROVE  LinkHolds(o, i)
    BY DEF SerialLogLinks
  <2>2. /\ Len(log) \in Nat /\ \A k \in Rows : log[k] \in EventRow
        /\ o \in [Rows -> Rows]
    BY <1>1 DEF TypeOK, AuditOrders, Rows
  <2>3. \A k \in Rows : log[k].prev = k - 1
    <3>1. SUFFICES ASSUME NEW k \in Rows PROVE log[k].prev = k - 1
      OBVIOUS
    <3>2. log[k].seen = k - 1 /\ ChainsTo(log[k].prev, k - 1, log[k].created)
      BY <1>1, <2>1 DEF ChainInv
    <3>3. CASE k = 1
      BY <3>2, <3>3 DEF ChainsTo, NoRow
    <3>4. CASE k # 1
      <4>1. /\ log[k].prev \in 1..(k - 1) /\ k - 1 \in 1..(k - 1)
            /\ log[k - 1].created <= log[log[k].prev].created
        BY <3>2, <3>4, <2>2 DEF ChainsTo, Rows
      <4>2. log[k].prev \in Rows /\ k - 1 \in Rows
        BY <4>1, <2>2 DEF Rows
      <4>3. ~(log[k].prev < k - 1)
        BY <2>1, <2>2, <4>1, <4>2 DEF EventRow
      <4>4. QED
        BY <4>1, <4>3 DEF Rows
    <3>5. QED
      BY <3>3, <3>4
  \* The order of the audit is the order of the commits.
  <2>4. \A a, b \in Rows : a < b => o[a] < o[b]
    <3>1. SUFFICES ASSUME NEW a \in Rows, NEW b \in Rows, a < b
                   PROVE  o[a] < o[b]
      OBVIOUS
    <3>2. /\ o[a] \in Rows /\ o[b] \in Rows /\ o[a] # o[b]
          /\ log[o[a]].created <= log[o[b]].created
      <4>1. /\ \A k, m \in Rows : o[k] = o[m] => k = m
            /\ \A k, m \in Rows :
                 k < m => log[o[k]].created <= log[o[m]].created
        BY Zenon DEF AuditOrders
      <4>2. o[a] \in Rows /\ o[b] \in Rows /\ a # b
        BY <2>2, <3>1 DEF Rows
      <4>3. QED
        BY <3>1, <4>1, <4>2
    <3>3. ~(o[b] < o[a])
      BY <2>1, <2>2, <3>2 DEF EventRow
    <3>4. QED
      BY <3>2, <3>3 DEF Rows
  <2>5. \A k \in Rows : \E m \in Rows : o[m] = k
    BY DEF AuditOrders
  <2>6. CASE i = 1
    <3>1. PICK m \in Rows : o[m] = 1
      BY <2>5, <2>6
    <3>2. o[1] = 1
      BY <2>2, <2>4, <2>6, <3>1 DEF Rows
    <3>3. QED
      BY <2>3, <2>6, <3>2 DEF LinkHolds, NoRow, Rows
  <2>7. CASE i # 1
    <3>1. i - 1 \in Rows /\ o[i - 1] < o[i]
      BY <2>2, <2>4, <2>7 DEF Rows
    <3>2. o[i] - 1 \in Rows
      BY <2>2, <3>1 DEF Rows
    <3>3. PICK m \in Rows : o[m] = o[i] - 1
      BY <2>5, <3>2
    <3>4. m < i
      BY <2>2, <2>4, <3>3 DEF Rows
    <3>5. m = i - 1
      BY <2>2, <2>4, <3>1, <3>3, <3>4 DEF Rows
    <3>6. QED
      BY <2>2, <2>3, <2>7, <3>3, <3>5 DEF LinkHolds, Rows
  <2>8. QED
    BY <2>6, <2>7
<1>2. QED
  BY <1>1, ChainInvariance, PTL

(* The handing over of an event: from the call that committed it to the     *)
(* queue, and from there to the stream.                                     *)
LEMMA NothingLostStep ==
  ASSUME TypeOK, ChainInv, NothingLost, [Next]_vars
  PROVE  NothingLost'
<1> DEFINE InQueue(i) == \E k \in 1..Len(outbox) : outbox[k] = i
           InCall(i) == \E w \in Writers : writer[w].pc = "committed" /\ writer[w].row = i
           Kept(i) == i \in emitted \/ InQueue(i) \/ InCall(i)
<1>k. (\A i \in Rows : log[i].by = "logEvent" => Kept(i))
      /\ ((\A i \in Rows' : log'[i].by = "logEvent" => Kept(i)') => NothingLost')
  BY DEF NothingLost
<1> HIDE DEF Kept
<1>t. /\ writer \in [Writers -> WriterRow] /\ outbox \in Seq(1..MaxRows)
      /\ log \in Seq(EventRow) /\ Len(log) \in Nat
      /\ Len(outbox) \in Nat
  BY DEF TypeOK
\* No row more, nothing taken from queue or call.
<1>o. ASSUME log' = log, \A i \in Rows : Kept(i) => Kept(i)'
      PROVE  NothingLost'
  BY <1>k, <1>o DEF Rows
<1>1. ASSUME NEW w \in Writers, ReadLast(w) \/ Fail(w) \/ TenantBegin(w)
      PROVE  NothingLost'
  <2>1. /\ log' = log /\ outbox' = outbox /\ emitted' = emitted
        /\ writer[w].pc # "committed"
        /\ \A v \in Writers : v # w => writer'[v] = writer[v]
    BY <1>1, <1>t DEF ReadLast, Fail, TenantBegin
  <2>2. \A i \in Rows : Kept(i) => Kept(i)'
    BY <2>1 DEF Kept
  <2>3. QED
    BY <2>1, <2>2, <1>o
<1>2. ASSUME NEW w \in Writers, Insert(w) \/ TenantCommit(w)
      PROVE  NothingLost'
  <2>1. /\ outbox' = outbox /\ emitted' = emitted /\ writer[w].pc # "committed"
        /\ \A v \in Writers : v # w => writer'[v] = writer[v]
    BY <1>2, <1>t DEF Insert, TenantCommit
  <2>2. \A i \in Rows : Kept(i) => Kept(i)'
    BY <2>1 DEF Kept
  <2>3. PICK e \in EventRow :
          /\ log' = Append(log, e)
          /\ e.by = "logEvent" => Insert(w)
    <3>1. CASE Insert(w)
      <4>1. PICK c \in writer[w].began..now :
              log' = Append(log, [by |-> "logEvent", prev |-> writer[w].prev,
                                  seen |-> writer[w].seen, created |-> c])
        BY <3>1 DEF Insert
      <4>2. [by |-> "logEvent", prev |-> writer[w].prev, seen |-> writer[w].seen,
             created |-> c] \in EventRow
        BY <1>t, BoundAssumption DEF TypeOK, EventRow, WriterRow
      <4>3. QED
        BY <3>1, <4>1, <4>2
    <3>2. CASE TenantCommit(w)
      <4>1. PICK c \in writer[w].began..now :
              log' = Append(log, [by |-> "tenants", prev |-> NoRow, seen |-> 0,
                                  created |-> c])
        BY <3>2 DEF TenantCommit
      <4>2. [by |-> "tenants", prev |-> NoRow, seen |-> 0, created |-> c]
              \in EventRow
        BY <1>t, BoundAssumption DEF TypeOK, EventRow, WriterRow, NoRow
      <4>3. QED
        BY <4>1, <4>2
    <3>3. QED
      BY <1>2, <3>1, <3>2
  <2>4. PICK n \in Nat : n = Len(log) + 1
    BY <1>t
  <2>5. /\ \A i \in Rows' : i \in Rows \/ i = n
        /\ \A i \in Rows : log'[i] = log[i]
        /\ log'[n] = e
    BY <2>3, <2>4, <1>t DEF Rows
  <2>6. e.by = "logEvent" => Kept(n)'
    <3>1. ASSUME Insert(w) PROVE writer'[w].pc = "committed" /\ writer'[w].row = n
      BY <3>1, <2>4, <1>t DEF Insert, WriterRow
    <3>2. QED
      BY <2>3, <3>1 DEF Kept
  <2>7. \A i \in Rows' : log'[i].by = "logEvent" => Kept(i)'
    BY <1>k, <2>2, <2>5, <2>6
  <2>8. QED
    BY <1>k, <2>7
<1>3. ASSUME NEW w \in Writers, Return(w) PROVE NothingLost'
  <2>1. /\ log' = log /\ emitted' = emitted
        /\ outbox' = Append(outbox, writer[w].row)
        /\ \A v \in Writers : v # w => writer'[v] = writer[v]
    BY <1>3, <1>t DEF Return
  <2>2. writer[w].row \in 1..MaxRows
    BY <1>3, BoundAssumption DEF Return, ChainInv, Rows, TypeOK
  <2>3. /\ Len(outbox') = Len(outbox) + 1
        /\ \A k \in 1..Len(outbox) : outbox'[k] = outbox[k]
        /\ outbox'[Len(outbox) + 1] = writer[w].row
    BY <2>1, <2>2, <1>t
  <2>4. ASSUME NEW i \in Rows, Kept(i) PROVE Kept(i)'
    <3>1. InQueue(i) => InQueue(i)'
      BY <2>3, <1>t
    <3>2. writer[w].row = i => InQueue(i)'
      BY <2>3, <1>t
    <3>3. InCall(i) => InCall(i)' \/ writer[w].row = i
      BY <2>1
    <3>4. QED
      BY <2>1, <2>4, <3>1, <3>2, <3>3 DEF Kept
  <2>5. QED
    BY <2>1, <2>4, <1>o
<1>4. CASE Emit
  <2>1. /\ log' = log /\ writer' = writer
        /\ emitted' = emitted \cup {Head(outbox)}
        /\ outbox # <<>> /\ outbox' = Tail(outbox)
    BY <1>4 DEF Emit
  <2>2. /\ Head(outbox) = outbox[1] /\ Len(outbox') = Len(outbox) - 1
        /\ \A k \in 1..Len(outbox) : k # 1 => outbox'[k - 1] = outbox[k]
    BY <2>1, <1>t
  <2>3. ASSUME NEW i \in Rows, Kept(i) PROVE Kept(i)'
    <3>1. CASE InQueue(i)
      <4>1. PICK k \in 1..Len(outbox) : outbox[k] = i
        BY <3>1
      <4>2. CASE k = 1
        BY <2>1, <2>2, <4>1, <4>2 DEF Kept
      <4>3. CASE k # 1
        <5>1. k - 1 \in 1..Len(outbox') /\ outbox'[k - 1] = i
          BY <2>2, <4>1, <4>3, <1>t
        <5>2. QED
          BY <5>1 DEF Kept
      <4>4. QED
        BY <4>2, <4>3
    <3>2. CASE i \in emitted \/ InCall(i)
      BY <2>1, <3>2 DEF Kept
    <3>3. QED
      BY <2>3, <3>1, <3>2 DEF Kept
  <2>4. QED
    BY <2>1, <2>3, <1>o
<1>5. CASE Tick \/ UNCHANGED vars
  <2>1. log' = log /\ outbox' = outbox /\ emitted' = emitted /\ writer' = writer
    BY <1>5 DEF Tick, vars
  <2>2. QED
    BY <2>1, <1>o DEF Kept
<1>6. QED
  BY <1>1, <1>2, <1>3, <1>4, <1>5 DEF Next

(* Unless the process dies, a committed event is never lost on its way from *)
(* the transaction to the stream: some call or the queue still holds it.    *)
(* This is the safety part of CommittedIsEmitted; that calls return and the *)
(* queue is served is the fairness that the other part assumes.             *)
THEOREM NoneLost == Spec => []NothingLost
<1>1. Init => NothingLost
  BY DEF Init, NothingLost, Rows
<1>2. QED
  BY <1>1, ChainInvariance, NothingLostStep, PTL DEF Spec

(* What the queue and the calls hold between them, each event once. *)
LEMMA HandStep ==
  ASSUME TypeOK, ChainInv, HandInv, [Next]_vars
  PROVE  HandInv'
<1>t. /\ writer \in [Writers -> WriterRow] /\ outbox \in Seq(1..MaxRows)
      /\ log \in Seq(EventRow) /\ Len(log) \in Nat
      /\ Len(outbox) \in Nat /\ emitted \in SUBSET (1..MaxRows)
  BY DEF TypeOK
\* The hands change, the log does not.
<1>1. ASSUME NEW w \in Writers, ReadLast(w) \/ Fail(w) \/ TenantBegin(w)
      PROVE  HandInv'
  <2>1. /\ log' = log /\ outbox' = outbox /\ emitted' = emitted
        /\ writer'[w].pc # "committed"
        /\ \A v \in Writers : v # w => writer'[v] = writer[v]
    BY <1>1, <1>t DEF ReadLast, Fail, TenantBegin, Idle
  <2>2. \A v \in Writers : writer'[v].pc = "committed" => writer'[v] = writer[v]
    BY <2>1
  <2>3. QED
    BY <2>1, <2>2 DEF HandInv, EmittedOnce, Rows
<1>2. ASSUME NEW w \in Writers, Insert(w) \/ TenantCommit(w)
      PROVE  HandInv'
  <2>1. PICK e : log' = Append(log, e) /\ (Insert(w) => e.by = "logEvent")
    <3>1. CASE Insert(w)
      BY <3>1 DEF Insert
    <3>2. CASE TenantCommit(w)
      <4>1. PICK c \in writer[w].began..now :
              log' = Append(log, [by |-> "tenants", prev |-> NoRow, seen |-> 0,
                                  created |-> c])
        BY <3>2 DEF TenantCommit
      <4>2. ~Insert(w)
        BY <3>2 DEF TenantCommit, Insert
      <4>3. QED
        BY <4>1, <4>2
    <3>3. QED
      BY <1>2, <3>1, <3>2
  <2>2. PICK n \in Nat : n = Len(log) + 1
    BY <1>t
  <2>3. /\ \A i \in Rows : i \in Rows' /\ log'[i] = log[i]
        /\ n \in Rows' /\ log'[n] = e /\ n \notin Rows
    BY <2>1, <2>2, <1>t DEF Rows
  <2>4. /\ outbox' = outbox /\ emitted' = emitted
        /\ writer[w].pc # "committed"
        /\ \A v \in Writers : v # w => writer'[v] = writer[v]
        /\ writer'[w].pc = "committed" => Insert(w) /\ writer'[w].row = n
    <3>1. CASE Insert(w)
      <4>1. writer'[w].pc = "committed" /\ writer'[w].row = Len(log) + 1
        BY <3>1, <1>t DEF Insert, WriterRow
      <4>2. QED
        BY <1>t, <2>2, <3>1, <4>1 DEF Insert
    <3>2. CASE TenantCommit(w)
      BY <1>t, <3>2 DEF TenantCommit, Idle
    <3>3. QED
      BY <1>2, <3>1, <3>2
  \* The new row is in nobody's hands yet.
  <2>5. /\ n \notin emitted /\ \A k \in 1..Len(outbox) : outbox[k] # n
        /\ \A v \in Writers : writer[v].pc = "committed" => writer[v].row # n
    BY <2>3 DEF HandInv, EmittedOnce
  <2>6. EmittedOnce'
    BY <2>3, <2>4 DEF HandInv, EmittedOnce
  <2>7. \A k \in 1..Len(outbox') :
          outbox'[k] \in Rows' /\ log'[outbox'[k]].by = "logEvent"
    BY <2>3, <2>4 DEF HandInv
  <2>8. ASSUME NEW v \in Writers, writer'[v].pc = "committed"
        PROVE  /\ writer'[v].row \in Rows' /\ log'[writer'[v].row].by = "logEvent"
               /\ writer'[v].row \notin emitted'
               /\ \A k \in 1..Len(outbox') : outbox'[k] # writer'[v].row
               /\ v # w => writer'[v] = writer[v] /\ writer'[v].row # n
               /\ v = w => writer'[v].row = n
    <3>1. CASE v = w
      BY <2>1, <2>3, <2>4, <2>5, <2>8, <3>1
    <3>2. CASE v # w
      BY <2>3, <2>4, <2>5, <2>8, <3>2 DEF HandInv
    <3>3. QED
      BY <3>1, <3>2
  <2>9. \A u, v \in Writers :
          (/\ writer'[u].pc = "committed" /\ writer'[v].pc = "committed"
           /\ writer'[u].row = writer'[v].row) => u = v
    BY <2>8 DEF HandInv
  <2>10. QED
    BY <2>6, <2>7, <2>8, <2>9 DEF HandInv
<1>3. ASSUME NEW w \in Writers, Return(w) PROVE HandInv'
  <2>1. /\ log' = log /\ emitted' = emitted /\ writer[w].pc = "committed"
        /\ outbox' = Append(outbox, writer[w].row) /\ writer'[w].pc # "committed"
        /\ \A v \in Writers : v # w => writer'[v] = writer[v]
    BY <1>3, <1>t DEF Return, Idle
  <2>2. PICK x \in 1..MaxRows : x = writer[w].row
    BY <1>3, BoundAssumption DEF Return, ChainInv, Rows, TypeOK
  <2>3. /\ Len(outbox') = Len(outbox) + 1
        /\ \A k \in 1..Len(outbox) : outbox'[k] = outbox[k]
        /\ outbox'[Len(outbox) + 1] = x
    BY <2>1, <2>2, <1>t
  <2>4. \A k \in 1..Len(outbox') : k \in 1..Len(outbox) \/ k = Len(outbox) + 1
    BY <2>3, <1>t
  <2>5. /\ x \in Rows /\ log[x].by = "logEvent" /\ x \notin emitted
        /\ \A k \in 1..Len(outbox) : outbox[k] # x
        /\ \A v \in Writers : v # w /\ writer[v].pc = "committed" => writer[v].row # x
    BY <2>1, <2>2 DEF HandInv
  <2>6. EmittedOnce'
    <3>1. \A i \in emitted' : i \in Rows' /\ log'[i].by = "logEvent"
      BY <2>1 DEF HandInv, EmittedOnce, Rows
    <3>2. \A k, l \in 1..Len(outbox') : outbox'[k] = outbox'[l] => k = l
      BY <2>3, <2>4, <2>5 DEF HandInv, EmittedOnce
    <3>3. \A k \in 1..Len(outbox') : outbox'[k] \notin emitted'
      BY <2>1, <2>3, <2>4, <2>5 DEF HandInv, EmittedOnce
    <3>4. QED
      BY <3>1, <3>2, <3>3 DEF EmittedOnce
  <2>7. \A k \in 1..Len(outbox') :
          outbox'[k] \in Rows' /\ log'[outbox'[k]].by = "logEvent"
    BY <2>1, <2>3, <2>4, <2>5 DEF HandInv, Rows
  <2>8. \A v \in Writers : writer'[v].pc = "committed" =>
          v # w /\ writer'[v] = writer[v]
    BY <2>1
  <2>9. ASSUME NEW v \in Writers, writer'[v].pc = "committed"
        PROVE  /\ writer'[v].row \in Rows' /\ log'[writer'[v].row].by = "logEvent"
               /\ writer'[v].row \notin emitted'
               /\ \A k \in 1..Len(outbox') : outbox'[k] # writer'[v].row
               /\ \A u \in Writers :
                    (writer'[u].pc = "committed" /\ writer'[u].row = writer'[v].row)
                      => u = v
    <3>1. v # w /\ writer'[v] = writer[v] /\ writer[v].row # x
      BY <2>5, <2>8, <2>9
    <3>2. \A k \in 1..Len(outbox') : outbox'[k] # writer'[v].row
      BY <2>3, <2>4, <2>9, <3>1 DEF HandInv
    <3>3. QED
      BY <2>1, <2>8, <2>9, <3>1, <3>2 DEF HandInv, Rows
  <2>10. QED
    BY <2>6, <2>7, <2>9 DEF HandInv
<1>4. CASE Emit
  <2>1. /\ log' = log /\ writer' = writer
        /\ emitted' = emitted \cup {outbox[1]}
        /\ outbox # <<>> /\ outbox' = Tail(outbox)
    BY <1>4, <1>t DEF Emit
  <2>2. /\ 1 \in 1..Len(outbox) /\ Len(outbox') = Len(outbox) - 1
        /\ \A k \in 1..Len(outbox') :
             k + 1 \in 1..Len(outbox) /\ k + 1 # 1 /\ outbox'[k] = outbox[k + 1]
    BY <2>1, <1>t
  <2>3. outbox[1] \in Rows /\ log[outbox[1]].by = "logEvent"
    BY <2>2 DEF HandInv
  <2>4. EmittedOnce'
    <3>1. \A i \in emitted' : i \in Rows' /\ log'[i].by = "logEvent"
      BY <2>1, <2>3 DEF HandInv, EmittedOnce, Rows
    <3>2. ASSUME NEW k \in 1..Len(outbox'), NEW l \in 1..Len(outbox'),
                 outbox'[k] = outbox'[l]
          PROVE  k = l
      <4>1. k + 1 = l + 1
        BY <2>2, <3>2 DEF HandInv, EmittedOnce
      <4>2. QED
        BY <4>1
    <3>3. \A k \in 1..Len(outbox') : outbox'[k] \notin emitted'
      BY <2>1, <2>2 DEF HandInv, EmittedOnce
    <3>4. QED
      BY <3>1, <3>2, <3>3 DEF EmittedOnce
  <2>5. \A k \in 1..Len(outbox') :
          outbox'[k] \in Rows' /\ log'[outbox'[k]].by = "logEvent"
    BY <2>1, <2>2 DEF HandInv, Rows
  <2>6. ASSUME NEW v \in Writers, writer'[v].pc = "committed"
        PROVE  /\ writer'[v].row \in Rows' /\ log'[writer'[v].row].by = "logEvent"
               /\ writer'[v].row \notin emitted'
               /\ \A k \in 1..Len(outbox') : outbox'[k] # writer'[v].row
               /\ \A u \in Writers :
                    (writer'[u].pc = "committed" /\ writer'[u].row = writer'[v].row)
                      => u = v
    BY <2>1, <2>2, <2>6 DEF HandInv, Rows
  <2>7. QED
    BY <2>4, <2>5, <2>6 DEF HandInv
<1>5. CASE Tick \/ UNCHANGED vars
  <2>1. log' = log /\ outbox' = outbox /\ emitted' = emitted /\ writer' = writer
    BY <1>5 DEF Tick, vars
  <2>2. QED
    BY <2>1 DEF HandInv, EmittedOnce, Rows
<1>6. QED
  BY <1>1, <1>2, <1>3, <1>4, <1>5 DEF Next

(* logEvent's emission: each event that logEvent committed goes to the stream *)
(* once, however calls return in between, and a tenant operation's row never. *)
THEOREM NoneTwice == Spec => []EmittedOnce
<1>1. Init => HandInv
  BY DEF Init, HandInv, EmittedOnce, Idle, Rows
<1>2. TypeOK /\ ChainInv /\ HandInv /\ [Next]_vars => HandInv'
  BY HandStep
<1>3. HandInv => EmittedOnce
  BY DEF HandInv
<1>4. QED
  BY <1>1, <1>2, <1>3, ChainInvariance, PTL DEF Spec

-----------------------------------------------------------------------------
(* The security monitor *)

(* Among finitely many keys there is one no other came in before. *)
LEMMA FirstOne ==
  ASSUME NEW order \in [Keys -> Nat], NEW F \in SUBSET Keys, IsFiniteSet(F),
         F # {}
  PROVE  \E q \in F : \A p \in F : order[q] <= order[p]
<1> DEFINE Before(q) == {p \in F : order[p] < order[q]}
<1> DEFINE Befores == {Before(q) : q \in F}
<1>1. Befores \subseteq FiniteSubsetsOf(F) /\ Befores # {}
  <2>1. \A q \in F : Before(q) \in SUBSET F /\ IsFiniteSet(Before(q))
    BY FS_Subset
  <2>2. QED
    BY <2>1 DEF FiniteSubsetsOf
<1>2. PICK B \in Befores :
        \A C \in Befores : ~(<<C, B>> \in StrictSubsetOrdering(F))
  <2> HIDE DEF Befores
  <2>1. QED
    BY <1>1, WFMin, FS_StrictSubsetOrderingWellFounded
<1>3. PICK q \in F : B = Before(q)
  BY <1>2
<1>4. ASSUME NEW p \in F, order[p] < order[q] PROVE FALSE
  <2>1. Before(p) \subseteq Before(q)
    BY <1>4
  <2>2. p \in Before(q) /\ p \notin Before(p)
    BY <1>4
  <2>3. <<Before(p), B>> \in StrictSubsetOrdering(F)
    BY <1>3, <2>1, <2>2 DEF StrictSubsetOrdering
  <2>4. QED
    BY <1>2, <2>3
<1>5. QED
  BY <1>4

(* Trimming leaves at most MaxBuckets entries, whatever their number was. *)
LEMMA TrimmedFits ==
  ASSUME NEW order \in [Keys -> Nat],
         IsFiniteSet({k \in Keys : order[k] # 0}),
         \A k, q \in Keys : (order[k] # 0 /\ order[k] = order[q]) => k = q
  PROVE  /\ IsFiniteSet(LimitBuckets(order))
         /\ Cardinality(LimitBuckets(order)) <= MaxBuckets
<1> DEFINE kept == LimitBuckets(order)
<1> DEFINE After(k) == {q \in Keys : order[q] > order[k]}
<1>1. kept \in SUBSET {k \in Keys : order[k] # 0}
  BY DEF LimitBuckets
<1>2. IsFiniteSet(kept) /\ Cardinality(kept) \in Nat
  BY <1>1, FS_Subset, FS_CardinalityType
<1>3. CASE kept = {}
  BY <1>2, <1>3, FS_EmptySet, MonitorAssumption
<1>4. CASE kept # {}
  <2>1. PICK k \in kept : \A p \in kept : order[k] <= order[p]
    <3>1. kept \in SUBSET Keys
      BY DEF LimitBuckets
    <3>2. QED
      BY <1>2, <1>4, <3>1, FirstOne
  <2>2. k \in Keys /\ order[k] # 0 /\ Cardinality(After(k)) < MaxBuckets
    BY <2>1 DEF LimitBuckets
  <2>3. IsFiniteSet(After(k)) /\ Cardinality(After(k)) \in Nat
    <3>1. After(k) \in SUBSET {q \in Keys : order[q] # 0}
      BY <2>2
    <3>2. QED
      BY <3>1, FS_Subset, FS_CardinalityType
  <2>4. kept \ {k} \in SUBSET After(k)
    <3>1. ASSUME NEW p \in kept, p # k PROVE p \in After(k)
      <4>1. p \in Keys /\ order[k] <= order[p] /\ order[k] # order[p]
        BY <1>1, <2>1, <2>2, <3>1
      <4>2. QED
        BY <2>2, <4>1
    <3>2. QED
      BY <3>1
  <2>5. Cardinality(kept \ {k}) <= Cardinality(After(k))
    BY <2>3, <2>4, FS_Subset
  <2>6. Cardinality(kept \ {k}) = Cardinality(kept) - 1
    BY <1>2, <2>1, FS_RemoveElement
  <2>7. QED
    BY <1>2, <2>2, <2>3, <2>5, <2>6, MonitorAssumption
<1>5. QED
  BY <1>3, <1>4

(* The bucket of a key and what it counts are finite. *)
LEMMA BucketsFinite ==
  ASSUME MonitorInv, NEW k \in Keys
  PROVE  /\ IsFiniteSet(times[k]) /\ Cardinality(times[k]) \in Nat
         /\ IsFiniteSet(Recent(since[k])) /\ InWindow(k) \in Nat
<1>1. IsFiniteSet(since[k]) /\ times[k] \in SUBSET since[k]
  BY DEF MonitorInv, CountInv, BucketInv
<1>2. Recent(since[k]) \in SUBSET since[k]
  BY DEF Recent
<1>3. QED
  BY <1>1, <1>2, FS_Subset, FS_CardinalityType DEF InWindow

(* The number of an event tells its stamp from every stamp before it. *)
LEMMA NewStamp ==
  ASSUME MonitorInv, events < MaxEvents,
         NEW stamp, stamp = [id |-> events + 1, at |-> clock]
  PROVE  /\ stamp \in Stamps /\ stamp.id = events + 1 /\ stamp.at = clock
         /\ \A k \in Keys : stamp \notin since[k]
<1> USE MonitorAssumption DEF MonitorInv, MonitorTypeOK, CountInv
<1>1. stamp \in Stamps /\ stamp.id = events + 1 /\ stamp.at = clock
  BY DEF Stamps
<1>2. ASSUME NEW k \in Keys, stamp \in since[k] PROVE FALSE
  BY <1>1, <1>2
<1>3. QED
  BY <1>1, <1>2

(* What handleEvent counts: the window's part of the bucket with the new    *)
(* stamp in it.                                                             *)
LEMMA Counted ==
  ASSUME MonitorInv, events < MaxEvents, NEW k \in Keys,
         NEW stamp, stamp = [id |-> events + 1, at |-> clock],
         NEW S, S = Recent(times[k] \cup {stamp})
  PROVE  /\ S = Recent(times[k]) \cup {stamp}
         /\ S \subseteq since[k] \cup {stamp} /\ S \subseteq Stamps
         /\ IsFiniteSet(S) /\ Cardinality(S) \in Nat
         /\ Cardinality(S) <= InWindow(k) + 1
         /\ k \notin forgot =>
              {s \in since[k] \cup {stamp} : s.at + Window >= clock} \subseteq S
<1> USE DEF MonitorInv
<1>1. /\ stamp \in Stamps /\ stamp.at = clock
      /\ \A q \in Keys : stamp \notin since[q]
  BY NewStamp
<1>2. stamp.at + Window >= clock
  BY <1>1, MonitorAssumption DEF MonitorTypeOK
<1>3. S = Recent(times[k]) \cup {stamp}
  BY <1>2 DEF Recent
<1>4. times[k] \subseteq since[k] /\ times[k] \subseteq Stamps
  BY DEF BucketInv, MonitorTypeOK
<1>5. S \subseteq since[k] \cup {stamp} /\ S \subseteq Stamps
  BY <1>1, <1>3, <1>4 DEF Recent
<1>6. IsFiniteSet(Recent(since[k]) \cup {stamp})
      /\ Cardinality(Recent(since[k]) \cup {stamp}) <= InWindow(k) + 1
  <2>1. IsFiniteSet(Recent(since[k])) /\ InWindow(k) \in Nat
    BY BucketsFinite
  <2>2. /\ IsFiniteSet(Recent(since[k]) \cup {stamp})
        /\ Cardinality(Recent(since[k]) \cup {stamp}) =
             IF stamp \in Recent(since[k]) THEN Cardinality(Recent(since[k]))
             ELSE Cardinality(Recent(since[k])) + 1
    BY <2>1, FS_AddElement
  <2>3. QED
    BY <2>1, <2>2 DEF InWindow
<1>7. S \in SUBSET (Recent(since[k]) \cup {stamp})
  BY <1>3, <1>4 DEF Recent
<1>8. IsFiniteSet(S)
      /\ Cardinality(S) <= Cardinality(Recent(since[k]) \cup {stamp})
  BY <1>6, <1>7, FS_Subset
<1>9. /\ Cardinality(S) \in Nat
      /\ Cardinality(Recent(since[k]) \cup {stamp}) \in Nat /\ InWindow(k) \in Nat
  BY <1>6, <1>8, FS_CardinalityType, BucketsFinite
<1>10. Cardinality(S) <= InWindow(k) + 1
  BY <1>6, <1>8, <1>9
<1>11. ASSUME k \notin forgot
       PROVE  {s \in since[k] \cup {stamp} : s.at + Window >= clock} \subseteq S
  BY <1>3, <1>11 DEF BucketInv, Recent
<1>12. QED
  BY <1>3, <1>5, <1>8, <1>9, <1>10, <1>11

(* An event keeps the invariant: the buckets that stay count what they      *)
(* should, and those that were trimmed are forgotten if it matters.         *)
LEMMA HandleEventStep ==
  ASSUME MonitorInv, NEW k \in Keys, HandleEvent(k)
  PROVE  MonitorInv'
<1> DEFINE stamp  == [id |-> events + 1, at |-> clock]
           S      == Recent(times[k] \cup {stamp})
           judged == OverLimit(k, S)
           held   == [times EXCEPT ![k] = judged.rest]
           order  == Set(k)
           kept   == LimitBuckets(order)
           after  == [since EXCEPT ![k] = IF judged.over THEN {}
                                          ELSE @ \cup {stamp}]
<1>1. /\ events < MaxEvents /\ events' = events + 1
      /\ times' = [q \in Keys |-> IF q \in kept THEN held[q] ELSE {}]
      /\ place' = [q \in Keys |-> IF q \in kept THEN order[q] ELSE 0]
      /\ alerts' = alerts \cup
           IF judged.over THEN {[id |-> events + 1, key |-> k, tries |-> 0]} ELSE {}
      /\ since' = after
      /\ forgot' = (IF judged.over THEN forgot \ {k} ELSE forgot)
                     \cup {q \in Keys \ kept : Recent(held[q]) # {}}
      /\ UNCHANGED <<lost, clock, restarts>>
  BY DEF HandleEvent
<1>2. /\ stamp \in Stamps /\ stamp.id = events + 1 /\ stamp.at = clock
      /\ \A q \in Keys : stamp \notin since[q]
  BY <1>1, NewStamp
<1>3. /\ S = Recent(times[k]) \cup {stamp}
      /\ S \subseteq since[k] \cup {stamp} /\ S \subseteq Stamps
      /\ IsFiniteSet(S) /\ Cardinality(S) \in Nat
      /\ k \notin forgot =>
           {s \in since[k] \cup {stamp} : s.at + Window >= clock} \subseteq S
  <2>1. stamp = [id |-> events + 1, at |-> clock] /\ events < MaxEvents
    BY <1>1
  <2>2. S = Recent(times[k] \cup {stamp})
    OBVIOUS
  <2> HIDE DEF stamp, S
  <2>3. QED
    BY <2>1, <2>2, Counted
<1> HIDE DEF stamp, S
<1>4. /\ judged.over <=> Cardinality(S) > Limit[k]
      /\ judged.over => judged.rest = {}
      /\ ~judged.over => judged.rest = S
  BY DEF OverLimit
<1>t. MonitorTypeOK /\ BucketInv /\ CountInv
  BY DEF MonitorInv
<1>5. /\ order \in [Keys -> 0..events'] /\ order \in [Keys -> Nat]
      /\ \A q \in Keys : q # k => order[q] = place[q]
      /\ order[k] = IF place[k] = 0 THEN events + 1 ELSE place[k]
  BY <1>1, <1>t, MonitorAssumption DEF Set, MonitorTypeOK
<1>6. {q \in Keys : order[q] # 0} = Present \cup {k}
  BY <1>5, <1>t DEF Present, MonitorTypeOK
<1>7. \A p, q \in Keys : (order[p] # 0 /\ order[p] = order[q]) => p = q
  BY <1>5, <1>t DEF CountInv, Present, MonitorTypeOK
<1>8. IsFiniteSet(kept) /\ Cardinality(kept) <= MaxBuckets
  <2>1. IsFiniteSet({q \in Keys : order[q] # 0})
    BY <1>6, <1>t, FS_AddElement DEF CountInv
  <2>2. QED
    <3> HIDE DEF order
    <3>1. QED
      BY <1>5, <1>7, <2>1, TrimmedFits
<1>9. kept \subseteq Keys /\ \A q \in kept : order[q] # 0
  BY DEF LimitBuckets
<1>10. /\ times \in [Keys -> SUBSET Stamps] /\ since \in [Keys -> SUBSET Stamps]
       /\ k \in Keys
  BY <1>t DEF MonitorTypeOK
<1>11. /\ held \in [Keys -> SUBSET Stamps] /\ after \in [Keys -> SUBSET Stamps]
       /\ held[k] = judged.rest
       /\ after[k] = IF judged.over THEN {} ELSE since[k] \cup {stamp}
       /\ \A q \in Keys : q # k => held[q] = times[q] /\ after[q] = since[q]
  <2> HIDE DEF judged
  <2>1. judged.rest \subseteq Stamps
    BY <1>3, <1>4
  <2>2. QED
    BY <1>2, <1>10, <2>1
<1> HIDE DEF judged, held, order, kept, after
<1>12. /\ times' \in [Keys -> SUBSET Stamps] /\ place' \in [Keys -> 0..events']
       /\ since' \in [Keys -> SUBSET Stamps]
       /\ \A q \in Keys : times'[q] = IF q \in kept THEN held[q] ELSE {}
       /\ \A q \in Keys : place'[q] = IF q \in kept THEN order[q] ELSE 0
  <2>1. events' \in Nat
    BY <1>1, <1>t DEF MonitorTypeOK
  <2>2. QED
    BY <1>1, <1>5, <1>11, <2>1
<1>13. Present' = kept
  BY <1>9, <1>12 DEF Present
<1>14. \A q \in Keys : held[q] \subseteq after[q]
  <2>1. held[k] \subseteq after[k]
    BY <1>3, <1>4, <1>11
  <2>2. QED
    BY <1>11, <1>t, <2>1 DEF BucketInv
<1>15. ASSUME NEW q \in Keys, q \notin forgot \/ (q = k /\ judged.over)
       PROVE  Recent(after[q]) \subseteq held[q]
  <2>1. CASE q # k
    BY <1>11, <1>15, <1>t, <2>1 DEF BucketInv
  <2>2. CASE q = k /\ judged.over
    BY <1>11, <2>2 DEF Recent
  <2>3. CASE q = k /\ ~judged.over
    BY <1>3, <1>4, <1>11, <1>15, <2>3 DEF Recent
  <2>4. QED
    BY <2>1, <2>2, <2>3
<1>16. MonitorTypeOK'
  <2>1. \A q \in Keys : Cardinality(times'[q]) <= Limit[q]
    <3>1. ASSUME NEW q \in Keys PROVE Cardinality(held[q]) <= Limit[q]
      <4>1. CASE q # k
        BY <1>11, <1>t, <4>1 DEF MonitorTypeOK
      <4>2. CASE q = k /\ judged.over
        BY <1>4, <1>11, <4>2, FS_EmptySet, MonitorAssumption
      <4>3. CASE q = k /\ ~judged.over
        BY <1>3, <1>4, <1>11, <4>3, MonitorAssumption
      <4>4. QED
        BY <4>1, <4>2, <4>3
    <3>2. Cardinality({}) = 0 /\ \A q \in Keys : 0 <= Limit[q]
      BY FS_EmptySet, MonitorAssumption
    <3>3. QED
      BY <1>12, <3>1, <3>2
  <2>2. Cardinality(Present') <= MaxBuckets
    BY <1>8, <1>13
  <2>3. alerts' \subseteq [id : 1..MaxEvents, key : Keys, tries : 0..MaxRetries]
    BY <1>1, <1>t, MonitorAssumption DEF MonitorTypeOK
  <2>4. /\ lost' \subseteq Keys /\ clock' \in 0..MaxClock
        /\ events' \in 0..MaxEvents /\ restarts' \in 0..MaxRestarts
        /\ forgot' \subseteq Keys
    BY <1>1, <1>t, MonitorAssumption DEF MonitorTypeOK
  <2>5. QED
    BY <1>12, <2>1, <2>2, <2>3, <2>4 DEF MonitorTypeOK
<1>17. BucketInv'
  <2>1. \A q \in Keys : times'[q] \subseteq since'[q]
    BY <1>1, <1>12, <1>14
  <2>2. ASSUME NEW q \in Keys, q \notin forgot'
        PROVE  Recent(after[q]) \subseteq times'[q]
    <3>1. Recent(after[q]) \subseteq held[q]
      BY <1>1, <1>15, <2>2
    <3>2. CASE q \in kept
      BY <1>12, <3>1, <3>2
    <3>3. CASE q \notin kept
      <4>1. Recent(held[q]) = {}
        BY <1>1, <2>2, <3>3
      <4>2. Recent(after[q]) = {}
        BY <3>1, <4>1 DEF Recent
      <4>3. QED
        BY <4>2
    <3>4. QED
      BY <3>2, <3>3
  <2>3. \A q \in Keys : Recent(since[q])' = Recent(after[q])
    BY <1>1 DEF Recent
  <2>4. QED
    BY <2>1, <2>2, <2>3 DEF BucketInv
<1>18. CountInv'
  <2>1. ASSUME NEW q \in Keys
        PROVE  /\ IsFiniteSet(after[q])
               /\ \A s \in after[q] : s.id <= events' /\ s.at <= clock'
    <3>1. IsFiniteSet(since[q]) /\ IsFiniteSet(since[q] \cup {stamp})
          /\ IsFiniteSet({})
      BY <1>t, FS_AddElement, FS_EmptySet DEF CountInv
    <3>2. after[q] \in {since[q], since[q] \cup {stamp}, {}}
      BY <1>11
    <3>3. \A s \in since[q] \cup {stamp} : s.id <= events' /\ s.at <= clock'
      <4>1. \A s \in since[q] : /\ s.id <= events /\ s.at <= clock
                                /\ s.id \in Nat /\ s.at \in Nat
        BY <1>t, MonitorAssumption DEF CountInv, MonitorTypeOK, Stamps
      <4>2. /\ events \in Nat /\ clock \in Nat
            /\ events' = events + 1 /\ clock' = clock
        BY <1>1, <1>t DEF MonitorTypeOK
      <4>3. QED
        BY <1>2, <4>1, <4>2
    <3>4. QED
      BY <3>1, <3>2, <3>3
  <2>2. \A q \in Keys : place'[q] = 0 => times'[q] = {}
    BY <1>9, <1>12
  <2>3. IsFiniteSet(Present')
    BY <1>8, <1>13
  <2>4. \A p, q \in Present' : place'[p] = place'[q] => p = q
    BY <1>7, <1>9, <1>12, <1>13
  <2>5. QED
    BY <1>1, <2>1, <2>2, <2>3, <2>4 DEF CountInv
<1>19. QED
  BY <1>16, <1>17, <1>18 DEF MonitorInv

(* Pruning drops nothing that is in the window. *)
LEMMA PruneStep ==
  ASSUME MonitorInv, PruneOldEntries
  PROVE  MonitorInv'
<1>1. /\ times' = [k \in Keys |-> IF Recent(times[k]) # {} THEN Recent(times[k]) ELSE {}]
      /\ place' = [k \in Keys |-> IF Recent(times[k]) # {} THEN place[k] ELSE 0]
      /\ UNCHANGED <<alerts, lost, clock, events, restarts, since, forgot>>
  BY DEF PruneOldEntries, Prune
<1>t. MonitorTypeOK /\ BucketInv /\ CountInv
  BY DEF MonitorInv
<1>2. \A k \in Keys : /\ times'[k] = Recent(times[k])
                      /\ times'[k] \subseteq times[k]
  BY <1>1 DEF Recent
<1>3. Present' \in SUBSET Present /\ \A k \in Present' : place'[k] = place[k]
  BY <1>1 DEF Present
<1>4. /\ IsFiniteSet(Present') /\ Cardinality(Present') <= Cardinality(Present)
      /\ Cardinality(Present') \in Nat /\ Cardinality(Present) \in Nat
  BY <1>3, <1>t, FS_Subset, FS_CardinalityType DEF CountInv
<1>5. \A k \in Keys : Cardinality(times'[k]) <= Limit[k]
  <2>1. ASSUME NEW k \in Keys PROVE Cardinality(times'[k]) <= Limit[k]
    <3>1. IsFiniteSet(times[k]) /\ times'[k] \in SUBSET times[k]
      BY <1>2, BucketsFinite
    <3>2. /\ Cardinality(times'[k]) <= Cardinality(times[k])
          /\ Cardinality(times'[k]) \in Nat /\ Cardinality(times[k]) \in Nat
      BY <3>1, FS_Subset, FS_CardinalityType
    <3>3. Cardinality(times[k]) <= Limit[k] /\ Limit[k] \in Nat
      BY <1>t, MonitorAssumption DEF MonitorTypeOK
    <3>4. QED
      BY <3>2, <3>3
  <2>2. QED
    BY <2>1
<1>6. MonitorTypeOK'
  <2>1. times' \in [Keys -> SUBSET Stamps] /\ place' \in [Keys -> 0..events]
    <3>1. \A k \in Keys : Recent(times[k]) \in SUBSET Stamps
      BY <1>t DEF MonitorTypeOK, Recent
    <3>2. events \in Nat /\ place \in [Keys -> 0..events]
      BY <1>t DEF MonitorTypeOK
    <3>3. QED
      BY <1>1, <3>1, <3>2
  <2>2. Cardinality(Present') <= MaxBuckets
    BY <1>4, <1>t, MonitorAssumption DEF MonitorTypeOK
  <2>3. QED
    BY <1>1, <1>5, <1>t, <2>1, <2>2 DEF MonitorTypeOK
<1>7. BucketInv'
  BY <1>1, <1>2, <1>t DEF BucketInv, Recent
<1>8. CountInv'
  <2>1. \A k \in Keys : place'[k] = 0 => times'[k] = {}
    BY <1>1, <1>2, <1>t DEF CountInv, Recent
  <2>2. \A k, q \in Present' : place'[k] = place'[q] => k = q
    BY <1>3, <1>t DEF CountInv
  <2>3. QED
    BY <1>1, <1>4, <1>t, <2>1, <2>2 DEF CountInv
<1>9. QED
  BY <1>6, <1>7, <1>8 DEF MonitorInv

(* A restart forgets what was in the window, and says so. *)
LEMMA RestartStep ==
  ASSUME MonitorInv, Restart
  PROVE  MonitorInv'
<1> USE MonitorAssumption DEF MonitorInv
<1>1. /\ times' = [k \in Keys |-> {}] /\ place' = [k \in Keys |-> 0]
      /\ alerts' = {} /\ restarts < MaxRestarts /\ restarts' = restarts + 1
      /\ forgot' = forgot \cup {k \in Keys : Recent(times[k]) # {}}
      /\ UNCHANGED <<lost, clock, events, since>>
  BY DEF Restart
<1>2. Present' = {}
  BY <1>1 DEF Present
<1>3. IsFiniteSet({}) /\ Cardinality({}) = 0
  BY FS_EmptySet
<1>4. MonitorTypeOK'
  <2>1. Cardinality(Present') <= MaxBuckets
    BY <1>2, <1>3
  <2>2. \A k \in Keys : Cardinality(times'[k]) <= Limit[k]
    BY <1>1, <1>3
  <2>3. /\ times' \in [Keys -> SUBSET Stamps] /\ place' \in [Keys -> 0..events]
        /\ restarts' \in 0..MaxRestarts /\ forgot' \subseteq Keys
    BY <1>1 DEF MonitorTypeOK
  <2>4. QED
    BY <1>1, <2>1, <2>2, <2>3 DEF MonitorTypeOK
<1>5. BucketInv'
  <2>1. ASSUME NEW k \in Keys, k \notin forgot' PROVE Recent(since[k])' = {}
    <3>1. k \notin forgot /\ Recent(times[k]) = {}
      BY <1>1, <2>1
    <3>2. Recent(since[k]) \subseteq times[k]
      BY <3>1 DEF BucketInv
    <3>3. QED
      BY <1>1, <3>1, <3>2 DEF Recent
  <2>2. QED
    BY <1>1, <2>1 DEF BucketInv
<1>6. CountInv'
  BY <1>1, <1>2, <1>3 DEF CountInv
<1>7. QED
  BY <1>4, <1>5, <1>6

(* Time only takes events out of the window. *)
LEMMA AdvanceStep ==
  ASSUME MonitorInv, Advance
  PROVE  MonitorInv'
<1> USE MonitorAssumption DEF MonitorInv
<1>1. /\ clock < MaxClock /\ clock' = clock + 1
      /\ UNCHANGED <<times, place, alerts, lost, events, restarts, since, forgot>>
  BY DEF Advance
<1>2. MonitorTypeOK'
  BY <1>1 DEF MonitorTypeOK, Present
<1>3. \A k \in Keys : \A s \in since[k] : s.at \in Nat
  BY DEF MonitorTypeOK, Stamps
<1>4. \A k \in Keys : Recent(since[k])' \subseteq Recent(since[k])
  <2>1. clock \in Nat
    BY DEF MonitorTypeOK
  <2>2. QED
    BY <1>1, <1>3, <2>1 DEF Recent
<1>5. BucketInv'
  BY <1>1, <1>4 DEF BucketInv
<1>6. CountInv'
  <2>1. \A k \in Keys : \A s \in since[k] : s.at <= clock + 1
    BY <1>3 DEF CountInv, MonitorTypeOK
  <2>2. Present' = Present
    BY <1>1 DEF Present
  <2>3. QED
    BY <1>1, <2>1, <2>2 DEF CountInv
<1>7. QED
  BY <1>2, <1>5, <1>6

(* A post touches neither buckets nor counts. *)
LEMMA PostStep ==
  ASSUME MonitorInv, NEW a \in alerts, Post(a)
  PROVE  MonitorInv'
<1>t. MonitorTypeOK /\ BucketInv /\ CountInv
  BY DEF MonitorInv
<1>1. UNCHANGED <<times, place, clock, events, restarts, since, forgot>>
  BY DEF Post, PostSucceeds, PostFails
<1>2. a \in [id : 1..MaxEvents, key : Keys, tries : 0..MaxRetries]
  BY <1>t DEF MonitorTypeOK
<1>3. /\ alerts' \subseteq [id : 1..MaxEvents, key : Keys, tries : 0..MaxRetries]
      /\ lost' \subseteq Keys
  <2>1. CASE PostSucceeds(a)
    BY <1>t, <2>1 DEF PostSucceeds, MonitorTypeOK
  <2>2. CASE PostFails(a)
    <3>1. CASE a.tries < MaxRetries
      <4>1. [a EXCEPT !.tries = @ + 1]
              \in [id : 1..MaxEvents, key : Keys, tries : 0..MaxRetries]
        BY <1>2, <3>1, MonitorAssumption
      <4>2. QED
        BY <1>2, <1>t, <2>2, <3>1, <4>1 DEF PostFails, MonitorTypeOK
    <3>2. CASE ~(a.tries < MaxRetries)
      BY <1>2, <1>t, <2>2, <3>2 DEF PostFails, MonitorTypeOK
    <3>3. QED
      BY <3>1, <3>2
  <2>3. QED
    BY <2>1, <2>2 DEF Post
<1>4. MonitorTypeOK'
  BY <1>1, <1>3, <1>t DEF MonitorTypeOK, Present
<1>5. BucketInv' /\ CountInv'
  BY <1>1, <1>t DEF BucketInv, CountInv, Recent, Present
<1>6. QED
  BY <1>4, <1>5 DEF MonitorInv

(* MonitorInv holds in every reachable state. *)
LEMMA MonitorInvariance == MonitorSpec => []MonitorInv
<1>1. MonitorInit => MonitorInv
  <2> SUFFICES ASSUME MonitorInit PROVE MonitorInv
    OBVIOUS
  <2> USE MonitorAssumption DEF MonitorInit
  <2>1. IsFiniteSet({}) /\ Cardinality({}) = 0
    BY FS_EmptySet
  <2>2. Present = {}
    BY DEF Present
  <2>3. MonitorTypeOK
    <3>1. Cardinality(Present) <= MaxBuckets
      BY <2>1, <2>2
    <3>2. \A k \in Keys : Cardinality(times[k]) <= Limit[k]
      BY <2>1
    <3>3. QED
      BY <3>1, <3>2 DEF MonitorTypeOK
  <2>4. BucketInv
    BY DEF BucketInv, Recent
  <2>5. CountInv
    BY <2>1, <2>2 DEF CountInv
  <2>6. QED
    BY <2>3, <2>4, <2>5 DEF MonitorInv
<1>2. ASSUME MonitorInv, [MonitorNext]_monitorVars
      PROVE  MonitorInv'
  <2>1. CASE UNCHANGED monitorVars
    BY <1>2, <2>1
    DEF monitorVars, MonitorInv, MonitorTypeOK, BucketInv, CountInv, Recent,
        Present
  <2>2. CASE MonitorNext
    BY <1>2, <2>2, HandleEventStep, PruneStep, RestartStep, AdvanceStep,
       PostStep DEF MonitorNext
  <2>3. QED
    BY <1>2, <2>1, <2>2
<1>3. QED
  BY <1>1, <1>2, PTL DEF MonitorSpec

(* The memory of the monitor is bounded: a bucket never holds more times    *)
(* than its threshold, nor the Map more than MaxBuckets entries.            *)
THEOREM MonitorTypeCorrect == MonitorSpec => []MonitorTypeOK
BY MonitorInvariance, PTL DEF MonitorInv

(* A burst that passes its threshold raised an alert, unless part of it was *)
(* trimmed or lost with the process.                                        *)
THEOREM NoneMissed == MonitorSpec => []NoMissedAlert
<1>1. ASSUME MonitorInv PROVE NoMissedAlert
  <2>1. ASSUME NEW k \in Keys, k \notin forgot PROVE InWindow(k) <= Limit[k]
    <3>1. Recent(since[k]) \in SUBSET times[k]
      BY <1>1, <2>1 DEF MonitorInv, BucketInv
    <3>2. /\ IsFiniteSet(times[k]) /\ Cardinality(times[k]) \in Nat
          /\ InWindow(k) \in Nat
      BY <1>1, BucketsFinite
    <3>3. InWindow(k) <= Cardinality(times[k])
      BY <3>1, <3>2, FS_Subset DEF InWindow
    <3>4. Cardinality(times[k]) <= Limit[k] /\ Limit[k] \in Nat
      BY <1>1, MonitorAssumption DEF MonitorInv, MonitorTypeOK
    <3>5. QED
      BY <3>2, <3>3, <3>4
  <2>2. QED
    BY <2>1 DEF NoMissedAlert
<1>2. QED
  BY <1>1, MonitorInvariance, PTL

(* No alert without a burst of its own. *)
THEOREM AlertsEarned == MonitorSpec => AlertsAreEarned
<1>1. ASSUME MonitorInv, [MonitorNext]_monitorVars
      PROVE  [\A k \in Keys : HandleEvent(k) /\ alerts' # alerts
                => InWindow(k) + 1 > Limit[k]]_monitorVars
  <2>1. ASSUME NEW k \in Keys, HandleEvent(k), alerts' # alerts
        PROVE  InWindow(k) + 1 > Limit[k]
    <3>1. PICK stamp : stamp = [id |-> events + 1, at |-> clock]
      OBVIOUS
    <3>2. PICK S : S = Recent(times[k] \cup {stamp})
      OBVIOUS
    <3>3. events < MaxEvents /\ OverLimit(k, S).over
      BY <2>1, <3>1, <3>2 DEF HandleEvent
    <3>4. Cardinality(S) > Limit[k]
      BY <3>3 DEF OverLimit
    <3>5. Cardinality(S) \in Nat /\ Cardinality(S) <= InWindow(k) + 1
      BY <1>1, <3>1, <3>2, <3>3, Counted
    <3>6. InWindow(k) \in Nat /\ Limit[k] \in Nat
      BY <1>1, BucketsFinite, MonitorAssumption
    <3>7. QED
      BY <3>4, <3>5, <3>6
  <2>2. QED
    BY <2>1
<1>2. QED
  BY <1>1, MonitorInvariance, PTL DEF MonitorSpec, AlertsAreEarned

(* The posts of an alert under way.  Three kinds of step: an event may raise  *)
(* one with a number of its own, a post ends one or counts an attempt of it,  *)
(* and a restart forgets them all.                                            *)
Raises  == /\ events' = events + 1
           /\ \E k \in Keys :
                alerts' \subseteq alerts \cup {[id |-> events + 1, key |-> k, tries |-> 0]}
Posts   == /\ events' = events
           /\ \E a \in alerts :
                \/ alerts' = alerts \ {a}
                \/ alerts' = (alerts \ {a}) \cup {[a EXCEPT !.tries = @ + 1]}
Forgets == events' = events /\ alerts' \subseteq alerts

LEMMA AlertSteps ==
  ASSUME [MonitorNext]_monitorVars PROVE Raises \/ Posts \/ Forgets
<1>1. CASE \E k \in Keys : HandleEvent(k)
  BY <1>1 DEF HandleEvent, Raises
<1>2. CASE PruneOldEntries \/ Restart \/ Advance \/ UNCHANGED monitorVars
  BY <1>2 DEF PruneOldEntries, Prune, Restart, Advance, monitorVars, Forgets
<1>3. CASE \E a \in alerts : Post(a)
  BY <1>3 DEF Post, PostSucceeds, PostFails, Posts
<1>4. QED
  BY <1>1, <1>2, <1>3 DEF MonitorNext

LEMMA AlertStep ==
  ASSUME MonitorInv, AlertInv, [MonitorNext]_monitorVars
  PROVE  /\ AlertInv'
         /\ \A a \in alerts, b \in alerts' : a.id = b.id => b = a \/ b.tries > a.tries
         /\ \A i \in 1..MaxEvents : events >= i /\ ~UnderWay(i) => ~UnderWay(i)'
<1>1. /\ events \in Nat
      /\ alerts \subseteq [id : 1..MaxEvents, key : Keys, tries : 0..MaxRetries]
      /\ \A a \in alerts : a.id \in Nat /\ a.tries \in Nat /\ a.id <= events
      /\ \A a, b \in alerts : a.id = b.id => a = b
  BY MonitorAssumption DEF MonitorInv, MonitorTypeOK, AlertInv
<1>2. CASE Raises
  BY <1>1, <1>2 DEF Raises, AlertInv, UnderWay
<1>3. CASE Posts
  <2>1. PICK a \in alerts :
          \/ alerts' = alerts \ {a}
          \/ alerts' = (alerts \ {a}) \cup {[a EXCEPT !.tries = @ + 1]}
    BY <1>3 DEF Posts
  <2> DEFINE b == [a EXCEPT !.tries = @ + 1]
  <2>2. b.id = a.id /\ b.tries = a.tries + 1
    BY <1>1
  <2>3. events' = events /\ alerts' \subseteq (alerts \ {a}) \cup {b}
    BY <1>3, <2>1 DEF Posts
  <2> HIDE DEF b
  <2>4. QED
    BY <1>1, <2>2, <2>3 DEF AlertInv, UnderWay
<1>4. CASE Forgets
  BY <1>1, <1>4 DEF Forgets, AlertInv, UnderWay
<1>5. QED
  BY <1>2, <1>3, <1>4, AlertSteps

(* What fairness has to bring to an end is finite: the attempts of an alert   *)
(* only rise, and one that has settled is settled for good                    *)
(* (security-monitor.service.ts:161).                                         *)
THEOREM AttemptsEnd == MonitorSpec => AttemptsRunOut
<1>1. MonitorInit => AlertInv
  BY DEF MonitorInit, AlertInv
<1>2. MonitorInv /\ AlertInv /\ [MonitorNext]_monitorVars => AlertInv'
  BY AlertStep
<1>3. MonitorSpec => [](MonitorInv /\ AlertInv)
  BY <1>1, <1>2, MonitorInvariance, PTL DEF MonitorSpec
<1>4. MonitorInv /\ AlertInv /\ [MonitorNext]_monitorVars
        => [\A a \in alerts, b \in alerts' :
              a.id = b.id => b = a \/ b.tries > a.tries]_monitorVars
  BY AlertStep
<1>5. MonitorSpec => [][\A a \in alerts, b \in alerts' :
                         a.id = b.id => b = a \/ b.tries > a.tries]_monitorVars
  BY <1>3, <1>4, PTL DEF MonitorSpec
<1>6. ASSUME NEW i \in 1..MaxEvents
      PROVE  MonitorSpec => [](events >= i /\ ~UnderWay(i) => []~UnderWay(i))
  <2> DEFINE Over == events >= i /\ ~UnderWay(i)
  <2>1. MonitorInv /\ AlertInv /\ Over /\ [MonitorNext]_monitorVars => Over'
    <3> SUFFICES ASSUME MonitorInv, AlertInv, Over, [MonitorNext]_monitorVars PROVE Over'
      OBVIOUS
    <3>1. events' = events \/ events' = events + 1
      BY AlertSteps DEF Raises, Posts, Forgets
    <3>2. events \in Nat /\ i \in Nat
      BY MonitorAssumption DEF MonitorInv, MonitorTypeOK
    <3>3. QED
      BY <3>1, <3>2, AlertStep
  <2>2. QED
    BY <1>3, <2>1, PTL DEF MonitorSpec
<1>7. QED
  BY <1>5, <1>6 DEF AttemptsRunOut
=============================================================================
