--------------------------- MODULE RowCachesProofs ---------------------------
(***************************************************************************)
(* That every cached service keeps CachedRow's promise, for any number of  *)
(* readers and writers and any lifetime of the keys.                       *)
(***************************************************************************)
EXTENDS RowCaches, TLAPS

Entries     == [val : Versions, ttl : 0..Life]
ReaderTypes == [pc : ReadPcs, val : Versions, elapsed : 0..Delay]
WriterTypes == [pc : WritePcs, op : Ops, val : Versions, elapsed : 0..Delay,
                exposed : BOOLEAN, metWriter : BOOLEAN]

LEMMA Numbers ==
  /\ Life \in Nat /\ Life >= 1 /\ Delay \in Nat /\ Delay >= 1 /\ MaxRow \in Nat
  /\ Cap \in Nat /\ MaxWarmups \in Nat
  /\ 0 \in Versions /\ Versions \subseteq Nat
  /\ Gone \in Entries /\ Rest \in ReaderTypes /\ Off \in WriterTypes
  BY CacheAssumption DEF Versions, Gone, Rest, Off, Entries, ReaderTypes,
     WriterTypes, ReadPcs, WritePcs, Ops

LEMMA Small ==
  /\ \A v \in Versions : v \in Nat
  /\ \A n \in 0..Cap : n \in Nat
  /\ \A n \in 0..Life : n \in Nat
  /\ \A n \in 0..Delay : n \in Nat /\ n <= Delay
  /\ \A n \in 0..MaxWarmups : n \in Nat /\ n <= MaxWarmups
  BY Numbers

LEMMA Types ==
  ASSUME TypeOK
  PROVE  /\ svc \in Services /\ warmups \in 0..MaxWarmups
         /\ row \in Versions /\ age \in [Versions -> 0..Cap]
         /\ cache \in [Keys -> Entries] /\ reader \in [Readers -> ReaderTypes]
         /\ writer \in [Writers -> WriterTypes] /\ lag \in 0..Cap
         /\ \A k \in Keys : cache[k] \in Entries
         /\ \A r \in Readers : reader[r] \in ReaderTypes
         /\ \A w \in Writers : writer[w] \in WriterTypes
  BY DEF TypeOK, Entries, ReaderTypes, WriterTypes

LEMMA LagType ==
  ASSUME TypeOK, NEW v \in Versions
  PROVE  Lag(v) \in 0..Cap /\ (v = row => Lag(v) = 0)
  BY Types, Numbers DEF Lag

\* The forms the steps are built from keep the types.
LEMMA HandType ==
  ASSUME TypeOK, NEW r \in Readers, NEW pc \in ReadPcs, NEW v \in Versions, Hand(r, pc, v)
  PROVE  /\ reader' \in [Readers -> ReaderTypes]
         /\ reader'[r].pc = pc /\ reader'[r].val = v /\ reader'[r].elapsed = reader[r].elapsed
         /\ \A q \in Readers \ {r} : reader'[q] = reader[q]
  BY Types DEF Hand, ReaderTypes

LEMMA MoveType ==
  ASSUME TypeOK, NEW w \in Writers, NEW pc \in WritePcs, Move(w, pc)
  PROVE  /\ writer' \in [Writers -> WriterTypes] /\ writer'[w].pc = pc
         /\ \A x \in Writers \ {w} : writer'[x] = writer[x]
  BY Types DEF Move, WriterTypes

\* Calls that have met somebody are otherwise as they were.
Like(w) == /\ writer'[w].pc = writer[w].pc /\ writer'[w].val = writer[w].val
           /\ writer'[w].elapsed = writer[w].elapsed

LEMMA MeetType ==
  ASSUME TypeOK, MeetReader
  PROVE  writer' \in [Writers -> WriterTypes] /\ \A w \in Writers : Like(w)
<1>1. \A w \in Writers : [writer[w] EXCEPT !.exposed = TRUE] \in WriterTypes
  BY Types DEF WriterTypes
<1>2. writer' \in [Writers -> WriterTypes]
  BY <1>1, Types DEF MeetReader
<1>3. ASSUME NEW w \in Writers PROVE Like(w)
  BY Types DEF MeetReader, Like, WriterTypes
<1>4. QED
  BY <1>2, <1>3

LEMMA StartType ==
  ASSUME TypeOK, NEW w \in Writers, NEW op \in Ops, Start(w, op, "found")
  PROVE  /\ writer' \in [Writers -> WriterTypes] /\ writer'[w].pc = "found"
         /\ \A x \in Writers \ {w} : Like(x)
<1> DEFINE new == [Off EXCEPT !.pc = "found", !.op = op,
                     !.exposed = \E r \in Readers : BusyR(r),
                     !.metWriter = \E y \in Writers : BusyW(y)]
<1>1. new \in WriterTypes /\ new.pc = "found"
  BY Numbers DEF Off, WriterTypes, WritePcs, Ops
<1>2. \A x \in Writers : [writer[x] EXCEPT !.metWriter = TRUE] \in WriterTypes
  BY Types DEF WriterTypes
<1>3. writer' = [x \in Writers |->
       IF x = w THEN new
       ELSE IF BusyW(x) THEN [writer[x] EXCEPT !.metWriter = TRUE] ELSE writer[x]]
  BY DEF Start
<1> HIDE DEF new
<1>4. writer' \in [Writers -> WriterTypes] /\ writer'[w].pc = "found"
  BY <1>1, <1>2, <1>3, Types
<1>5. ASSUME NEW x \in Writers \ {w} PROVE Like(x)
  BY <1>3, <1>5, Types DEF Like, WriterTypes
<1>6. QED
  BY <1>4, <1>5

LEMMA StoredType ==
  ASSUME TypeOK, NEW k \in Keys, NEW e \in Entries
  PROVE  [cache EXCEPT ![k] = e] \in [Keys -> Entries]
  BY Types

LEMMA StoredEntry == \A v \in Versions : [val |-> v, ttl |-> Life] \in Entries
  BY Numbers DEF Entries

-----------------------------------------------------------------------------
\* How old the values in flight may be.

\* A tenant's first key may be filled from the second, with what was old then,
\* and every warm-up may have stored an old reputation once more.
Gen(n)   == n * (Life + Delay)
Past     == IF svc = "tenant" THEN Life + Delay ELSE Gen(warmups)
Limit(k) == IF svc = "tenant" /\ k = "deep" THEN Delay ELSE Past + Delay
Slack(p) == IF svc = "tenant" /\ p.pc # "fill" THEN 0 ELSE Past

FreshEntry(k, e) == e.ttl > 0 => e.val <= row /\ Lag(e.val) + e.ttl <= Limit(k) + Life
FreshReader(p) == p.pc \in Holding
                    => p.val <= row /\ Lag(p.val) <= Slack(p) + p.elapsed
FreshWriter(p) == p.pc = "committed" => p.val <= row /\ Lag(p.val) <= p.elapsed

Fresh == /\ svc # "reputation" => warmups = 0
         /\ \A k \in Keys : FreshEntry(k, cache[k])
         /\ \A r \in Readers : FreshReader(reader[r])
         /\ \A w \in Writers : FreshWriter(writer[w])
         /\ \A v \in Versions : v >= row => age[v] = 0

LEMMA GenFacts ==
  /\ \A n \in Nat : Gen(n) \in Nat /\ Gen(n + 1) = Gen(n) + Life + Delay
  /\ \A m, n \in Nat : m <= n => Gen(m) <= Gen(n)
  /\ Gen(0) = 0 /\ Gen(1) = Life + Delay /\ Gen(1 + MaxWarmups) = Bounds
<1> DEFINE c == Life + Delay
<1>1. c \in Nat
  BY Numbers
<1>2. \A n : Gen(n) = n * c
  BY DEF Gen
<1>3. Gen(1 + MaxWarmups) = Bounds
  BY DEF Gen, Bounds
<1>4. ASSUME NEW n \in Nat PROVE n * c \in Nat /\ (n + 1) * c = n * c + c
  <2> HIDE DEF c
  <2>1. QED
    BY <1>1
<1>5. ASSUME NEW m \in Nat, NEW n \in Nat, m <= n PROVE m * c <= n * c
  <2> HIDE DEF c
  <2>1. QED
    BY <1>1, <1>5
<1>6. 0 * c = 0 /\ 1 * c = c
  BY <1>1
<1>7. ASSUME NEW n \in Nat PROVE Gen(n) \in Nat /\ Gen(n + 1) = Gen(n) + Life + Delay
  <2>1. Gen(n) = n * c /\ Gen(n + 1) = (n + 1) * c
    BY <1>2
  <2>2. Gen(n) \in Nat /\ Gen(n + 1) = Gen(n) + c
    BY <1>4, <2>1
  <2>3. QED
    BY <2>2, Numbers
<1>8. QED
  BY <1>2, <1>3, <1>5, <1>6, <1>7

\* What has been kept, with one life and one handler more, is within the bound.
LEMMA PastFacts ==
  ASSUME TypeOK, Fresh
  PROVE  /\ Past \in Nat /\ Bound \in Nat /\ Past + Life + Delay <= Bound
         /\ \A k : Limit(k) \in Nat /\ Limit(k) <= Past + Delay
         /\ \A p : Slack(p) \in Nat /\ Slack(p) <= Past
<1>1. warmups \in Nat /\ warmups <= MaxWarmups /\ 1 + MaxWarmups \in Nat
  BY Types, Numbers
<1>2. Gen(warmups) \in Nat /\ Gen(warmups) + Life + Delay <= Bounds /\ Bounds \in Nat
  <2>1. warmups + 1 \in Nat /\ warmups + 1 <= 1 + MaxWarmups
    BY <1>1, Numbers
  <2>2. /\ Gen(warmups + 1) = Gen(warmups) + Life + Delay
        /\ Gen(warmups + 1) <= Gen(1 + MaxWarmups)
    BY <1>1, <2>1, GenFacts
  <2>3. /\ Gen(warmups) \in Nat /\ Gen(1 + MaxWarmups) \in Nat
        /\ Gen(1 + MaxWarmups) = Bounds
    BY <1>1, GenFacts
  <2>4. QED
    BY <2>2, <2>3
<1>3. Past \in Nat /\ Bound \in Nat /\ Past + Life + Delay <= Bound
  <2>1. CASE svc = "tenant"
    BY <2>1, Numbers DEF Past, Bound
  <2>2. CASE svc = "reputation"
    BY <1>2, <2>2, Numbers DEF Past, Bound
  <2>3. CASE svc # "tenant" /\ svc # "reputation"
    <3>1. Past = 0
      BY <2>3, GenFacts DEF Past, Fresh
    <3>2. QED
      BY <2>3, <3>1, Numbers DEF Bound
  <2>4. QED
    BY <2>1, <2>2, <2>3
<1>4. \A k : Limit(k) \in Nat /\ Limit(k) <= Past + Delay
  BY <1>3, Numbers DEF Limit
<1>5. \A p : Slack(p) \in Nat /\ Slack(p) <= Past
  BY <1>3, Numbers DEF Slack
<1>6. QED
  BY <1>3, <1>4, <1>5

AbsStep == [Abstract!Next]_(Abstract!vars)
Good    == TypeOK' /\ Fresh' /\ AbsStep

\* A step that neither commits nor lets time pass is good when what it stores
\* and hands over is fresh, and what it answers is within the bound.
LEMMA Quiet ==
  ASSUME TypeOK, Fresh,
         svc' = svc, warmups' = warmups, status' = status, row' = row, age' = age,
         cache' \in [Keys -> Entries], reader' \in [Readers -> ReaderTypes],
         writer' \in [Writers -> WriterTypes],
         \/ lag' = lag
         \/ \E v \in 0..row : Lag(v) <= Bound /\ lag' = Lag(v),
         \A k \in Keys : FreshEntry(k, cache'[k]),
         \A r \in Readers : FreshReader(reader'[r]),
         \A w \in Writers : FreshWriter(writer'[w])
  PROVE  Good
<1>1. lag' \in 0..Cap
  <2>1. 0..row \subseteq Versions
    BY Types, Numbers DEF Versions
  <2>2. QED
    BY <2>1, Types, LagType
<1>2. TypeOK'
  BY <1>1, Types DEF TypeOK, Entries, ReaderTypes, WriterTypes
<1>3. \A v : Lag(v)' = Lag(v)
  BY DEF Lag
<1>4. Fresh'
  <2>1. \A k \in Keys : FreshEntry(k, cache[k])'
    BY <1>3 DEF FreshEntry, Limit, Past
  <2>2. \A r \in Readers : FreshReader(reader[r])'
    BY <1>3 DEF FreshReader, Slack, Past
  <2>3. \A w \in Writers : FreshWriter(writer[w])'
    BY <1>3 DEF FreshWriter
  <2>4. QED
    BY <2>1, <2>2, <2>3 DEF Fresh
<1>5. AbsStep
  BY DEF AbsStep, Abstract!Next, Abstract!vars, Abstract!Answer, Abstract!Lag, Lag, Bound
<1>6. QED
  BY <1>2, <1>4, <1>5 DEF Good

\* Writers that have only met somebody are as fresh as before.
LEMMA LikeFresh ==
  ASSUME Fresh, NEW w \in Writers, Like(w) PROVE FreshWriter(writer'[w])
  BY DEF Fresh, Like, FreshWriter

\* A key that is live holds what may still be served, and held for a while.
LEMMA LiveEntry ==
  ASSUME TypeOK, Fresh, NEW k \in Keys, Live(k)
  PROVE  /\ cache[k].val \in Versions /\ cache[k].val \in 0..row
         /\ Lag(cache[k].val) \in Nat /\ Lag(cache[k].val) + 1 <= Limit(k) + Life
         /\ Lag(cache[k].val) <= Bound
<1>1. /\ cache[k].val \in Versions /\ cache[k].ttl \in Nat /\ cache[k].ttl > 0
      /\ FreshEntry(k, cache[k]) /\ row \in Nat
  <2>1. cache[k] \in Entries /\ FreshEntry(k, cache[k]) /\ row \in Versions
    BY Types DEF Fresh
  <2>2. cache[k].val \in Versions /\ cache[k].ttl \in 0..Life
    BY <2>1 DEF Entries
  <2>3. QED
    BY <2>1, <2>2, Small DEF Live
<1>2. Lag(cache[k].val) \in Nat /\ cache[k].val \in Nat
  <2>1. Lag(cache[k].val) \in 0..Cap
    BY <1>1, LagType
  <2>2. QED
    BY <1>1, <2>1, Small
<1>3. cache[k].val <= row /\ Lag(cache[k].val) + cache[k].ttl <= Limit(k) + Life
  BY <1>1 DEF FreshEntry
<1>4. Limit(k) \in Nat /\ Limit(k) + Life <= Bound /\ Bound \in Nat
  BY PastFacts, Numbers
<1>5. QED
  BY <1>1, <1>2, <1>3, <1>4, Numbers

LEMMA LookGood ==
  ASSUME TypeOK, Fresh, NEW r \in Readers, NEW next \in {"query", "deep"}, Look(r, next)
  PROVE  Good
<1> USE DEF Look
<1>1. CASE Live("front") /\ lag' = Lag(cache["front"].val) /\ UNCHANGED <<reader, writer>>
  <2>1. cache["front"].val \in 0..row /\ Lag(cache["front"].val) <= Bound
    BY <1>1, LiveEntry DEF Keys
  <2>2. QED
    BY <1>1, <2>1, Types, Quiet DEF Fresh
<1>2. CASE Hand(r, next, 0) /\ MeetReader /\ lag' = lag
  <2>1. /\ reader' \in [Readers -> ReaderTypes]
        /\ \A q \in Readers : FreshReader(reader'[q])
    BY <1>2, HandType, Numbers DEF ReadPcs, Holding, FreshReader, Fresh
  <2>2. QED
    BY <1>2, <2>1, MeetType, LikeFresh, Types, Quiet DEF Fresh
<1>3. QED
  BY <1>1, <1>2

LEMMA QueryGood ==
  ASSUME TypeOK, Fresh, NEW r \in Readers, NEW from,
         NEW next \in {"more", "fillDeep", "fillOnly", "fill"}, Query(r, from, next)
  PROVE  Good
<1>1. /\ reader' \in [Readers -> ReaderTypes]
      /\ reader'[r].pc = next /\ reader'[r].val = row
      /\ reader'[r].elapsed = reader[r].elapsed /\ reader[r].elapsed \in Nat
      /\ \A q \in Readers \ {r} : reader'[q] = reader[q]
  <2>1. Hand(r, next, row) /\ next \in ReadPcs /\ row \in Versions
    BY Types DEF Query, ReadPcs
  <2>2. reader[r].elapsed \in Nat
    BY Types, Numbers DEF ReaderTypes
  <2>3. QED
    BY <2>1, <2>2, HandType
<1>2. Lag(row) = 0 /\ row \in Nat
  BY Types, LagType, Numbers
<1>3. FreshReader(reader'[r])
  BY <1>1, <1>2, PastFacts DEF FreshReader
<1>4. QED
  BY <1>1, <1>3, Types, Quiet DEF Query, Fresh

\* What a reader that is about to store holds.
LEMMA HeldValue ==
  ASSUME TypeOK, Fresh, NEW r \in Readers, reader[r].pc \in Holding
  PROVE  /\ reader[r].val \in Versions /\ reader[r].val \in 0..row
         /\ reader[r].elapsed \in Nat /\ reader[r].elapsed <= Delay
         /\ Lag(reader[r].val) \in Nat
         /\ Lag(reader[r].val) <= Slack(reader[r]) + reader[r].elapsed
         /\ Slack(reader[r]) \in Nat /\ Lag(reader[r].val) <= Slack(reader[r]) + Delay
<1>1. /\ reader[r].val \in Versions /\ reader[r].elapsed \in 0..Delay
      /\ FreshReader(reader[r]) /\ row \in Nat
  BY Types, Numbers DEF Fresh, ReaderTypes
<1>2. Lag(reader[r].val) \in Nat /\ reader[r].val \in Nat
  <2>1. Lag(reader[r].val) \in 0..Cap
    BY <1>1, LagType
  <2>2. QED
    BY <1>1, <2>1, Small
<1>3. /\ reader[r].val <= row
      /\ Lag(reader[r].val) <= Slack(reader[r]) + reader[r].elapsed
  BY <1>1 DEF FreshReader
<1>4. Slack(reader[r]) \in Nat
  BY PastFacts
<1>5. QED
  BY <1>1, <1>2, <1>3, <1>4, Numbers

\* Storing a value that is not older than the key's limit.
LEMMA FillFresh ==
  ASSUME TypeOK, Fresh, NEW k \in Keys, NEW v \in Versions, Fill(k, v),
         v \in 0..row, Lag(v) <= Limit(k)
  PROVE  cache' \in [Keys -> Entries] /\ \A j \in Keys : FreshEntry(j, cache'[j])
<1>1. CASE cache' = cache
  BY <1>1, Types DEF Fresh
<1>2. CASE cache' = [cache EXCEPT ![k] = [val |-> v, ttl |-> Life]]
  <2>1. Lag(v) \in Nat /\ Limit(k) \in Nat /\ v <= row /\ row \in Nat
    <3>1. Lag(v) \in 0..Cap /\ Cap \in Nat /\ row \in Nat
      BY LagType, Types, Numbers
    <3>2. QED
      BY <3>1, PastFacts
  <2>2. FreshEntry(k, [val |-> v, ttl |-> Life])
    BY <2>1, Numbers DEF FreshEntry
  <2>3. /\ cache'[k] = [val |-> v, ttl |-> Life]
        /\ \A j \in Keys \ {k} : cache'[j] = cache[j]
    BY <1>2, Types
  <2>4. QED
    BY <1>2, <2>2, <2>3, StoredEntry, StoredType, Types DEF Fresh
<1>3. QED
  BY <1>1, <1>2 DEF Fill, Stored

LEMMA FillGood ==
  ASSUME TypeOK, Fresh, NEW r \in Readers, NEW from \in {"fill", "fillOnly", "restore"},
         NEW k \in Keys, FillAnd(r, from, k),
         svc = "tenant" => k = (IF from = "fill" THEN "front" ELSE "deep")
  PROVE  Good
<1> DEFINE held == reader[r].val
<1>1. /\ reader[r].pc = from /\ Fill(k, held)
      /\ lag' = Lag(held) /\ reader' = [reader EXCEPT ![r] = Rest]
      /\ UNCHANGED <<svc, warmups, status, row, age, writer>>
  BY DEF FillAnd, Answer
<1>2. /\ held \in Versions /\ held \in 0..row /\ Lag(held) \in Nat
      /\ Slack(reader[r]) \in Nat /\ Lag(held) <= Slack(reader[r]) + Delay
  BY <1>1, HeldValue DEF Holding
<1>3. Lag(held) <= Limit(k)
  <2>1. Slack(reader[r]) + Delay <= Limit(k)
    <3>1. Past \in Nat
      BY PastFacts
    <3>2. QED
      BY <1>1, <3>1, Numbers DEF Slack, Limit
  <2>2. Limit(k) \in Nat
    BY PastFacts
  <2>3. QED
    BY <1>2, <2>1, <2>2, Numbers
<1>4. Lag(held) <= Bound
  BY <1>2, <1>3, PastFacts, Numbers
<1>5. /\ cache' \in [Keys -> Entries]
      /\ \A j \in Keys : FreshEntry(j, cache'[j])
  BY <1>1, <1>2, <1>3, FillFresh
<1>6. /\ reader' \in [Readers -> ReaderTypes]
      /\ \A q \in Readers : FreshReader(reader'[q])
  <2>1. reader'[r] = Rest /\ \A q \in Readers \ {r} : reader'[q] = reader[q]
    BY <1>1, Types
  <2>2. FreshReader(Rest)
    BY DEF FreshReader, Rest, Holding
  <2>3. QED
    BY <1>1, <2>1, <2>2, Numbers, Types DEF Fresh
<1>7. /\ writer' \in [Writers -> WriterTypes]
      /\ \A w \in Writers : FreshWriter(writer'[w])
  BY <1>1, Types DEF Fresh
<1> HIDE DEF held
<1>8. QED
  BY <1>1, <1>2, <1>4, <1>5, <1>6, <1>7, Quiet

\* A reader that is handed the value of a live key, or keeps its own, is as
\* fresh as its new step allows.
LEMMA HandFresh ==
  ASSUME TypeOK, Fresh, NEW r \in Readers, NEW pc \in ReadPcs, NEW v \in Versions,
         Hand(r, pc, v), v \in 0..row,
         \/ Lag(v) <= Slack([reader[r] EXCEPT !.pc = pc])
         \/ Lag(v) <= Slack([reader[r] EXCEPT !.pc = pc]) + reader[r].elapsed
  PROVE  /\ reader' \in [Readers -> ReaderTypes]
         /\ \A q \in Readers : FreshReader(reader'[q])
<1>1. /\ reader' \in [Readers -> ReaderTypes]
      /\ reader'[r].pc = pc /\ reader'[r].val = v
      /\ reader'[r].elapsed = reader[r].elapsed
      /\ \A q \in Readers \ {r} : reader'[q] = reader[q]
  BY HandType
<1>2. reader[r].elapsed \in Nat /\ Lag(v) \in Nat /\ v <= row
  <2>1. reader[r].elapsed \in 0..Delay /\ Lag(v) \in 0..Cap /\ row \in Nat
    BY Types, LagType, Numbers DEF ReaderTypes
  <2>2. QED
    BY <2>1, Numbers
<1>3. [reader[r] EXCEPT !.pc = pc].pc = pc
  BY Types DEF ReaderTypes
<1>4. Slack(reader'[r]) = Slack([reader[r] EXCEPT !.pc = pc]) /\ Slack(reader'[r]) \in Nat
  BY <1>1, <1>3, PastFacts DEF Slack
<1>5. Lag(v) <= Slack(reader'[r]) + reader'[r].elapsed
  BY <1>1, <1>2, <1>4
<1>6. FreshReader(reader'[r])
  BY <1>1, <1>2, <1>5 DEF FreshReader
<1>7. QED
  BY <1>1, <1>6 DEF Fresh

\* The reads after the first, of a composed answer.
LEMMA MoreGood ==
  ASSUME TypeOK, Fresh, NEW r \in Readers, QueryMore(r)
  PROVE  Good
<1> DEFINE held == reader[r].val  next == [reader[r] EXCEPT !.pc = "fill"]
<1>1. /\ held \in Versions /\ held \in 0..row /\ Lag(held) \in Nat
      /\ reader[r].elapsed \in Nat
      /\ Lag(held) <= Slack(reader[r]) + reader[r].elapsed
  BY HeldValue DEF QueryMore, Holding
<1>2. Slack(reader[r]) <= Slack(next) /\ Slack(next) \in Nat /\ Slack(reader[r]) \in Nat
  <2>1. next.pc = "fill" /\ Past \in Nat
    BY Types, PastFacts DEF ReaderTypes
  <2>2. QED
    BY <2>1 DEF Slack, QueryMore
<1>3. Lag(held) <= Slack(next) + reader[r].elapsed
  BY <1>1, <1>2
<1>4. /\ reader' \in [Readers -> ReaderTypes]
      /\ \A q \in Readers : FreshReader(reader'[q])
  BY <1>1, <1>3, HandFresh DEF QueryMore, ReadPcs
<1>5. QED
  BY <1>4, Types, Quiet DEF QueryMore, Fresh

\* A warm-up, and the steps in which a tenant's two keys differ from the one of
\* the others.
LEMMA FindOneGood ==
  ASSUME TypeOK, Fresh, NEW r \in Readers,
         \/ WarmupCache(r) \/ UpdateReputation(r)
         \/ FindOneDeep(r) \/ FindOneRefresh(r) \/ FindOneFillDeep(r)
  PROVE  Good
<1>1. CASE WarmupCache(r) \/ UpdateReputation(r) \/ FindOneRefresh(r)
  <2> USE DEF WarmupCache, UpdateReputation, QueryAnyway, FindOneRefresh
  <2>1. /\ reader' \in [Readers -> ReaderTypes]
        /\ \A q \in Readers : FreshReader(reader'[q])
    BY <1>1, HandType, Numbers DEF ReadPcs, Holding, FreshReader, Fresh
  <2>2. QED
    BY <1>1, <2>1, MeetType, LikeFresh, Types, Quiet DEF Fresh
<1>2. CASE FindOneDeep(r)
  <2> USE <1>2 DEF FindOneDeep
  <2> DEFINE old == cache["deep"].val  next == [reader[r] EXCEPT !.pc = "fill"]
  <2>1. CASE Live("deep") /\ Hand(r, "fill", old)
    <3>1. /\ old \in Versions /\ old \in 0..row
          /\ Lag(old) \in Nat /\ Lag(old) + 1 <= Limit("deep") + Life
      BY <2>1, LiveEntry DEF Keys
    <3>2. Limit("deep") + Life = Slack(next)
      <4>1. next.pc = "fill"
        BY Types DEF ReaderTypes
      <4>2. QED
        BY <4>1, Numbers DEF Limit, Slack, Past
    <3>3. Lag(old) <= Slack(next) /\ "fill" \in ReadPcs
      BY <3>1, <3>2, PastFacts DEF ReadPcs
    <3>4. /\ reader' \in [Readers -> ReaderTypes]
          /\ \A q \in Readers : FreshReader(reader'[q])
      BY <2>1, <3>1, <3>3, HandFresh
    <3>5. QED
      BY <3>4, Types, Quiet DEF Fresh
  <2>2. CASE Hand(r, "query", 0)
    <3>1. /\ reader' \in [Readers -> ReaderTypes]
          /\ \A q \in Readers : FreshReader(reader'[q])
      BY <2>2, HandType, Numbers DEF ReadPcs, Holding, FreshReader, Fresh
    <3>2. QED
      BY <3>1, Types, Quiet DEF Fresh
  <2>3. QED
    BY <2>1, <2>2
<1>3. CASE FindOneFillDeep(r)
  <2> USE <1>3 DEF FindOneFillDeep
  <2> DEFINE held == reader[r].val  next == [reader[r] EXCEPT !.pc = "fill"]
  <2>1. /\ held \in Versions /\ held \in 0..row /\ Lag(held) \in Nat
        /\ reader[r].elapsed \in Nat
        /\ Lag(held) <= Slack(reader[r]) + reader[r].elapsed
        /\ Lag(held) <= Slack(reader[r]) + Delay
    BY HeldValue DEF Holding
  <2>2. Slack(reader[r]) = 0 /\ Limit("deep") = Delay
    BY DEF Slack, Limit
  <2>3. Lag(held) <= Limit("deep") /\ Lag(held) <= reader[r].elapsed
    BY <2>1, <2>2, Numbers
  <2>4. /\ cache' \in [Keys -> Entries]
        /\ \A k \in Keys : FreshEntry(k, cache'[k])
    BY <2>1, <2>3, FillFresh DEF Keys
  <2>5. Lag(held) <= Slack(next) + reader[r].elapsed /\ "fill" \in ReadPcs
    BY <2>1, <2>3, PastFacts DEF ReadPcs
  <2>6. /\ reader' \in [Readers -> ReaderTypes]
        /\ \A q \in Readers : FreshReader(reader'[q])
    BY <2>1, <2>5, HandFresh
  <2>7. QED
    BY <2>4, <2>6, Types, Quiet DEF Fresh
<1>4. QED
  BY <1>1, <1>2, <1>3

\* A reputation that is stored once more counts as one life older.
LEMMA WarmupGood ==
  ASSUME TypeOK, Fresh, NEW r \in Readers, WarmupRead(r)
  PROVE  Good
<1>1. /\ svc = "reputation" /\ warmups < MaxWarmups /\ warmups' = warmups + 1
      /\ UNCHANGED <<svc, status, row, age, lag>>
  BY DEF WarmupRead
<1>2. warmups' \in 0..MaxWarmups
  BY <1>1, Types, Numbers
<1>3. /\ Past \in Nat /\ Past' = Past + Life + Delay
      /\ \A k : Limit(k) = Past + Delay /\ Limit(k)' = Past' + Delay
      /\ \A p : Slack(p) = Past
      /\ \A p : svc' # "tenant" /\ (IF svc' = "tenant" /\ p.pc # "fill" THEN 0 ELSE Past') = Past'
  <2>1. Past \in Nat /\ warmups \in Nat
    BY PastFacts, Types, Numbers
  <2>2. Past = Gen(warmups) /\ Past' = Gen(warmups + 1)
    BY <1>1 DEF Past, Gen
  <2>3. Past' = Past + Life + Delay
    BY <2>1, <2>2, GenFacts
  <2>4. QED
    BY <1>1, <2>1, <2>3 DEF Limit, Slack
<1>4. \A v : Lag(v)' = Lag(v)
  BY <1>1 DEF Lag
<1>5. PICK v \in Versions :
        /\ Hand(r, "restore", v) /\ v \in 0..row /\ Lag(v) \in Nat
        /\ Lag(v) <= Past + Life + Delay
        /\ cache' \in [Keys -> Entries] /\ \A k \in Keys : FreshEntry(k, cache'[k])
        /\ MeetReader \/ writer' = writer
  <2>1. CASE Live("front") /\ Hand(r, "restore", cache["front"].val) /\ MeetReader
             /\ cache' = cache
    <3> DEFINE v == cache["front"].val
    <3>1. v \in Versions /\ v \in 0..row /\ Lag(v) \in Nat /\ Lag(v) + 1 <= Past + Delay + Life
      BY <1>3, <2>1, LiveEntry DEF Keys
    <3>2. cache' \in [Keys -> Entries] /\ \A k \in Keys : FreshEntry(k, cache'[k])
      BY <2>1, Types DEF Fresh
    <3>3. Lag(v) <= Past + Life + Delay
      BY <1>3, <3>1, Numbers
    <3>4. QED
      BY <2>1, <3>1, <3>2, <3>3
  <2>2. CASE reader[r].pc = "fill" /\ Fill("front", reader[r].val)
             /\ Hand(r, "restore", reader[r].val) /\ writer' = writer
    <3> DEFINE v == reader[r].val
    <3>1. v \in Versions /\ v \in 0..row /\ Lag(v) \in Nat /\ Lag(v) <= Past + Delay
      BY <1>3, <2>2, HeldValue DEF Holding
    <3>2. cache' \in [Keys -> Entries] /\ \A k \in Keys : FreshEntry(k, cache'[k])
      BY <1>3, <2>2, <3>1, FillFresh DEF Keys
    <3>3. Lag(v) <= Past + Life + Delay
      BY <1>3, <3>1, Numbers
    <3>4. QED
      BY <2>2, <3>1, <3>2, <3>3
  <2>3. QED
    BY <2>1, <2>2 DEF WarmupRead
<1>6. /\ reader' \in [Readers -> ReaderTypes]
      /\ reader'[r].pc = "restore" /\ reader'[r].val = v
      /\ reader'[r].elapsed = reader[r].elapsed /\ reader[r].elapsed \in Nat
      /\ \A q \in Readers \ {r} : reader'[q] = reader[q]
  <2>1. "restore" \in ReadPcs /\ reader[r].elapsed \in Nat
    BY Types, Numbers DEF ReaderTypes, ReadPcs
  <2>2. QED
    BY <1>5, <2>1, HandType
<1>7. writer' \in [Writers -> WriterTypes] /\ \A w \in Writers : FreshWriter(writer'[w])
  BY <1>5, MeetType, LikeFresh, Types DEF Fresh
<1>8. TypeOK'
  BY <1>1, <1>2, <1>5, <1>6, <1>7, Types DEF TypeOK, Entries, ReaderTypes, WriterTypes
<1>9. ASSUME NEW k \in Keys PROVE FreshEntry(k, cache[k])'
  <2>1. /\ cache'[k] \in Entries /\ cache'[k].val \in Versions /\ cache'[k].ttl \in Nat
        /\ FreshEntry(k, cache'[k])
    BY <1>5, Numbers DEF Entries
  <2>2. Lag(cache'[k].val) \in Nat
    <3>1. Lag(cache'[k].val) \in 0..Cap
      BY <2>1, LagType
    <3>2. QED
      BY <3>1, Numbers
  <2>3. cache'[k].ttl > 0 => /\ cache'[k].val <= row
                             /\ Lag(cache'[k].val) + cache'[k].ttl <= Limit(k)' + Life
    BY <1>3, <2>1, <2>2, Numbers DEF FreshEntry
  <2>4. QED
    BY <1>1, <1>4, <2>3 DEF FreshEntry
<1>10. ASSUME NEW q \in Readers PROVE FreshReader(reader[q])'
  <2>1. reader'[q].pc \in Holding
          => reader'[q].val <= row /\ Lag(reader'[q].val) <= Past' + reader'[q].elapsed
    <3>1. CASE q = r
      BY <1>3, <1>5, <1>6, <3>1, Types, Numbers
    <3>2. CASE q # r /\ reader[q].pc \in Holding
      <4>1. /\ reader[q].val \in 0..row /\ reader[q].elapsed \in Nat
            /\ Lag(reader[q].val) \in Nat
            /\ Lag(reader[q].val) <= Past + reader[q].elapsed
        BY <1>3, <3>2, HeldValue
      <4>2. QED
        BY <1>3, <1>6, <3>2, <4>1, Types, Numbers
    <3>3. QED
      BY <1>6, <3>1, <3>2
  <2>2. Slack(reader[q])' = Past'
    BY <1>3 DEF Slack
  <2>3. QED
    BY <1>1, <1>4, <2>1, <2>2 DEF FreshReader
<1>11. ASSUME NEW w \in Writers PROVE FreshWriter(writer[w])'
  BY <1>1, <1>4, <1>7 DEF FreshWriter
<1>12. Fresh'
  BY <1>1, <1>9, <1>10, <1>11 DEF Fresh
<1>13. AbsStep
  BY <1>1 DEF AbsStep, Abstract!vars, Bound
<1>14. QED
  BY <1>8, <1>12, <1>13 DEF Good

LEMMA ReadGood ==
  ASSUME TypeOK, Fresh, NEW r \in Readers, Read(r) PROVE Good
<1>1. CASE /\ svc # "tenant"
           /\ \/ Look(r, "query") \/ Query(r, "query", "more") \/ Query(r, "query", "fill")
              \/ QueryMore(r) \/ FillAnd(r, "fill", "front")
  BY <1>1, LookGood, QueryGood, MoreGood, FillGood DEF Keys
<1>2. CASE \/ WarmupCache(r) \/ UpdateReputation(r) \/ FindOneDeep(r)
           \/ FindOneRefresh(r) \/ FindOneFillDeep(r)
  BY <1>2, FindOneGood
<1>3. CASE FindOneLook(r)
  BY <1>3, LookGood DEF FindOneLook
<1>4. CASE FindOneQuery(r)
  BY <1>4, QueryGood DEF FindOneQuery
<1>5. CASE FindOneStats(r)
  BY <1>5, FillGood DEF FindOneStats, Keys
<1>6. CASE FindOneFill(r)
  BY <1>6, FillGood DEF FindOneFill, Keys
<1>7. CASE WarmupRead(r)
  BY <1>7, WarmupGood
<1>8. CASE WarmupStore(r)
  BY <1>8, FillGood DEF WarmupStore, Keys
<1>9. CASE /\ svc # "tenant" /\ ReadThrough(r)
  BY <1>1, <1>9 DEF ReadThrough
<1>10. QED
  BY <1>2, <1>3, <1>4, <1>5, <1>6, <1>7, <1>8, <1>9 DEF Read, FindAll, GetTenantStats,
     FindAllUsers, GetUserRoleDetails, GetProfile, GetReputation, FindOne

-----------------------------------------------------------------------------
\* Writers.

LEMMA ArriveGood ==
  ASSUME TypeOK, Fresh, NEW w \in Writers, Arrive(w) PROVE Good
<1>1. ASSUME NEW op \in Ops, Start(w, op, "found") PROVE Good
  <2>1. /\ writer' \in [Writers -> WriterTypes]
        /\ \A x \in Writers : FreshWriter(writer'[x])
    BY <1>1, StartType, LikeFresh DEF FreshWriter
  <2>2. UNCHANGED <<svc, warmups, status, row, age, cache, reader, lag>>
    BY <1>1, Zenon DEF Start
  <2>3. QED
    BY <2>1, <2>2, Types, Quiet DEF Fresh
<1>2. QED
  BY <1>1 DEF Arrive, Create, Update, Remove, Activate, Begin, Ops

\* The steps of a writer that neither store a value nor commit.
LEMMA ClearGood ==
  ASSUME TypeOK, Fresh, NEW w \in Writers,
         \/ LockRow(w) \/ DeleteBasic(w) \/ DeleteWithData(w)
         \/ InvalidateUserCache(w) \/ ClearCachedReputation(w)
  PROVE  Good
<1>1. ASSUME NEW pc \in {"locked", "deleted", "cleared"},
             \/ Move(w, pc)
             \/ writer' = [writer EXCEPT ![w].pc = pc, ![w].exposed = TRUE],
             \/ cache' = cache
             \/ \E k \in Keys : cache' = [cache EXCEPT ![k] = Gone],
             UNCHANGED <<svc, warmups, status, row, age, reader, lag>>
      PROVE  Good
  <2>1. /\ writer' \in [Writers -> WriterTypes]
        /\ \A x \in Writers : FreshWriter(writer'[x])
    <3>1. CASE Move(w, pc)
      BY <1>1, <3>1, MoveType DEF WritePcs, FreshWriter, Fresh
    <3>2. CASE writer' = [writer EXCEPT ![w].pc = pc, ![w].exposed = TRUE]
      <4>1. [writer[w] EXCEPT !.pc = pc, !.exposed = TRUE] \in WriterTypes
        BY <1>1, Types DEF WritePcs, WriterTypes
      <4>2. \A x \in Writers : writer'[x] =
              IF x = w THEN [writer[w] EXCEPT !.pc = pc, !.exposed = TRUE] ELSE writer[x]
        BY <3>2, Types
      <4>3. writer' \in [Writers -> WriterTypes] /\ writer'[w].pc = pc
        BY <3>2, <4>1, <4>2, Types DEF WriterTypes
      <4>4. QED
        BY <1>1, <4>2, <4>3 DEF FreshWriter, Fresh
    <3>3. QED
      BY <1>1, <3>1, <3>2
  <2>2. /\ cache' \in [Keys -> Entries] /\ \A k \in Keys : FreshEntry(k, cache'[k])
    BY <1>1, Types, Numbers DEF Fresh, FreshEntry, Gone
  <2>3. QED
    BY <1>1, <2>1, <2>2, Types, Quiet DEF Fresh
<1>2. ASSUME Finish(w, Gone) PROVE Good
  <2>1. /\ writer' \in [Writers -> WriterTypes]
        /\ \A x \in Writers : FreshWriter(writer'[x])
    <3>1. /\ writer' = [writer EXCEPT ![w] = Off] /\ FreshWriter(Off)
          /\ \A x \in Writers \ {w} : writer'[x] = writer[x]
      BY <1>2, Types DEF Finish, FreshWriter, Off
    <3>2. QED
      BY <3>1, Types, Numbers DEF Fresh
  <2>2. /\ cache' \in [Keys -> Entries] /\ \A k \in Keys : FreshEntry(k, cache'[k])
    <3>1. cache' = [cache EXCEPT !["front"] = Gone] /\ FreshEntry("front", Gone)
      BY <1>2 DEF Finish, FreshEntry, Gone
    <3>2. QED
      BY <3>1, Types, Numbers DEF Fresh, Keys
  <2>3. QED
    BY <1>2, <2>1, <2>2, Types, Quiet DEF Finish, Fresh
<1>3. CASE LockRow(w)
  BY <1>1, <1>3 DEF LockRow
<1>4. CASE DeleteBasic(w)
  BY <1>1, <1>4 DEF DeleteBasic, Delete, Keys
<1>5. CASE DeleteWithData(w)
  BY <1>1, <1>5 DEF DeleteWithData, Delete, Keys
<1>6. CASE InvalidateUserCache(w) \/ ClearCachedReputation(w)
  BY <1>2, <1>6 DEF InvalidateUserCache, ClearCachedReputation
<1>7. QED
  BY <1>3, <1>4, <1>5, <1>6

LEMMA StoreGood ==
  ASSUME TypeOK, Fresh, NEW w \in Writers, StoreProfile(w) PROVE Good
<1> DEFINE held == writer[w].val
<1>1. /\ svc = "profile" /\ writer[w].pc = "committed"
      /\ cache' = [cache EXCEPT !["front"] = [val |-> held, ttl |-> Life]]
      /\ writer' = [writer EXCEPT ![w] = Off]
      /\ UNCHANGED <<svc, warmups, status, row, age, reader, lag>>
  BY DEF StoreProfile, Finish
<1>2. held \in Versions /\ writer[w].elapsed \in 0..Delay
  BY Types DEF WriterTypes
<1>3. held <= row /\ Lag(held) <= writer[w].elapsed
  BY <1>1 DEF Fresh, FreshWriter
<1>4. Lag(held) \in Nat /\ Lag(held) <= Delay
  <2>1. Lag(held) \in 0..Cap /\ Cap \in Nat /\ Delay \in Nat
    BY <1>2, LagType, Numbers
  <2>2. QED
    BY <1>2, <1>3, <2>1
<1>5. FreshEntry("front", [val |-> held, ttl |-> Life])
  <2>1. Delay <= Limit("front") /\ Limit("front") \in Nat
    BY <1>1, PastFacts, Numbers DEF Limit
  <2>2. QED
    BY <1>3, <1>4, <2>1, Numbers DEF FreshEntry
<1>6. /\ cache' \in [Keys -> Entries] /\ \A k \in Keys : FreshEntry(k, cache'[k])
  BY <1>1, <1>2, <1>5, StoredEntry, StoredType, Types DEF Fresh, Keys
<1>7. /\ writer' \in [Writers -> WriterTypes]
      /\ \A x \in Writers : FreshWriter(writer'[x])
  <2>1. writer'[w] = Off /\ \A x \in Writers \ {w} : writer'[x] = writer[x]
    BY <1>1, Types
  <2>2. FreshWriter(Off)
    BY DEF FreshWriter, Off
  <2>3. QED
    BY <1>1, <2>1, <2>2, Types, Numbers DEF Fresh
<1>8. QED
  BY <1>1, <1>6, <1>7, Types, Quiet DEF Fresh

LEMMA CommitGood ==
  ASSUME TypeOK, Fresh, NEW w \in Writers, CommitTenant(w) \/ CommitRow(w) PROVE Good
<1> USE DEF CommitTenant, CommitRow
<1>1. /\ row < MaxRow /\ row' = row + 1 /\ status' = NewStatus(writer[w].op)
      /\ UNCHANGED <<svc, warmups, age, cache, reader, lag>>
  BY DEF Commit
<1>2. row \in Nat /\ MaxRow \in Nat /\ age \in [Versions -> 0..Cap] /\ row' \in Versions
  BY <1>1, Types, Numbers DEF Versions
<1>3. \A v \in Versions : v <= row => Lag(v)' = Lag(v)
  <2>1. age[row] = 0
    BY <1>2, Types DEF Fresh
  <2>2. \A v \in Versions : v <= row => v # row'
    BY <1>1, <1>2, Numbers
  <2>3. QED
    BY <1>1, <2>1, <2>2 DEF Lag
<1>4. /\ writer' \in [Writers -> WriterTypes]
      /\ \A x \in Writers \ {w} : writer'[x] = writer[x]
      /\ writer'[w].pc = "committed" => writer'[w].val = row' /\ writer'[w].elapsed \in Nat
  <2>1. [writer[w] EXCEPT !.pc = "committed", !.val = row + 1] \in WriterTypes
    BY <1>1, <1>2, Types DEF WriterTypes, WritePcs
  <2>2. writer[w].elapsed \in Nat
    BY Types, Numbers DEF WriterTypes
  <2>3. CASE writer' = [writer EXCEPT ![w] = Off]
    BY <2>3, Types, Numbers DEF Off
  <2>4. CASE writer' = [writer EXCEPT ![w] = [@ EXCEPT !.pc = "committed", !.val = row + 1]]
    BY <1>1, <2>1, <2>2, <2>4, Types DEF WriterTypes
  <2>5. QED
    BY <2>3, <2>4
<1>5. TypeOK'
  BY <1>1, <1>2, <1>4, Types DEF TypeOK, NewStatus, Entries, ReaderTypes, WriterTypes
<1>6. Fresh'
  <2>1. ASSUME NEW k \in Keys PROVE FreshEntry(k, cache[k])'
    <3>1. FreshEntry(k, cache[k]) /\ cache[k].val \in Versions /\ cache[k].val \in Nat
      BY Types, Numbers DEF Fresh, Entries
    <3>2. QED
      BY <1>1, <1>2, <1>3, <3>1 DEF FreshEntry, Limit, Past
  <2>2. ASSUME NEW r \in Readers PROVE FreshReader(reader[r])'
    <3>1. FreshReader(reader[r]) /\ reader[r].val \in Versions /\ reader[r].val \in Nat
      BY Types, Numbers DEF Fresh, ReaderTypes
    <3>2. QED
      BY <1>1, <1>2, <1>3, <3>1 DEF FreshReader, Slack, Past
  <2>3. ASSUME NEW x \in Writers PROVE FreshWriter(writer[x])'
    <3>1. CASE x = w
      <4>1. Lag(row)' = 0
        BY DEF Lag
      <4>2. QED
        BY <1>1, <1>2, <1>4, <3>1, <4>1 DEF FreshWriter
    <3>2. CASE x # w
      <4>1. FreshWriter(writer[x]) /\ writer[x].val \in Versions /\ writer[x].val \in Nat
        BY Types, Numbers DEF Fresh, WriterTypes
      <4>2. QED
        BY <1>1, <1>2, <1>3, <1>4, <3>2, <4>1 DEF FreshWriter
    <3>3. QED
      BY <3>1, <3>2
  <2>4. \A v \in Versions : v >= row' => age'[v] = 0
    BY <1>1, <1>2, Numbers DEF Fresh
  <2>5. QED
    BY <1>1, <2>1, <2>2, <2>3, <2>4 DEF Fresh
<1>7. AbsStep
  BY <1>1 DEF AbsStep, Abstract!Next, Abstract!Write, Bound
<1>8. QED
  BY <1>5, <1>6, <1>7 DEF Good

-----------------------------------------------------------------------------
\* Failures, evictions and time.

LEMMA FailGood ==
  ASSUME TypeOK, Fresh, NEW p \in Readers \cup Writers, Fail(p) PROVE Good
<1>1. CASE p \in Readers /\ reader' = [reader EXCEPT ![p] = Rest] /\ writer' = writer
  <2>1. /\ FreshReader(Rest) /\ reader'[p] = Rest
        /\ \A q \in Readers \ {p} : reader'[q] = reader[q]
    BY <1>1, Types DEF FreshReader, Rest, Holding
  <2>2. /\ reader' \in [Readers -> ReaderTypes]
        /\ \A q \in Readers : FreshReader(reader'[q])
    BY <1>1, <2>1, Types, Numbers DEF Fresh
  <2>3. QED
    BY <1>1, <2>2, Types, Quiet DEF Fail, Fresh
<1>2. CASE p \in Writers /\ writer' = [writer EXCEPT ![p] = Off] /\ reader' = reader
  <2>1. /\ FreshWriter(Off) /\ writer'[p] = Off
        /\ \A q \in Writers \ {p} : writer'[q] = writer[q]
    BY <1>2, Types DEF FreshWriter, Off
  <2>2. /\ writer' \in [Writers -> WriterTypes]
        /\ \A q \in Writers : FreshWriter(writer'[q])
    BY <1>2, <2>1, Types, Numbers DEF Fresh
  <2>3. QED
    BY <1>2, <2>2, Types, Quiet DEF Fail, Fresh
<1>3. QED
  BY <1>1, <1>2 DEF Fail

LEMMA EvictGood ==
  ASSUME TypeOK, Fresh, NEW k \in Keys, Evict(k) PROVE Good
<1>1. /\ cache' \in [Keys -> Entries] /\ \A j \in Keys : FreshEntry(j, cache'[j])
  <2>1. cache' = [cache EXCEPT ![k] = Gone] /\ FreshEntry(k, Gone)
    BY DEF Evict, FreshEntry, Gone
  <2>2. QED
    BY <2>1, Types, Numbers DEF Fresh
<1>2. QED
  BY <1>1, Types, Quiet DEF Evict, Fresh

LEMMA TickGood == ASSUME TypeOK, Fresh, Tick PROVE Good
<1>1. /\ row \in Nat /\ row \in Versions /\ age \in [Versions -> 0..Cap]
      /\ svc' = svc /\ warmups' = warmups /\ row' = row /\ status' = status /\ lag' = lag
      /\ age' = [v \in Versions |-> IF v < row THEN Older(age[v]) ELSE 0]
  BY Types, Numbers DEF Tick
<1>2. \A a \in 0..Cap : Older(a) \in 0..Cap /\ Older(a) <= a + 1
  BY Numbers DEF Older
<1>3. age' \in [Versions -> 0..Cap]
  <2>1. ASSUME NEW v \in Versions
        PROVE  (IF v < row THEN Older(age[v]) ELSE 0) \in 0..Cap
    BY <1>1, <1>2, Numbers
  <2>2. QED
    BY <1>1, <2>1
<1> DEFINE Later(v) == IF v = row THEN 0 ELSE age'[v]
<1>4. ASSUME NEW v \in Versions, v <= row
      PROVE  Later(v) \in Nat /\ Lag(v) \in Nat /\ Later(v) <= Lag(v) + 1
  <2>1. Lag(v) \in 0..Cap /\ Cap \in Nat
    BY LagType, Numbers
  <2>2. CASE v # row
    <3>1. v < row /\ age[v] \in 0..Cap /\ Lag(v) = age[v]
      BY <1>1, <1>4, <2>2, Numbers DEF Lag
    <3>2. Later(v) = Older(age[v])
      BY <1>1, <2>2, <3>1
    <3>3. QED
      BY <1>2, <2>1, <3>1, <3>2
  <2>3. QED
    BY <2>1, <2>2
<1>5. \A v : Lag(v)' = Later(v)
  BY <1>1 DEF Lag
<1> HIDE DEF Later
<1>6. /\ cache' \in [Keys -> Entries]
      /\ \A k \in Keys : FreshEntry(k, cache[k])'
  <2>1. ASSUME NEW k \in Keys
        PROVE  cache'[k] \in Entries /\ FreshEntry(k, cache[k])'
    <3>1. /\ cache'[k] = Shorter(cache[k]) /\ cache[k] \in Entries
          /\ FreshEntry(k, cache[k]) /\ cache[k].ttl \in 0..Life
          /\ cache[k].val \in Versions
      BY Types DEF Tick, Fresh, Entries
    <3>2. CASE cache[k].ttl <= 1
      BY <3>1, <3>2, Numbers DEF Shorter, FreshEntry, Gone
    <3>3. CASE cache[k].ttl > 1
      <4>1. /\ cache'[k] \in Entries /\ cache'[k].val = cache[k].val
            /\ cache'[k].ttl = cache[k].ttl - 1
        BY <3>1, <3>3, Numbers DEF Shorter, Entries
      <4>2. /\ cache[k].val <= row /\ cache[k].ttl \in Nat
            /\ Lag(cache[k].val) + cache[k].ttl <= Limit(k) + Life
        BY <3>1, <3>3, Numbers DEF FreshEntry
      <4>3. /\ Later(cache[k].val) \in Nat /\ Lag(cache[k].val) \in Nat
            /\ Later(cache[k].val) <= Lag(cache[k].val) + 1
        BY <1>4, <3>1, <4>2
      <4>4. Limit(k)' = Limit(k) /\ Limit(k) \in Nat
        BY <1>1, PastFacts DEF Limit, Past
      <4>5. Later(cache'[k].val) + cache'[k].ttl <= Limit(k) + Life
        BY <4>1, <4>2, <4>3, <4>4, Numbers
      <4>6. QED
        BY <1>1, <1>5, <4>1, <4>2, <4>4, <4>5 DEF FreshEntry
    <3>4. QED
      BY <3>1, <3>2, <3>3, Numbers
  <2>2. QED
    BY <2>1, Types DEF Tick
<1>7. /\ reader' \in [Readers -> ReaderTypes]
      /\ \A r \in Readers : FreshReader(reader[r])'
  <2>1. ASSUME NEW r \in Readers
        PROVE  reader'[r] \in ReaderTypes /\ FreshReader(reader[r])'
    <3>1. /\ reader'[r] = Longer(reader[r]) /\ reader[r] \in ReaderTypes
          /\ FreshReader(reader[r]) /\ reader[r].elapsed \in 0..Delay
          /\ reader[r].val \in Versions
          /\ reader[r].pc \in Holding => reader[r].elapsed # Delay
      BY Types DEF Tick, Fresh, ReaderTypes, Due
    <3>2. CASE reader[r].pc \notin Holding
      BY <3>1, <3>2 DEF Longer, FreshReader
    <3>3. CASE reader[r].pc \in Holding
      <4>1. /\ reader'[r] \in ReaderTypes /\ reader'[r].pc = reader[r].pc
            /\ reader'[r].val = reader[r].val
            /\ reader'[r].elapsed = reader[r].elapsed + 1
        BY <3>1, <3>3, Numbers DEF Longer, ReaderTypes
      <4>2. /\ reader[r].val <= row /\ reader[r].elapsed \in Nat
            /\ Lag(reader[r].val) <= Slack(reader[r]) + reader[r].elapsed
        BY <3>1, <3>3, Numbers DEF FreshReader
      <4>3. /\ Later(reader[r].val) \in Nat /\ Lag(reader[r].val) \in Nat
            /\ Later(reader[r].val) <= Lag(reader[r].val) + 1
        BY <1>4, <3>1, <4>2
      <4>4. Slack(reader[r])' = Slack(reader[r]) /\ Slack(reader[r]) \in Nat
        BY <1>1, <4>1, PastFacts DEF Slack, Past
      <4>5. Later(reader'[r].val) <= Slack(reader[r]) + reader'[r].elapsed
        BY <4>1, <4>2, <4>3, <4>4
      <4>6. QED
        BY <1>1, <1>5, <4>1, <4>2, <4>4, <4>5 DEF FreshReader
    <3>4. QED
      BY <3>2, <3>3
  <2>2. QED
    BY <2>1, Types DEF Tick
<1>8. /\ writer' \in [Writers -> WriterTypes]
      /\ \A w \in Writers : FreshWriter(writer[w])'
  <2>1. ASSUME NEW w \in Writers
        PROVE  writer'[w] \in WriterTypes /\ FreshWriter(writer[w])'
    <3>1. /\ writer'[w] = Longer(writer[w]) /\ writer[w] \in WriterTypes
          /\ FreshWriter(writer[w]) /\ writer[w].elapsed \in 0..Delay
          /\ writer[w].val \in Versions
          /\ writer[w].pc \in Holding => writer[w].elapsed # Delay
      BY Types DEF Tick, Fresh, WriterTypes, Due
    <3>2. CASE writer[w].pc \notin Holding
      BY <3>1, <3>2 DEF Longer, FreshWriter, Holding
    <3>3. CASE writer[w].pc \in Holding
      <4>1. /\ writer'[w] \in WriterTypes /\ writer'[w].pc = writer[w].pc
            /\ writer'[w].val = writer[w].val
            /\ writer'[w].elapsed = writer[w].elapsed + 1
        BY <3>1, <3>3, Numbers DEF Longer, WriterTypes
      <4>2. CASE writer[w].pc = "committed"
        <5>1. /\ writer[w].val <= row /\ writer[w].elapsed \in Nat
              /\ Lag(writer[w].val) <= writer[w].elapsed
          BY <3>1, <4>2, Numbers DEF FreshWriter
        <5>2. /\ Later(writer[w].val) \in Nat /\ Lag(writer[w].val) \in Nat
              /\ Later(writer[w].val) <= Lag(writer[w].val) + 1
          BY <1>4, <3>1, <5>1
        <5>3. Later(writer'[w].val) <= writer'[w].elapsed
          BY <4>1, <5>1, <5>2
        <5>4. QED
          BY <1>1, <1>5, <4>1, <5>1, <5>3 DEF FreshWriter
      <4>3. CASE writer[w].pc # "committed"
        BY <4>1, <4>3 DEF FreshWriter
      <4>4. QED
        BY <4>2, <4>3
    <3>4. QED
      BY <3>2, <3>3
  <2>2. QED
    BY <2>1, Types DEF Tick
<1>9. \A v \in Versions : v >= row' => age'[v] = 0
  BY <1>1, Numbers
<1>10. TypeOK'
  BY <1>1, <1>3, <1>6, <1>7, <1>8, Types DEF TypeOK, Entries, ReaderTypes, WriterTypes
<1>11. AbsStep
  BY <1>1 DEF AbsStep, Abstract!Next, Abstract!Tick, Abstract!Versions, Abstract!Older,
     Versions, Older, Bound
<1>12. QED
  BY <1>1, <1>6, <1>7, <1>8, <1>9, <1>10, <1>11 DEF Good, Fresh

-----------------------------------------------------------------------------
LEMMA InitGood == Init => TypeOK /\ Fresh /\ Abstract!Init
<1> SUFFICES ASSUME Init PROVE TypeOK /\ Fresh /\ Abstract!Init
  OBVIOUS
<1>1. TypeOK
  BY Numbers DEF Init, TypeOK, Entries, ReaderTypes, WriterTypes
<1>2. Fresh
  BY DEF Init, Fresh, FreshEntry, FreshReader, FreshWriter, Gone, Rest, Off, Holding
<1>3. Abstract!Init
  <2>1. Bound \in Nat
    BY <1>1, <1>2, PastFacts
  <2>2. QED
    BY <2>1 DEF Init, Abstract!Init, Abstract!Versions, Versions
<1>4. QED
  BY <1>1, <1>2, <1>3

LEMMA StepGood == TypeOK /\ Fresh /\ [Next]_vars => Good
<1> SUFFICES ASSUME TypeOK, Fresh, [Next]_vars PROVE Good
  OBVIOUS
<1>1. ASSUME NEW w \in Writers, Write(w) PROVE Good
  BY <1>1, ClearGood, CommitGood, StoreGood DEF Write
<1>2. CASE UNCHANGED vars
  BY <1>2, Types, Quiet DEF vars, Fresh
<1>3. CASE Next
  BY <1>1, <1>3, ReadGood, ArriveGood, FailGood, EvictGood, TickGood DEF Next
<1>4. QED
  BY <1>2, <1>3

\* Every reachable state is one the variables' descriptions allow.
THEOREM TypeCorrect == Spec => []TypeOK
<1>1. TypeOK /\ Fresh /\ [Next]_vars => (TypeOK /\ Fresh)'
  BY StepGood DEF Good
<1>2. QED
  BY <1>1, InitGood, PTL DEF Spec

\* Every cached service implements the abstract cache: what a reader is given
\* is in no part staler than a key's life and the slowest handler allow, twice
\* that for a tenant, once more for a reputation with every warm-up, whatever
\* dies, races, fails or is evicted (tenants.service.ts:96,
\* rate-limiting.service.ts:222, admin.service.ts:699,
\* ip-reputation.service.ts:655).
THEOREM Implements == Spec => ImplementsCachedRow
<1>1. TypeOK /\ Fresh /\ [Next]_vars
        => (TypeOK /\ Fresh)' /\ [Abstract!Next]_(Abstract!vars)
  BY StepGood DEF Good, AbsStep
<1>2. QED
  BY <1>1, InitGood, PTL DEF Spec, ImplementsCachedRow, Abstract!Spec

-----------------------------------------------------------------------------
\* What a writer leaves behind.

\* A handler as it was, or further on, with nothing new to store or to answer for.
Kept(w) ==
  \/ ~BusyW(w)'
  \/ /\ BusyW(w) /\ writer'[w].val = writer[w].val
     /\ writer'[w].exposed = writer[w].exposed
     /\ writer'[w].metWriter = writer[w].metWriter
     /\ \/ writer'[w].pc = writer[w].pc
        \/ writer'[w].pc \notin {"deleted", "cleared", "committed"}

\* A step that starts nobody, stores nothing and does not commit.
LEMMA NothingNew ==
  ASSUME TypeOK, SettleInv, svc' = svc, row' = row,
         \A k \in Keys : Live(k)' => Live(k),
         \A r \in Readers : BusyR(r)' => BusyR(r),
         \A w \in Writers : Kept(w)
  PROVE  SettleInv'
<1>1. svc' # "tenant" => ~Live("deep")'
  BY DEF SettleInv, Keys
<1>2. ASSUME NEW w \in Writers, NEW x \in Writers, BusyW(w)', BusyW(x)', w # x
      PROVE  writer'[w].metWriter
  BY <1>2 DEF SettleInv, Kept
<1>3. ASSUME NEW w \in Writers, NEW r \in Readers, BusyW(w)', BusyR(r)'
      PROVE  writer'[w].exposed
  BY <1>3 DEF SettleInv, Kept
<1>4. ASSUME NEW w \in Writers, writer'[w].pc = "committed", ~writer'[w].metWriter
      PROVE  writer'[w].val = row'
  BY <1>4 DEF SettleInv, Kept, BusyW
<1>5. ASSUME NEW w \in Writers, svc' \in Inside, ~writer'[w].exposed
      PROVE  /\ writer'[w].pc \in {"deleted", "cleared"} => ~Live("front")'
             /\ writer'[w].pc = "cleared" => ~Live("deep")'
  BY <1>5 DEF SettleInv, Kept, BusyW, Keys
<1>6. QED
  BY <1>1, <1>2, <1>3, <1>4, <1>5 DEF SettleInv

\* A reader that goes into flight is met by every writer that is there.
LEMMA ReaderStarts ==
  ASSUME TypeOK, SettleInv, svc' = svc, row' = row, cache' = cache, MeetReader
  PROVE  SettleInv'
<1>1. ASSUME NEW w \in Writers
      PROVE  /\ writer'[w].pc = writer[w].pc /\ writer'[w].val = writer[w].val
             /\ writer'[w].metWriter = writer[w].metWriter
             /\ BusyW(w) => writer'[w].exposed
             /\ writer[w].exposed => writer'[w].exposed
  BY Types DEF MeetReader, WriterTypes
<1>2. \A w \in Writers : BusyW(w)' <=> BusyW(w)
  BY <1>1 DEF BusyW
<1>3. \A k : Live(k)' <=> Live(k)
  BY DEF Live
<1>4. svc' # "tenant" => ~Live("deep")'
  BY <1>3 DEF SettleInv
<1>5. \A w, x \in Writers : BusyW(w)' /\ BusyW(x)' /\ w # x => writer'[w].metWriter
  BY <1>1, <1>2 DEF SettleInv
<1>6. \A w \in Writers, r \in Readers : BusyW(w)' /\ BusyR(r)' => writer'[w].exposed
  BY <1>1, <1>2
<1>7. \A w \in Writers :
       /\ writer'[w].pc = "committed" /\ ~writer'[w].metWriter
            => writer'[w].val = row'
       /\ svc' \in Inside /\ ~writer'[w].exposed =>
            /\ writer'[w].pc \in {"deleted", "cleared"} => ~Live("front")'
            /\ writer'[w].pc = "cleared" => ~Live("deep")'
  BY <1>1, <1>3 DEF SettleInv
<1>8. QED
  BY <1>4, <1>5, <1>6, <1>7 DEF SettleInv

\* A reader that fills a key was met by every writer there is.
LEMMA ReaderFills ==
  ASSUME TypeOK, SettleInv, svc' = svc, row' = row, writer' = writer,
         NEW r \in Readers, BusyR(r), \A q \in Readers : BusyR(q)' => BusyR(q),
         NEW k \in Keys, NEW v \in Versions, Fill(k, v), k = "front" \/ svc = "tenant"
  PROVE  SettleInv'
<1>0. CASE cache' = cache
  BY <1>0, NothingNew DEF Live, Kept, BusyW
<1> DEFINE e == [val |-> v, ttl |-> Life]
<1> SUFFICES ASSUME cache' = [cache EXCEPT ![k] = e] PROVE SettleInv'
  BY <1>0 DEF Fill, Stored
<1>1. svc' # "tenant" => ~Live("deep")'
  BY Types DEF SettleInv, Live, Keys
<1>2. \A w \in Writers : BusyW(w)' <=> BusyW(w)
  BY DEF BusyW
<1>3. \A w \in Writers : BusyW(w) => writer[w].exposed
  BY DEF SettleInv
<1>4. \A w \in Writers :
        ~writer[w].exposed => writer[w].pc \notin {"deleted", "cleared"}
  BY <1>3 DEF BusyW
<1>5. /\ \A w, x \in Writers : BusyW(w)' /\ BusyW(x)' /\ w # x => writer'[w].metWriter
      /\ \A w \in Writers, q \in Readers :
           BusyW(w)' /\ BusyR(q)' => writer'[w].exposed
      /\ \A w \in Writers : writer'[w].pc = "committed" /\ ~writer'[w].metWriter
                              => writer'[w].val = row'
  BY <1>2, <1>3 DEF SettleInv
<1>6. \A w \in Writers : svc' \in Inside /\ ~writer'[w].exposed =>
        /\ writer'[w].pc \in {"deleted", "cleared"} => ~Live("front")'
        /\ writer'[w].pc = "cleared" => ~Live("deep")'
  BY <1>4
<1>7. QED
  BY <1>1, <1>5, <1>6 DEF SettleInv

LEMMA ReadSettles ==
  ASSUME TypeOK, SettleInv, NEW r \in Readers, Read(r)
  PROVE  SettleInv'
<1>1. ASSUME NEW pc \in ReadPcs, NEW v \in Versions, Hand(r, pc, v), BusyR(r),
             writer' = writer, cache' = cache, svc' = svc, row' = row
      PROVE  SettleInv'
  <2>1. \A q \in Readers : BusyR(q)' => BusyR(q)
    BY <1>1, HandType DEF BusyR
  <2>2. \A w \in Writers : Kept(w)
    BY <1>1 DEF Kept, BusyW
  <2>3. QED
    BY <1>1, <2>1, <2>2, NothingNew DEF Live
<1>2. ASSUME NEW from, NEW k \in Keys, from # "idle", FillAnd(r, from, k),
             k = "front" \/ svc = "tenant"
      PROVE  SettleInv'
  <2>1. /\ reader[r].val \in Versions /\ Fill(k, reader[r].val)
        /\ BusyR(r) /\ UNCHANGED <<svc, row, writer>>
    BY <1>2, Types DEF FillAnd, BusyR, ReaderTypes
  <2>2. \A q \in Readers : BusyR(q)' => BusyR(q)
    BY <1>2, Types DEF FillAnd, Answer, BusyR, Rest
  <2>3. QED
    BY <1>2, <2>1, <2>2, ReaderFills
<1>3. ASSUME NEW next, Look(r, next) PROVE SettleInv'
  <2>1. CASE UNCHANGED <<reader, writer>>
    <3>1. UNCHANGED <<svc, row, cache, reader, writer>>
      BY <1>3, <2>1 DEF Look
    <3>2. QED
      BY <3>1, NothingNew DEF Live, BusyR, Kept, BusyW
  <2>2. CASE MeetReader
    BY <1>3, <2>2, ReaderStarts DEF Look
  <2>3. QED
    BY <1>3, <2>1, <2>2 DEF Look
<1>4. ASSUME NEW from, NEW next \in ReadPcs, from # "idle", Query(r, from, next)
      PROVE  SettleInv'
  BY <1>1, <1>4, Types DEF Query, BusyR
<1>5. CASE WarmupCache(r) \/ UpdateReputation(r) \/ FindOneRefresh(r)
  BY <1>5, ReaderStarts DEF WarmupCache, UpdateReputation, QueryAnyway, FindOneRefresh
<1>6. CASE FindOneDeep(r)
  <2>1. cache["deep"].val \in Versions /\ 0 \in Versions
    BY Types, Numbers DEF Entries, Keys
  <2>2. QED
    BY <1>1, <1>6, <2>1 DEF FindOneDeep, BusyR, ReadPcs
<1>7. CASE FindOneFillDeep(r)
  <2>1. reader[r].val \in Versions
    BY Types DEF ReaderTypes
  <2>2. /\ Hand(r, "fill", reader[r].val) /\ BusyR(r) /\ svc = "tenant"
        /\ Fill("deep", reader[r].val) /\ UNCHANGED <<svc, row, writer>>
    BY <1>7 DEF FindOneFillDeep, BusyR
  <2>3. \A q \in Readers : BusyR(q)' => BusyR(q)
    BY <2>1, <2>2, HandType DEF BusyR, ReadPcs
  <2>4. QED
    BY <2>1, <2>2, <2>3, ReaderFills DEF Keys
<1>8. CASE QueryMore(r)
  <2>1. reader[r].val \in Versions
    BY Types DEF ReaderTypes
  <2>2. QED
    BY <1>1, <1>8, <2>1 DEF QueryMore, BusyR, ReadPcs
<1>9. CASE WarmupRead(r)
  <2>1. CASE MeetReader /\ cache' = cache
    BY <1>9, <2>1, ReaderStarts DEF WarmupRead
  <2>2. CASE /\ reader[r].pc = "fill" /\ Fill("front", reader[r].val)
             /\ Hand(r, "restore", reader[r].val) /\ writer' = writer
    <3>1. reader[r].val \in Versions /\ BusyR(r) /\ UNCHANGED <<svc, row>>
      BY <1>9, <2>2, Types DEF WarmupRead, BusyR, ReaderTypes
    <3>2. \A q \in Readers : BusyR(q)' => BusyR(q)
      BY <2>2, <3>1, HandType DEF BusyR, ReadPcs
    <3>3. QED
      BY <2>2, <3>1, <3>2, ReaderFills DEF Keys
  <2>3. QED
    BY <1>9, <2>1, <2>2 DEF WarmupRead
<1>10. CASE ReadThrough(r)
  BY <1>2, <1>3, <1>4, <1>8, <1>10 DEF ReadThrough, Keys, ReadPcs
<1>11. CASE FindOne(r)
  BY <1>2, <1>3, <1>4, <1>5, <1>6, <1>7, <1>11
  DEF FindOne, FindOneLook, FindOneQuery, FindOneStats, FindOneFill, Keys, ReadPcs
<1>12. CASE WarmupStore(r)
  BY <1>2, <1>12 DEF WarmupStore, Keys
<1>13. QED
  BY <1>5, <1>9, <1>10, <1>11, <1>12 DEF Read, FindAll, GetTenantStats, FindAllUsers,
     GetUserRoleDetails, GetProfile, GetReputation

\* A writer that starts meets every handler that is there.
LEMMA ArriveSettles ==
  ASSUME TypeOK, SettleInv, NEW w \in Writers, Arrive(w)
  PROVE  SettleInv'
<1>1. PICK op \in Ops : Start(w, op, "found")
  BY DEF Arrive, Create, Update, Remove, Activate, Begin, Ops
<1> DEFINE new == [Off EXCEPT !.pc = "found", !.op = op,
                     !.exposed = \E r \in Readers : BusyR(r),
                     !.metWriter = \E y \in Writers : BusyW(y)]
<1>2. /\ ~BusyW(w) /\ UNCHANGED <<svc, row, cache, reader>>
      /\ writer' = [x \in Writers |->
           IF x = w THEN new
           ELSE IF BusyW(x) THEN [writer[x] EXCEPT !.metWriter = TRUE] ELSE writer[x]]
  <2>1. UNCHANGED <<svc, row, cache, reader>>
    BY <1>1, Zenon DEF Start
  <2>2. ~BusyW(w)
    BY <1>1 DEF Start, BusyW
  <2>3. writer' = [x \in Writers |->
           IF x = w THEN new
           ELSE IF BusyW(x) THEN [writer[x] EXCEPT !.metWriter = TRUE] ELSE writer[x]]
    BY <1>1, Zenon DEF Start
  <2>4. QED
    BY <2>1, <2>2, <2>3
<1>3. /\ new.pc = "found" /\ (new.exposed <=> \E r \in Readers : BusyR(r))
      /\ new.metWriter <=> \E y \in Writers : BusyW(y)
  BY DEF Off
<1> HIDE DEF new
<1>4. writer'[w] = new
  BY <1>2
<1>5. ASSUME NEW x \in Writers, x # w
      PROVE  /\ writer'[x].pc = writer[x].pc /\ writer'[x].val = writer[x].val
             /\ writer'[x].exposed = writer[x].exposed
             /\ BusyW(x) => writer'[x].metWriter
             /\ ~writer'[x].metWriter => ~writer[x].metWriter
  BY <1>2, <1>5, Types DEF WriterTypes
<1>6. /\ \A x \in Writers \ {w} : BusyW(x)' <=> BusyW(x)
      /\ \A r \in Readers : BusyR(r)' <=> BusyR(r)
      /\ \A k : Live(k)' <=> Live(k)
  BY <1>2, <1>5 DEF BusyW, BusyR, Live
<1>7. svc' # "tenant" => ~Live("deep")'
  BY <1>2, <1>6 DEF SettleInv
<1>8. ASSUME NEW y \in Writers, NEW x \in Writers, BusyW(y)', BusyW(x)', y # x
      PROVE  writer'[y].metWriter
  <2>1. CASE y = w
    BY <1>3, <1>4, <1>6, <1>8, <2>1
  <2>2. CASE y # w
    BY <1>5, <1>6, <1>8, <2>2
  <2>3. QED
    BY <2>1, <2>2
<1>9. ASSUME NEW y \in Writers, NEW r \in Readers, BusyW(y)', BusyR(r)'
      PROVE  writer'[y].exposed
  <2>1. CASE y = w
    BY <1>3, <1>4, <1>6, <1>9, <2>1
  <2>2. CASE y # w
    BY <1>5, <1>6, <1>9, <2>2 DEF SettleInv
  <2>3. QED
    BY <2>1, <2>2
<1>10. ASSUME NEW y \in Writers
       PROVE  /\ writer'[y].pc = "committed" /\ ~writer'[y].metWriter
                   => writer'[y].val = row'
              /\ svc' \in Inside /\ ~writer'[y].exposed =>
                   /\ writer'[y].pc \in {"deleted", "cleared"} => ~Live("front")'
                   /\ writer'[y].pc = "cleared" => ~Live("deep")'
  <2>1. CASE y = w
    BY <1>3, <1>4, <2>1
  <2>2. CASE y # w
    BY <1>2, <1>5, <1>6, <2>2 DEF SettleInv
  <2>3. QED
    BY <2>1, <2>2
<1>11. QED
  BY <1>7, <1>8, <1>9, <1>10 DEF SettleInv

\* A writer that ends leaves the others as they were.
LEMMA WriterEnds ==
  ASSUME TypeOK, SettleInv, NEW w \in Writers, svc' = svc, reader' = reader,
         writer' = [writer EXCEPT ![w] = Off]
  PROVE  /\ \A x \in Writers : Kept(x)
         /\ \A r \in Readers : BusyR(r)' => BusyR(r)
BY Types DEF Kept, BusyW, BusyR, Off

LEMMA WriteSettles ==
  ASSUME TypeOK, SettleInv, NEW w \in Writers, Write(w)
  PROVE  SettleInv'
<1>1. CASE LockRow(w)
  <2>1. /\ Move(w, "locked") /\ "locked" \in WritePcs /\ BusyW(w)
        /\ UNCHANGED <<svc, row, cache, reader>>
    BY <1>1 DEF LockRow, WritePcs, BusyW
  <2>2. \A x \in Writers : Kept(x)
    BY <2>1, Types DEF Move, Kept, BusyW, WriterTypes
  <2>3. QED
    BY <2>1, <2>2, NothingNew DEF Live, BusyR
<1>2. ASSUME NEW from \in {"locked", "deleted"}, NEW k \in Keys,
             NEW next \in {"deleted", "cleared"}, Delete(w, from, k, next),
             k = (IF next = "deleted" THEN "front" ELSE "deep"),
             from = (IF next = "deleted" THEN "locked" ELSE "deleted")
      PROVE  SettleInv'
  <2>1. /\ \/ cache' = [cache EXCEPT ![k] = Gone] /\ Move(w, next)
           \/ cache' = cache
              /\ writer' = [writer EXCEPT ![w].pc = next, ![w].exposed = TRUE]
        /\ writer[w].pc = from /\ UNCHANGED <<svc, row, reader>>
    BY <1>2 DEF Delete
  <2>2. /\ \A j \in Keys : Live(j)' => Live(j)
        /\ ~writer'[w].exposed => ~Live(k)'
    <3>1. CASE cache' = [cache EXCEPT ![k] = Gone]
      BY <3>1, Types DEF Live, Gone
    <3>2. CASE /\ cache' = cache
               /\ writer' = [writer EXCEPT ![w].pc = next, ![w].exposed = TRUE]
      BY <3>2, Types DEF Live, WriterTypes
    <3>3. QED
      BY <2>1, <3>1, <3>2
  <2>3. ASSUME NEW x \in Writers
        PROVE  /\ writer'[x].val = writer[x].val
               /\ ~writer'[x].exposed => ~writer[x].exposed
               /\ writer[x].exposed => writer'[x].exposed
               /\ writer'[x].metWriter = writer[x].metWriter
               /\ BusyW(x)' <=> BusyW(x)
               /\ x = w => writer'[x].pc = next
               /\ x # w => writer'[x].pc = writer[x].pc
    <3>1. CASE Move(w, next)
      BY <1>2, <2>1, <3>1, Types DEF Move, BusyW, WriterTypes
    <3>2. CASE writer' = [writer EXCEPT ![w].pc = next, ![w].exposed = TRUE]
      BY <1>2, <2>1, <3>2, Types DEF BusyW, WriterTypes
    <3>3. QED
      BY <2>1, <3>1, <3>2
  <2>4. \A r \in Readers : BusyR(r)' <=> BusyR(r)
    BY <2>1 DEF BusyR
  <2>5. svc' # "tenant" => ~Live("deep")'
    BY <2>1, <2>2 DEF SettleInv, Keys
  <2>6. /\ \A y, x \in Writers : BusyW(y)' /\ BusyW(x)' /\ y # x => writer'[y].metWriter
        /\ \A y \in Writers, r \in Readers :
             BusyW(y)' /\ BusyR(r)' => writer'[y].exposed
    BY <2>3, <2>4 DEF SettleInv
  <2>7. ASSUME NEW x \in Writers
        PROVE  /\ writer'[x].pc = "committed" /\ ~writer'[x].metWriter
                    => writer'[x].val = row'
               /\ svc' \in Inside /\ ~writer'[x].exposed =>
                    /\ writer'[x].pc \in {"deleted", "cleared"} => ~Live("front")'
                    /\ writer'[x].pc = "cleared" => ~Live("deep")'
    <3>1. CASE x # w
      BY <2>1, <2>2, <2>3, <3>1 DEF SettleInv, Keys
    <3>2. CASE x = w
      BY <1>2, <2>1, <2>2, <2>3, <3>2 DEF SettleInv, Keys
    <3>3. QED
      BY <3>1, <3>2
  <2>8. QED
    BY <2>5, <2>6, <2>7 DEF SettleInv
<1>3. CASE DeleteBasic(w) \/ DeleteWithData(w)
  BY <1>2, <1>3 DEF DeleteBasic, DeleteWithData, Keys
<1>4. CASE CommitTenant(w)
  <2>1. /\ svc \in Inside /\ svc' = svc /\ cache' = cache /\ reader' = reader
        /\ writer[w].pc = "cleared" /\ writer' = [writer EXCEPT ![w] = Off]
    BY <1>4 DEF CommitTenant, Commit
  <2>2. /\ \A x \in Writers : Kept(x)
        /\ \A r \in Readers : BusyR(r)' => BusyR(r)
        /\ \A k \in Keys : Live(k)' <=> Live(k)
    BY <2>1, WriterEnds DEF Live
  <2>3. \A x \in Writers : writer'[x].pc = "committed" => writer'[x].metWriter
    <3>1. ASSUME NEW x \in Writers, writer'[x].pc = "committed", ~writer'[x].metWriter
          PROVE  FALSE
      <4>1. x # w /\ writer'[x] = writer[x]
        BY <2>1, <3>1, Types DEF Off
      <4>2. BusyW(x) /\ BusyW(w)
        BY <2>1, <3>1, <4>1 DEF BusyW
      <4>3. QED
        BY <3>1, <4>1, <4>2 DEF SettleInv
    <3>2. QED
      BY <3>1
  <2>4. svc' # "tenant" => ~Live("deep")'
    BY <2>1, <2>2 DEF SettleInv, Keys
  <2>5. /\ \A y, x \in Writers : BusyW(y)' /\ BusyW(x)' /\ y # x => writer'[y].metWriter
        /\ \A y \in Writers, r \in Readers :
             BusyW(y)' /\ BusyR(r)' => writer'[y].exposed
    BY <2>2 DEF SettleInv, Kept
  <2>6. \A x \in Writers : svc' \in Inside /\ ~writer'[x].exposed =>
          /\ writer'[x].pc \in {"deleted", "cleared"} => ~Live("front")'
          /\ writer'[x].pc = "cleared" => ~Live("deep")'
    BY <2>1, <2>2 DEF SettleInv, Kept, BusyW, Keys
  <2>7. QED
    BY <2>3, <2>4, <2>5, <2>6 DEF SettleInv
<1>5. CASE CommitRow(w)
  <2>1. /\ svc \notin Inside /\ svc' = svc /\ cache' = cache /\ reader' = reader
        /\ writer[w].pc = "found" /\ row' = row + 1
        /\ \/ writer' = [writer EXCEPT ![w] = Off]
           \/ writer' = [writer EXCEPT ![w] =
                           [@ EXCEPT !.pc = "committed", !.val = row + 1]]
    BY <1>5 DEF CommitRow, Commit
  <2>2. ASSUME NEW x \in Writers
        PROVE  /\ BusyW(x)' => /\ BusyW(x)
                               /\ writer'[x].exposed = writer[x].exposed
                               /\ writer'[x].metWriter = writer[x].metWriter
               /\ x # w => writer'[x] = writer[x]
               /\ writer'[w].pc = "committed" => writer'[w].val = row'
    <3>1. /\ writer[w] \in WriterTypes /\ writer \in [Writers -> WriterTypes]
          /\ BusyW(w)
      BY <2>1, Types DEF BusyW
    <3>2. CASE writer' = [writer EXCEPT ![w] = Off]
      BY <2>1, <3>1, <3>2 DEF BusyW, Off
    <3>3. CASE writer' = [writer EXCEPT ![w] =
                            [@ EXCEPT !.pc = "committed", !.val = row + 1]]
      <4>1. \A y \in Writers : writer'[y] =
              IF y = w THEN [writer[w] EXCEPT !.pc = "committed", !.val = row + 1]
              ELSE writer[y]
        BY <3>1, <3>3
      <4>2. /\ writer'[w].val = row + 1
            /\ writer'[w].exposed = writer[w].exposed
            /\ writer'[w].metWriter = writer[w].metWriter
        BY <3>1, <4>1 DEF WriterTypes
      <4>3. QED
        BY <2>1, <3>1, <4>1, <4>2 DEF BusyW
    <3>4. QED
      BY <2>1, <3>2, <3>3
  <2>3. \A r \in Readers : BusyR(r)' <=> BusyR(r)
    BY <2>1 DEF BusyR
  <2>4. svc' # "tenant" => ~Live("deep")'
    BY <2>1 DEF SettleInv, Live
  <2>5. /\ \A y, x \in Writers : BusyW(y)' /\ BusyW(x)' /\ y # x => writer'[y].metWriter
        /\ \A y \in Writers, r \in Readers :
             BusyW(y)' /\ BusyR(r)' => writer'[y].exposed
    BY <2>2, <2>3 DEF SettleInv
  <2>6. ASSUME NEW x \in Writers, writer'[x].pc = "committed", ~writer'[x].metWriter
        PROVE  writer'[x].val = row'
    <3>1. CASE x # w
      <4>1. BusyW(x) /\ BusyW(w) /\ ~writer[x].metWriter
        BY <2>1, <2>2, <2>6, <3>1 DEF BusyW
      <4>2. QED
        BY <3>1, <4>1 DEF SettleInv
    <3>2. CASE x = w
      BY <2>2, <2>6, <3>2
    <3>3. QED
      BY <3>1, <3>2
  <2>7. QED
    BY <2>1, <2>4, <2>5, <2>6 DEF SettleInv
<1>6. CASE InvalidateUserCache(w) \/ ClearCachedReputation(w) \/ StoreProfile(w)
  <2>1. PICK entry : Finish(w, entry)
    BY <1>6 DEF InvalidateUserCache, ClearCachedReputation, StoreProfile
  <2>2. /\ svc \notin Inside /\ svc # "tenant"
    BY <1>6 DEF InvalidateUserCache, ClearCachedReputation, StoreProfile, Inside
  <2>3. /\ UNCHANGED <<svc, row, reader>> /\ writer' = [writer EXCEPT ![w] = Off]
        /\ cache' = [cache EXCEPT !["front"] = entry]
    BY <2>1 DEF Finish
  <2>4. /\ \A x \in Writers : Kept(x)
        /\ \A r \in Readers : BusyR(r)' => BusyR(r)
    BY <2>3, WriterEnds
  <2>5. ~Live("deep")'
    BY <2>2, <2>3, Types DEF SettleInv, Live, Keys
  <2>6. /\ \A y, x \in Writers : BusyW(y)' /\ BusyW(x)' /\ y # x => writer'[y].metWriter
        /\ \A y \in Writers, r \in Readers :
             BusyW(y)' /\ BusyR(r)' => writer'[y].exposed
    BY <2>4 DEF SettleInv, Kept
  <2>7. \A x \in Writers : writer'[x].pc = "committed" /\ ~writer'[x].metWriter
                             => writer'[x].val = row'
    BY <2>3, <2>4 DEF SettleInv, Kept, BusyW
  <2>8. QED
    BY <2>2, <2>3, <2>5, <2>6, <2>7 DEF SettleInv
<1>7. QED
  BY <1>1, <1>3, <1>4, <1>5, <1>6 DEF Write

LEMMA OtherSettles ==
  ASSUME TypeOK, SettleInv,
         \/ \E p \in Readers \cup Writers : Fail(p)
         \/ \E k \in Keys : Evict(k)
         \/ Tick
         \/ UNCHANGED vars
  PROVE  SettleInv'
<1>1. ASSUME NEW p \in Readers \cup Writers, Fail(p) PROVE SettleInv'
  <2>1. CASE p \in Readers /\ reader' = [reader EXCEPT ![p] = Rest] /\ writer' = writer
    <3>1. \A q \in Readers : BusyR(q)' => BusyR(q)
      BY <2>1, Types DEF BusyR, Rest
    <3>2. \A x \in Writers : Kept(x)
      BY <2>1 DEF Kept, BusyW
    <3>3. QED
      BY <1>1, <3>1, <3>2, NothingNew DEF Fail, Live
  <2>2. CASE p \in Writers /\ writer' = [writer EXCEPT ![p] = Off] /\ reader' = reader
    <3>1. svc' = svc /\ row' = row /\ cache' = cache
      BY <1>1 DEF Fail
    <3>2. QED
      BY <2>2, <3>1, WriterEnds, NothingNew DEF Live
  <2>3. QED
    BY <1>1, <2>1, <2>2 DEF Fail
<1>2. ASSUME NEW k \in Keys, Evict(k) PROVE SettleInv'
  <2>1. \A j \in Keys : Live(j)' => Live(j)
    BY <1>2, Types DEF Evict, Live, Gone
  <2>2. QED
    BY <1>2, <2>1, NothingNew DEF Evict, BusyR, Kept, BusyW
<1>3. CASE Tick
  <2>1. \A k \in Keys : Live(k)' => Live(k)
    <3>1. ASSUME NEW k \in Keys PROVE Live(k)' => Live(k)
      <4>1. cache'[k] = Shorter(cache[k]) /\ cache[k] \in Entries
        BY <1>3, Types DEF Tick
      <4>2. QED
        BY <4>1, Numbers DEF Shorter, Live, Gone, Entries
    <3>2. QED
      BY <3>1
  <2>2. \A r \in Readers : BusyR(r)' => BusyR(r)
    BY <1>3, Types DEF Tick, Longer, BusyR, ReaderTypes
  <2>3. ASSUME NEW w \in Writers PROVE Kept(w)
    <3>1. writer'[w] = Longer(writer[w]) /\ writer[w] \in WriterTypes
      BY <1>3, Types DEF Tick
    <3>2. /\ writer'[w].pc = writer[w].pc /\ writer'[w].val = writer[w].val
          /\ writer'[w].exposed = writer[w].exposed
          /\ writer'[w].metWriter = writer[w].metWriter
      BY <3>1 DEF Longer, WriterTypes
    <3>3. QED
      BY <3>2 DEF Kept, BusyW
  <2>4. QED
    BY <1>3, <2>1, <2>2, <2>3, NothingNew DEF Tick
<1>4. CASE UNCHANGED vars
  BY <1>4, NothingNew DEF vars, Live, BusyR, Kept, BusyW
<1>5. QED
  BY <1>1, <1>2, <1>3, <1>4

\* A writer that completes unmet leaves every key current or gone: for the
\* services that delete or store after the commit (admin.service.ts:612,
\* ip-reputation.service.ts:361, rate-limiting.service.ts:290) and for tenants,
\* whose keys are deleted before it (tenants.service.ts:478).
LEMMA CompletionSettles ==
  ASSUME TypeOK, SettleInv, NEW w \in Writers, LastStep(w), Alone(w),
         svc \in Inside => ~writer[w].exposed
  PROVE  Current'
<1>1. CASE CommitTenant(w)
  <2>1. svc \in Inside /\ writer[w].pc = "cleared" /\ cache' = cache
    BY <1>1 DEF CommitTenant, Commit
  <2>2. ~Live("front") /\ ~Live("deep")
    BY <2>1 DEF SettleInv
  <2>3. QED
    BY <2>1, <2>2 DEF Current, Live, Keys
<1>2. ASSUME NEW entry, Finish(w, entry), svc # "tenant",
             entry.ttl > 0 => entry.val = row
      PROVE  Current'
  <2>1. cache' = [cache EXCEPT !["front"] = entry] /\ row' = row
    BY <1>2 DEF Finish
  <2>2. ~Live("deep")
    BY <1>2 DEF SettleInv
  <2>3. cache'["front"] = entry /\ cache'["deep"] = cache["deep"]
    BY <2>1, Types DEF Keys
  <2>4. QED
    BY <1>2, <2>1, <2>2, <2>3 DEF Current, Live, Keys
<1>3. CASE InvalidateUserCache(w) \/ ClearCachedReputation(w)
  <2>1. Finish(w, Gone) /\ svc # "tenant"
    BY <1>3 DEF InvalidateUserCache, ClearCachedReputation
  <2>2. QED
    BY <1>2, <2>1 DEF Gone
<1>4. CASE StoreProfile(w)
  <2>1. /\ Finish(w, [val |-> writer[w].val, ttl |-> Life]) /\ svc # "tenant"
        /\ writer[w].pc = "committed" /\ ~writer[w].metWriter
    BY <1>4 DEF StoreProfile, Finish, Alone
  <2>2. writer[w].val = row
    BY <2>1 DEF SettleInv
  <2>3. QED
    BY <1>2, <2>1, <2>2
<1>5. QED
  BY <1>1, <1>3, <1>4 DEF LastStep

\* The writers' promise, in every behaviour.
THEOREM Settles == Spec => WriterSettles
<1>1. Init => TypeOK /\ Fresh /\ SettleInv
  <2> SUFFICES ASSUME Init PROVE SettleInv
    BY InitGood
  <2>1. QED
    BY DEF Init, SettleInv, Live, Gone, BusyW, Off, Keys
<1>2. TypeOK /\ Fresh /\ SettleInv /\ [Next]_vars => (TypeOK /\ Fresh /\ SettleInv)'
  <2> SUFFICES ASSUME TypeOK, Fresh, SettleInv, [Next]_vars
               PROVE  TypeOK' /\ Fresh' /\ SettleInv'
    OBVIOUS
  <2>1. TypeOK' /\ Fresh'
    BY StepGood DEF Good
  <2>2. SettleInv'
    BY ReadSettles, ArriveSettles, WriteSettles, OtherSettles DEF Next
  <2>3. QED
    BY <2>1, <2>2
<1>3. TypeOK /\ SettleInv
        => [\A w \in Writers :
              LastStep(w) /\ Alone(w) /\ (svc \in Inside => ~writer[w].exposed)
                => Current']_vars
  BY CompletionSettles
<1>4. QED
  BY <1>1, <1>2, <1>3, PTL DEF Spec, WriterSettles
==============================================================================
