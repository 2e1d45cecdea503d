------------------------- MODULE RateLimitingProofs -------------------------
(***************************************************************************)
(* What holds of the limiter for every window, delay, limit and number of  *)
(* checks.                                                                 *)
(*                                                                         *)
(*   TypeCorrect   the keys keep their types, however many checks overlap, *)
(*                 die or straddle the expiry of a key: in particular the  *)
(*                 bucket never holds more tokens than the limit and never *)
(*                 less than none, although a check writes what it         *)
(*                 computed from values read several commands before       *)
(*   CountKeeps    what overlapping checks slip past the count             *)
(*   SerialKeeps   what checks one after the other are allowed in a window *)
(*   DeniedSpent   why a check that met no other may be denied             *)
(***************************************************************************)
EXTENDS RateLimiting, FiniteSetTheorems, TLAPS

USE LimitAssumption, WindowAssumption, BoundAssumption

-----------------------------------------------------------------------------
(* The inductive invariant, in parts *)

ConfigOK == kind \in Algorithms /\ limit \in Limits /\ now \in 0..MaxTime

Tokens == IF kind = "tokenBucket" THEN 0..limit ELSE Nat

KeysOK ==
  /\ mark \in [value : 0..MaxTime, until : 0..Forever]
  /\ level \in [value : Tokens, until : 0..Forever]
  /\ stamps \in [value : Seq(0..MaxTime), until : 0..Forever]

CountsOK == /\ asked \in SUBSET Requests /\ IsFiniteSet(asked)
            /\ granted \in SUBSET Requests /\ IsFiniteSet(granted)
            /\ orderly \in BOOLEAN

\* What makes TypeOK inductive: the tokens a check is about to leave behind
\* were counted when it read the bucket.
InHand(row) == row.pc \in {"takeRefill", "takeTokens"} => row.val \in 0..(limit - 1)

ChecksOK ==
  check \in [Checks -> CheckRow] /\ \A c \in Checks : InHand(check[c])

IInv == ConfigOK /\ KeysOK /\ CountsOK /\ ChecksOK /\ passed \in Nat

LEMMA Invariant_TypeOK == IInv => TypeOK
  BY DEF IInv, TypeOK, ConfigOK, KeysOK, CountsOK, ChecksOK, Tokens

-----------------------------------------------------------------------------
(* The history of the requests *)

LEMMA DuringFinite ==
  ASSUME NEW S, IsFiniteSet(S), NEW first, NEW last
  PROVE  /\ During(S, first, last) \subseteq S
         /\ IsFiniteSet(During(S, first, last))
         /\ Cardinality(During(S, first, last)) \in Nat
  <1>1. During(S, first, last) \subseteq S
    BY DEF During
  <1>2. IsFiniteSet(During(S, first, last))
    BY <1>1, FS_Subset
  <1> QED BY <1>1, <1>2, FS_CardinalityType

\* A history with one request more is a history.
LEMMA NotedType ==
  ASSUME NEW S \in SUBSET Requests, IsFiniteSet(S), NEW t \in 0..MaxTime
  PROVE  Noted(S, t) \in SUBSET Requests /\ IsFiniteSet(Noted(S, t))
  <1> DEFINE r == <<t, 1 + Cardinality(During(S, t, t))>>
  <1>1. r \in Requests
    BY DuringFinite DEF Requests
  <1>2. Noted(S, t) = S \union {r}
    BY DEF Noted
  <1> HIDE DEF r
  <1> QED BY <1>1, <1>2, FS_AddElement

-----------------------------------------------------------------------------
(* What the commands on a key and the moves of a check preserve *)

\* However long ago the bucket was filled, it holds at most the limit.
LEMMA RefilledBound ==
  ASSUME limit \in Nat, NEW tokens \in 0..limit, NEW elapsed \in Int
  PROVE  Refilled(tokens, elapsed) \in Int /\ Refilled(tokens, elapsed) <= limit
  <1> DEFINE more == (elapsed * limit) \div Window
  <1>1. more \in Int
    OBVIOUS
  <1>2. Refilled(tokens, elapsed)
          = IF tokens + more < limit THEN tokens + more ELSE limit
    BY DEF Refilled
  <1> HIDE DEF more
  <1> QED BY <1>1, <1>2

\* A key that is written keeps the type of its value.
LEMMA SetexType ==
  ASSUME now \in 0..MaxTime, NEW S, NEW x \in S
  PROVE  Setex(x) \in [value : S, until : 0..Forever]
  BY DEF Setex, Key, Forever

LEMMA IncrType ==
  ASSUME NEW key \in [value : Nat, until : 0..Forever]
  PROVE  Incr(key) \in [value : Nat, until : 0..Forever]
  BY DEF Incr, Key, Forever

LEMMA LpushType ==
  ASSUME NEW key \in [value : Seq(0..MaxTime), until : 0..Forever],
         NEW x \in 0..MaxTime
  PROVE  Lpush(key, x) \in [value : Seq(0..MaxTime), until : 0..Forever]
  <1>1. <<x>> \o key.value \in Seq(0..MaxTime)
    OBVIOUS
  <1>2. <<x>> \in Seq(0..MaxTime)
    OBVIOUS
  <1>3. CASE Gone(key)
    <2>1. Lpush(key, x) = [value |-> <<x>>, until |-> Forever]
      BY <1>3 DEF Lpush, Key
    <2>2. Forever \in 0..Forever
      BY DEF Forever
    <2> QED BY <1>2, <2>1, <2>2
  <1>4. CASE ~Gone(key)
    <2>1. Lpush(key, x) = [key EXCEPT !.value = <<x>> \o key.value]
      BY <1>4 DEF Lpush
    <2> QED BY <1>1, <2>1
  <1> QED BY <1>3, <1>4

\* Moving one check, without a change of configuration.
LEMMA Move ==
  ASSUME ChecksOK, UNCHANGED <<kind, limit>>, NEW c \in Checks,
         NEW row \in CheckRow, InHand(row), check' = [check EXCEPT ![c] = row]
  PROVE  ChecksOK'
  BY DEF ChecksOK, CheckRow, InHand

LEMMA GotoOK ==
  ASSUME IInv, UNCHANGED <<kind, limit, asked, orderly>>, NEW c \in Checks,
         NEW pc \in Points[kind] \ {"takeRefill", "takeTokens"}, Goto(c, pc)
  PROVE  ChecksOK' /\ CountsOK'
  <1> DEFINE row == [check[c] EXCEPT !.pc = pc]
  <1>1. row \in CheckRow /\ InHand(row)
    BY DEF IInv, ChecksOK, CheckRow, InHand
  <1>2. check' = [check EXCEPT ![c] = row]
    BY DEF Goto
  <1> HIDE DEF row
  <1>3. ChecksOK'
    BY <1>1, <1>2, Move DEF IInv
  <1> QED BY <1>3 DEF Goto, IInv, CountsOK

LEMMA DecideOK ==
  ASSUME IInv, UNCHANGED <<kind, limit, asked, orderly>>, NEW c \in Checks,
         NEW pc \in Points[kind] \ {"takeRefill", "takeTokens"},
         NEW allow \in BOOLEAN, Decide(c, pc, allow)
  PROVE  ChecksOK' /\ CountsOK'
  <1> DEFINE row == [check[c] EXCEPT !.pc = pc, !.allow = allow]
  <1>1. row \in CheckRow /\ InHand(row)
    BY DEF IInv, ChecksOK, CheckRow, InHand
  <1>2. check' = [check EXCEPT ![c] = row]
    BY DEF Decide
  <1> HIDE DEF row
  <1>3. ChecksOK'
    BY <1>1, <1>2, Move DEF IInv
  <1> QED BY <1>3 DEF Decide, IInv, CountsOK

LEMMA HoldOK ==
  ASSUME IInv, UNCHANGED <<kind, limit, asked, orderly>>, NEW c \in Checks,
         NEW pc \in Points[kind], NEW val \in Int, Hold(c, pc, val),
         pc \in {"takeRefill", "takeTokens"} => val \in 0..(limit - 1)
  PROVE  ChecksOK' /\ CountsOK'
  <1> DEFINE row == [check[c] EXCEPT !.pc = pc, !.val = val]
  <1>1. row \in CheckRow /\ InHand(row)
    BY DEF IInv, ChecksOK, CheckRow, InHand
  <1>2. check' = [check EXCEPT ![c] = row]
    BY DEF Hold
  <1> HIDE DEF row
  <1>3. ChecksOK'
    BY <1>1, <1>2, Move DEF IInv
  <1> QED BY <1>3 DEF Hold, IInv, CountsOK

LEMMA IdleOK == Idle \in CheckRow /\ InHand(Idle)
  BY DEF Idle, CheckRow, InHand

LEMMA AnswerOK ==
  ASSUME IInv, UNCHANGED <<kind, limit, asked, orderly>>, NEW c \in Checks,
         NEW allow, Answer(c, allow)
  PROVE  ChecksOK' /\ CountsOK'
  <1>1. ChecksOK'
    BY IdleOK, Move DEF IInv, Answer
  <1>2. check[c].at \in 0..MaxTime
    BY DEF IInv, ChecksOK, CheckRow
  <1> QED BY <1>1, <1>2, NotedType DEF Answer, IInv, CountsOK

-----------------------------------------------------------------------------
LEMMA InitTypes == Init => IInv
  <1> SUFFICES ASSUME Init PROVE IInv
    OBVIOUS
  <1>1. ConfigOK /\ CountsOK /\ passed \in Nat
    BY FS_EmptySet DEF Init, ConfigOK, CountsOK
  <1>2. KeysOK
    BY DEF Init, KeysOK, Key, Forever, Tokens
  <1>3. ChecksOK
    BY IdleOK DEF Init, ChecksOK
  <1> QED BY <1>1, <1>2, <1>3 DEF IInv

\* A check is somewhere on the path of the configured algorithm.
LEMMA OnPath ==
  ASSUME IInv, NEW c \in Checks
  PROVE  /\ check[c] \in CheckRow /\ InHand(check[c])
         /\ kind \in Algorithms /\ now \in 0..MaxTime /\ limit \in Nat \ {0}
         /\ check[c].pc \in Points[kind] \union {"idle"}
  BY DEF IInv, ChecksOK, ConfigOK, CheckRow

\* Only the checks of the configured algorithm take its steps.
LEMMA ByKind ==
  ASSUME IInv, NEW c \in Checks
  PROVE  /\ Fixed(c) => kind = "fixed"
         /\ Sliding(c) => kind = "sliding"
         /\ Bucket(c) => kind = "tokenBucket"
  <1>1. Fixed(c) => check[c].pc \in Points["fixed"]
    BY DEF Fixed, FixedStart, FixedSetStart, FixedSetCount, FixedCount, FixedIncr,
           Points
  <1>2. Sliding(c) => check[c].pc \in Points["sliding"]
    BY DEF Sliding, SlidingRange, SlidingPush, SlidingTrim, SlidingExpire, Points
  <1>3. Bucket(c) => check[c].pc \in Points["tokenBucket"]
    BY DEF Bucket, BucketRefill, BucketTokens, BucketFill, BucketInitRefill,
           BucketInitTokens, BucketTakeRefill, BucketTakeTokens, Points
  <1> QED BY <1>1, <1>2, <1>3, OnPath DEF Points, Algorithms

LEMMA FixedTypes ==
  ASSUME IInv, UNCHANGED <<kind, limit, asked, orderly, now>>, NEW c \in Checks,
         Fixed(c)
  PROVE  KeysOK' /\ CountsOK' /\ ChecksOK'
  <1> USE DEF Points, KeysOK, keys
  <1>b. kind = "fixed"
    BY ByKind
  <1>0. /\ check[c] \in CheckRow /\ kind = "fixed" /\ Tokens = Nat /\ Tokens' = Nat
        /\ now \in 0..MaxTime
    BY <1>b, OnPath DEF Tokens
  <1>1. CASE FixedStart(c)
    BY <1>0, <1>1, GotoOK DEF FixedStart, IInv
  <1>2. CASE FixedSetStart(c)
    <2>1. Setex(check[c].at) \in [value : 0..MaxTime, until : 0..Forever]
      BY <1>0, SetexType DEF CheckRow
    <2> QED BY <1>0, <1>2, <2>1, GotoOK DEF FixedSetStart, IInv
  <1>3. CASE FixedSetCount(c)
    <2>1. Setex(1) \in [value : Nat, until : 0..Forever]
      BY <1>0, SetexType
    <2> QED BY <1>0, <1>3, <2>1, AnswerOK DEF FixedSetCount, IInv
  <1>4. CASE FixedCount(c)
    BY <1>0, <1>4, DecideOK DEF FixedCount, IInv
  <1>5. CASE FixedIncr(c)
    BY <1>0, <1>5, IncrType, AnswerOK DEF FixedIncr, IInv
  <1> QED BY <1>1, <1>2, <1>3, <1>4, <1>5 DEF Fixed

LEMMA SlidingTypes ==
  ASSUME IInv, UNCHANGED <<kind, limit, asked, orderly, now>>, NEW c \in Checks,
         Sliding(c)
  PROVE  KeysOK' /\ CountsOK' /\ ChecksOK'
  <1> USE DEF Points, KeysOK, keys
  <1>b. kind = "sliding"
    BY ByKind
  <1>0. /\ check[c] \in CheckRow /\ kind = "sliding" /\ Tokens = Tokens'
        /\ now \in 0..MaxTime /\ limit \in Nat
    BY <1>b, OnPath DEF Tokens
  <1>1. CASE SlidingRange(c)
    <2> DEFINE allow == Cardinality(Valid(c)) < limit
    <2>1. allow \in BOOLEAN
      OBVIOUS
    <2>2. Decide(c, "push", allow) /\ UNCHANGED keys
      BY <1>1 DEF SlidingRange
    <2> HIDE DEF allow
    <2>3. ChecksOK' /\ CountsOK'
      BY <1>0, <2>1, <2>2, DecideOK
    <2> QED BY <1>0, <2>2, <2>3 DEF IInv
  <1>2. CASE SlidingPush(c)
    <2>1. Lpush(stamps, check[c].at)
            \in [value : Seq(0..MaxTime), until : 0..Forever]
      BY <1>0, LpushType DEF CheckRow, IInv
    <2> QED BY <1>0, <1>2, <2>1, GotoOK DEF SlidingPush, IInv
  <1>3. CASE SlidingTrim(c)
    <2> DEFINE n == IF Len(stamps.value) < limit THEN Len(stamps.value) ELSE limit
    <2>1. SubSeq(stamps.value, 1, n) \in Seq(0..MaxTime)
      BY <1>0 DEF IInv
    <2>2. stamps' = [stamps EXCEPT !.value = SubSeq(stamps.value, 1, n)]
      BY <1>3 DEF SlidingTrim, Keep
    <2> HIDE DEF n
    <2> QED BY <1>0, <1>3, <2>1, <2>2, GotoOK DEF SlidingTrim, IInv
  <1>4. CASE SlidingExpire(c)
    <2>1. Setex(stamps.value) \in [value : Seq(0..MaxTime), until : 0..Forever]
      BY <1>0, SetexType DEF IInv
    <2> QED BY <1>0, <1>4, <2>1, AnswerOK DEF SlidingExpire, IInv
  <1> QED BY <1>1, <1>2, <1>3, <1>4 DEF Sliding

LEMMA BucketTypes ==
  ASSUME IInv, UNCHANGED <<kind, limit, asked, orderly, now>>, NEW c \in Checks,
         Bucket(c)
  PROVE  KeysOK' /\ CountsOK' /\ ChecksOK'
  <1> USE DEF Points, KeysOK, keys
  <1>b. kind = "tokenBucket"
    BY ByKind
  <1>0. /\ check[c] \in CheckRow /\ InHand(check[c]) /\ kind = "tokenBucket"
        /\ Tokens = 0..limit /\ Tokens' = 0..limit
        /\ now \in 0..MaxTime /\ limit \in Nat \ {0}
    BY <1>b, OnPath DEF Tokens
  <1>1. CASE BucketRefill(c)
    BY <1>0, <1>1, HoldOK DEF BucketRefill, IInv
  <1>2. CASE BucketTokens(c)
    <2> DEFINE held == IF Gone(level) THEN limit ELSE level.value
               tokens == Refilled(held, check[c].at - check[c].val)
    <2>1. held \in 0..limit /\ check[c].at - check[c].val \in Int
      BY <1>0 DEF IInv, CheckRow
    <2>2. tokens \in Int /\ tokens <= limit
      BY <1>0, <2>1, RefilledBound
    <2>3. /\ IF tokens <= 0 THEN Answer(c, FALSE) ELSE Hold(c, "takeRefill", tokens - 1)
          /\ UNCHANGED keys
      BY <1>2 DEF BucketTokens
    <2> HIDE DEF tokens
    <2>4. CASE tokens <= 0
      BY <1>0, <2>3, <2>4, AnswerOK DEF IInv
    <2>5. CASE ~(tokens <= 0)
      <3>1. tokens - 1 \in 0..(limit - 1)
        BY <1>0, <2>2, <2>5
      <3> QED BY <1>0, <2>3, <2>5, <3>1, HoldOK DEF IInv
    <2> QED BY <2>4, <2>5
  <1>3. CASE BucketFill(c)
    BY <1>0, <1>3, GotoOK DEF BucketFill, IInv
  <1>4. CASE BucketInitRefill(c)
    <2>1. Setex(check[c].at) \in [value : 0..MaxTime, until : 0..Forever]
      BY <1>0, SetexType DEF CheckRow
    <2> QED BY <1>0, <1>4, <2>1, GotoOK DEF BucketInitRefill, IInv
  <1>5. CASE BucketInitTokens(c)
    <2>0. limit \in 0..limit
      BY <1>0
    <2>1. Setex(limit) \in [value : 0..limit, until : 0..Forever]
      BY <1>0, <2>0, SetexType
    <2> QED BY <1>0, <1>5, <2>1, HoldOK DEF BucketInitTokens, IInv
  <1>6. CASE BucketTakeRefill(c)
    <2>1. Setex(check[c].at) \in [value : 0..MaxTime, until : 0..Forever]
      BY <1>0, SetexType DEF CheckRow
    <2>2. [check[c] EXCEPT !.pc = "takeTokens"] \in CheckRow
            /\ InHand([check[c] EXCEPT !.pc = "takeTokens"])
      BY <1>0, <1>6 DEF BucketTakeRefill, CheckRow, InHand
    <2>3. ChecksOK'
      BY <1>6, <2>2, Move DEF BucketTakeRefill, Goto, IInv
    <2> QED BY <1>0, <1>6, <2>1, <2>3 DEF BucketTakeRefill, Goto, IInv, CountsOK
  <1>7. CASE BucketTakeTokens(c)
    <2>1. check[c].val \in 0..limit
      BY <1>0, <1>7 DEF BucketTakeTokens, InHand
    <2>2. Setex(check[c].val) \in [value : 0..limit, until : 0..Forever]
      BY <1>0, <2>1, SetexType
    <2> QED BY <1>0, <1>7, <2>2, AnswerOK DEF BucketTakeTokens, IInv
  <1> QED BY <1>1, <1>2, <1>3, <1>4, <1>5, <1>6, <1>7 DEF Bucket

\* Only the fixed window counts what it lets through.
LEMMA PassedType ==
  ASSUME passed \in Nat, NEW c, Step(c)
  PROVE  passed' \in Nat
  <1>1. CASE FixedSetCount(c)
    BY <1>1 DEF FixedSetCount
  <1>2. CASE FixedIncr(c)
    <2> DEFINE x == IF Gone(level) THEN 0 ELSE passed
               y == IF check[c].allow THEN 1 ELSE 0
    <2>1. x \in Nat /\ y \in Nat
      OBVIOUS
    <2>2. passed' = x + y
      BY <1>2 DEF FixedIncr
    <2> HIDE DEF x, y
    <2> QED BY <2>1, <2>2
  <1>3. CASE UNCHANGED passed
    BY <1>3
  <1> QED BY <1>1, <1>2, <1>3
          DEF Step, Fixed, FixedStart, FixedSetStart, FixedCount

LEMMA StepTypes == IInv /\ [Next]_vars => IInv'
  <1> SUFFICES ASSUME IInv, [Next]_vars PROVE IInv'
    OBVIOUS
  <1>1. ASSUME NEW c \in Checks, Begin(c) PROVE IInv'
    <2> DEFINE row == [check[c] EXCEPT !.pc = Entry[kind], !.at = now]
    <2>0. /\ Entry[kind] \in Points[kind]
          /\ Entry[kind] \notin {"takeRefill", "takeTokens"}
      BY OnPath DEF Entry, Points, Algorithms
    <2>1. row \in CheckRow /\ InHand(row)
      BY <2>0, OnPath DEF CheckRow, InHand
    <2>2. check' = [check EXCEPT ![c] = row]
      BY <1>1 DEF Begin
    <2> HIDE DEF row
    <2>3. ChecksOK'
      BY <1>1, <2>1, <2>2, Move DEF IInv, Begin
    <2>4. CountsOK'
      BY <1>1, NotedType DEF IInv, CountsOK, ConfigOK, Begin
    <2> QED BY <1>1, <2>3, <2>4 DEF IInv, ConfigOK, KeysOK, Tokens, Begin, keys
  <1>2. ASSUME NEW c \in Checks, Die(c) PROVE IInv'
    <2>1. ChecksOK'
      BY <1>2, IdleOK, Move DEF IInv, Die
    <2> QED BY <1>2, <2>1 DEF IInv, ConfigOK, KeysOK, CountsOK, Tokens, Die, keys
  <1>3. ASSUME NEW c \in Checks, Step(c) PROVE IInv'
    <2>1. KeysOK' /\ CountsOK' /\ ChecksOK'
      BY <1>3, FixedTypes, SlidingTypes, BucketTypes DEF Step
    <2>2. passed' \in Nat
      BY <1>3, PassedType DEF IInv
    <2> QED BY <1>3, <2>1, <2>2 DEF Step, IInv, ConfigOK
  <1>4. CASE Tick
    BY <1>4 DEF Tick, IInv, ConfigOK, KeysOK, CountsOK, ChecksOK, CheckRow,
                Tokens, InHand, keys
  <1>5. CASE UNCHANGED vars
    BY <1>5 DEF vars, IInv, ConfigOK, KeysOK, CountsOK, ChecksOK, CheckRow,
                Tokens, InHand, keys
  <1> QED BY <1>1, <1>2, <1>3, <1>4, <1>5 DEF Next

\* The keys, the checks and the counts keep their types for every limit,
\* window, TTL and number of checks; the bucket stays between empty and full.
THEOREM TypeCorrect == Spec => []TypeOK
  <1>1. IInv => TypeOK
    BY Invariant_TypeOK
  <1> QED BY <1>1, InitTypes, StepTypes, PTL DEF Spec

-----------------------------------------------------------------------------
(* What one count lets through when checks overlap *)

\* The checks that were allowed and have not raised the count yet.
Holding == {c \in Checks : check[c].pc = "incr" /\ check[c].allow}

\* While the key lives its value covers what it let through, and a check may
\* be allowed only below the limit, when all the others may be holding.
PassedInv ==
  /\ passed <= limit + Cardinality(Checks) - 1
  /\ kind = "fixed" /\ ~Gone(level) =>
       /\ passed <= level.value
       /\ passed + Cardinality(Holding) <= limit + Cardinality(Checks) - 1

LEMMA SomeChecks ==
  ASSUME NEW H \in SUBSET Checks
  PROVE  /\ IsFiniteSet(H) /\ Cardinality(H) \in Nat
         /\ Cardinality(Checks) \in Nat /\ Cardinality(H) <= Cardinality(Checks)
         /\ \A c \in Checks \ H : Cardinality(H) <= Cardinality(Checks) - 1
  <1>1. /\ IsFiniteSet(H) /\ Cardinality(H) \in Nat
        /\ Cardinality(Checks) \in Nat
        /\ Cardinality(H) <= Cardinality(Checks)
    BY ChecksAssumption, FS_Subset, FS_CardinalityType
  <1>2. ASSUME NEW c \in Checks \ H
        PROVE  Cardinality(H) <= Cardinality(Checks) - 1
    <2>1. H # Checks
      BY <1>2
    <2>2. Cardinality(H) # Cardinality(Checks)
      BY <2>1, ChecksAssumption, FS_Subset
    <2> QED BY <1>1, <2>2
  <1> QED BY <1>1, <1>2

LEMMA HoldingSome == Holding \in SUBSET Checks
  BY DEF Holding

\* A step that leaves the count alone only has to keep others from holding.
LEMMA PassedKept ==
  ASSUME IInv, PassedInv, UNCHANGED <<kind, limit, level, now, passed>>,
         Holding' \subseteq Holding
  PROVE  PassedInv'
  <1>1. Cardinality(Holding') <= Cardinality(Holding) /\ Cardinality(Holding') \in Nat
    BY HoldingSome, SomeChecks, FS_Subset, FS_CardinalityType
  <1>2. limit \in Nat /\ passed \in Nat /\ level.value \in Int
    BY DEF IInv, ConfigOK, KeysOK, Tokens
  <1> QED BY <1>1, <1>2, HoldingSome, SomeChecks DEF PassedInv, Gone

LEMMA PassedStep == IInv /\ PassedInv /\ [Next]_vars => PassedInv'
  <1> SUFFICES ASSUME IInv, PassedInv, [Next]_vars PROVE PassedInv'
    OBVIOUS
  <1>0. /\ limit \in Nat \ {0} /\ passed \in Nat /\ level.value \in Int
        /\ now \in Nat /\ level.until \in Nat /\ kind \in Algorithms
        /\ check \in [Checks -> CheckRow]
        /\ Cardinality(Checks) \in Nat
        /\ Cardinality(Holding) \in Nat /\ Cardinality(Holding') \in Nat
    <2>1. Holding \in SUBSET Checks /\ Holding' \in SUBSET Checks
      BY DEF Holding
    <2>2. /\ Cardinality(Checks) \in Nat
          /\ Cardinality(Holding) \in Nat /\ Cardinality(Holding') \in Nat
      BY <2>1, SomeChecks
    <2> QED BY <2>2 DEF IInv, ConfigOK, KeysOK, Tokens, Forever, ChecksOK
  <1>1. ASSUME NEW c \in Checks, Begin(c) PROVE PassedInv'
    <2>1. Holding' \subseteq Holding
      BY <1>0, <1>1 DEF Begin, Holding, Entry, Algorithms
    <2> QED BY <1>1, <2>1, PassedKept DEF Begin, keys
  <1>2. ASSUME NEW c \in Checks, Die(c) PROVE PassedInv'
    <2>1. Holding' \subseteq Holding
      BY <1>0, <1>2 DEF Die, Holding, Idle
    <2> QED BY <1>2, <2>1, PassedKept DEF Die, keys
  <1>3. ASSUME NEW c \in Checks, FixedStart(c) \/ FixedSetStart(c),
               UNCHANGED <<kind, limit, now>>
        PROVE  PassedInv'
    <2>1. Holding' \subseteq Holding
      BY <1>0, <1>3 DEF FixedStart, FixedSetStart, Goto, Holding, CheckRow
    <2> QED BY <1>3, <2>1, PassedKept DEF FixedStart, FixedSetStart, keys
  <1>4. ASSUME NEW c \in Checks, FixedSetCount(c), UNCHANGED <<kind, limit, now>>
        PROVE  PassedInv'
    <2>1. c \in Checks \ Holding'
      BY <1>0, <1>4 DEF FixedSetCount, Answer, Holding, Idle
    <2>2. Cardinality(Holding') <= Cardinality(Checks) - 1
      BY <2>1, SomeChecks DEF Holding
    <2>3. level'.value = 1 /\ passed' = 1
      BY <1>4 DEF FixedSetCount, Setex, Key
    <2> QED BY <1>0, <1>4, <2>2, <2>3 DEF PassedInv
  <1>5. ASSUME NEW c \in Checks, FixedCount(c), UNCHANGED <<kind, limit, now>>
        PROVE  PassedInv'
    <2>1. UNCHANGED <<level, passed>>
      BY <1>5 DEF FixedCount, keys
    <2>2. CASE Gone(level) \/ level.value < limit
      <3>1. Cardinality(Holding') <= Cardinality(Checks)
        BY SomeChecks DEF Holding
      <3> QED BY <1>0, <1>5, <2>1, <2>2, <3>1 DEF PassedInv, Gone
    <2>3. CASE ~(Gone(level) \/ level.value < limit)
      <3>1. Holding' \subseteq Holding
        BY <1>0, <1>5, <2>3 DEF FixedCount, Decide, Holding, CheckRow
      <3> QED BY <1>5, <2>1, <3>1, PassedKept
    <2> QED BY <2>2, <2>3
  <1>6. ASSUME NEW c \in Checks, FixedIncr(c), UNCHANGED <<kind, limit, now>>
        PROVE  PassedInv'
    <2>1. Holding' = Holding \ {c} /\ c \in Checks \ Holding'
      BY <1>0, <1>6 DEF FixedIncr, Answer, Holding, Idle
    <2>2. Cardinality(Holding') <= Cardinality(Checks) - 1
      BY <2>1, SomeChecks DEF Holding
    <2>3. c \in Holding <=> check[c].allow
      BY <1>6 DEF FixedIncr, Holding
    <2>4. Cardinality(Holding')
            = IF check[c].allow THEN Cardinality(Holding) - 1 ELSE Cardinality(Holding)
      BY <2>1, <2>3, HoldingSome, SomeChecks, FS_RemoveElement
    <2>5. level' = Incr(level)
          /\ passed' = (IF Gone(level) THEN 0 ELSE passed)
                         + (IF check[c].allow THEN 1 ELSE 0)
      BY <1>6 DEF FixedIncr
    <2>6. CASE Gone(level)
      <3>1. level'.value = 1 /\ passed' \in {0, 1}
        BY <2>5, <2>6 DEF Incr, Key
      <3> QED BY <1>0, <1>6, <2>2, <3>1 DEF PassedInv
    <2>7. CASE ~Gone(level)
      <3>1. level \in [value : Tokens, until : 0..Forever]
        BY DEF IInv, KeysOK
      <3>2. level'.value = level.value + 1
        BY <2>5, <2>7, <3>1 DEF Incr
      <3>3. CASE check[c].allow
        <4>1. kind = "fixed"
          BY <1>6, ByKind DEF Fixed
        <4> QED BY <1>0, <1>6, <2>4, <2>5, <2>7, <3>2, <3>3, <4>1 DEF PassedInv
      <3>4. CASE ~check[c].allow
        BY <1>0, <1>6, <2>4, <2>5, <2>7, <3>2, <3>4 DEF PassedInv
      <3> QED BY <3>3, <3>4
    <2> QED BY <2>6, <2>7
  <1>7. ASSUME NEW c \in Checks, Step(c) PROVE PassedInv'
    <2>1. UNCHANGED <<kind, limit, now>>
      BY <1>7 DEF Step
    <2>2. CASE Fixed(c)
      BY <1>3, <1>4, <1>5, <1>6, <2>1, <2>2 DEF Fixed
    <2>3. CASE (Sliding(c) \/ Bucket(c)) /\ UNCHANGED passed
      <3>1. kind # "fixed"
        BY <2>3, ByKind
      <3> QED BY <2>1, <2>3, <3>1 DEF PassedInv
    <2> QED BY <1>7, <2>2, <2>3 DEF Step
  <1>8. CASE Tick
    <2>1. Holding' = Holding /\ UNCHANGED <<kind, limit, level, passed>> /\ now' = now + 1
      BY <1>8 DEF Tick, Holding, keys
    <2>2. Gone(level) => Gone(level)'
      BY <1>0, <2>1 DEF Gone
    <2> QED BY <2>1, <2>2 DEF PassedInv
  <1>9. CASE UNCHANGED vars
    BY <1>9 DEF vars, keys, PassedInv, Gone, Holding
  <1> QED BY <1>1, <1>2, <1>7, <1>8, <1>9 DEF Next

LEMMA PassedInit == Init => PassedInv
  <1> SUFFICES ASSUME Init PROVE PassedInv
    OBVIOUS
  <1>1. limit \in Nat \ {0} /\ passed = 0 /\ Gone(level)
    BY DEF Init, Gone, Key
  <1>2. Cardinality(Checks) \in Nat
    BY ChecksAssumption, FS_CardinalityType
  <1> QED BY <1>1, <1>2 DEF PassedInv

\* However many checks overlap in opening a fixed window or in raising its
\* count, from one start of the count to the next no more requests pass than
\* the limit and one for each other check.
THEOREM CountKeeps == Spec => []OverlapQuota
  <1>1. PassedInv => OverlapQuota
    BY DEF PassedInv, OverlapQuota
  <1> QED BY <1>1, InitTypes, StepTypes, PassedInit, PassedStep, PTL DEF Spec

-----------------------------------------------------------------------------
(* How many requests pass one after the other.  The predicates below take    *)
(* what they speak of as parameters: L is the limit, g the allowed requests, *)
(* mk, lv and st the keys, n the clock and a the moment the next request to  *)
(* be decided began.                                                         *)

From(g, t) == {r \in g : t <= r[1]}
Late(g, C, p) == {r \in g \ C : p < r[1]}

\* Every stretch as long as the window holds at most b requests.
Sparse(g, b) == \A t \in Int : Cardinality(During(g, t, t + Window - 1)) <= b

\* Those that contain the moment a do.
Room(g, a, b) ==
  \A t \in Int : t <= a /\ a <= t + Window - 1
                   => Cardinality(During(g, t, t + Window - 1)) <= b

\* While checks are serial there is one at a time, and it began after all the
\* requests that were allowed before it.
OrderInv ==
  orderly =>
    /\ \A c, d \in Active : c = d
    /\ \A c \in Active : check[c].at <= now
                         /\ \A r \in granted : r[1] <= check[c].at
    /\ \A r \in granted : r[1] <= now

\* The requests of one moment are numbered from one, so that the next is new.
Numbered(g) == \A r \in g : r[2] <= Cardinality(During(g, r[1], r[1]))

-----------------------------------------------------------------------------
(* The fixed window.  C are the requests the open window let through, and p  *)
(* a moment a window's length before whatever is allowed from now on: of the *)
(* windows before, only the limit lies after p.                              *)

\* The window of :start was opened by a request of C; nothing before came
\* later, and :count outlives :start.
Opened(g, mk, lv, C) ==
  /\ \E r \in C : r[1] = mk.value
  /\ \A r \in g \ C : r[1] <= mk.value
  /\ mk.value + Window <= mk.until /\ mk.until <= lv.until

\* The count covers C, unless the keys expired under a check: it let one more
\* through, and whatever comes next opens a window.
FixedOpen(L, g, mk, lv, n, a) ==
  \/ g = {} /\ mk.until <= n
  \/ \E p \in Int, C \in SUBSET g :
       /\ Cardinality(Late(g, C, p)) <= L /\ p + Window <= a
       /\ Opened(g, mk, lv, C)
       /\ \/ /\ Cardinality(C) <= L
             /\ lv.until <= n \/ Cardinality(C) <= lv.value
          \/ /\ Cardinality(C) <= L + 1
             /\ mk.until <= n /\ mk.value + Window <= a

\* A check that was allowed read a count below the limit, or none.
FixedAllowed(L, g, mk, lv, n, a) ==
  \E p \in Int, C \in SUBSET g :
    /\ Cardinality(Late(g, C, p)) <= L /\ p + Window <= a
    /\ Opened(g, mk, lv, C)
    /\ Cardinality(C) <= L
    /\ \/ mk.until <= n
       \/ Cardinality(C) < L /\ Cardinality(C) <= lv.value

\* A check that opens a window closes the one before.
FixedOpening(L, g, mk, n, a) ==
  /\ mk.value = a /\ a + Window <= mk.until /\ mk.until <= n + Life
  /\ Room(g, a, 2 * L)
  /\ \E p \in Int : Cardinality(From(g, p + 1)) <= L /\ p + Window <= n

FixedRow(L, g, mk, lv, n, row) ==
  /\ row.pc \in {"start", "setStart", "count"} => FixedOpen(L, g, mk, lv, n, row.at)
  /\ row.pc = "setStart" => mk.until <= n \/ mk.value + Window <= row.at
  /\ row.pc = "setCount" => FixedOpening(L, g, mk, n, row.at)
  /\ row.pc = "count" => g # {} /\ row.at < mk.value + Window
  /\ row.pc = "incr" =>
       IF row.allow THEN FixedAllowed(L, g, mk, lv, n, row.at)
       ELSE /\ FixedOpen(L, g, mk, lv, n, row.at)
            /\ g # {} /\ row.at < mk.value + Window

FixedInv ==
  kind = "fixed" /\ orderly =>
    /\ Active = {} => FixedOpen(limit, granted, mark, level, now, now)
    /\ \A c \in Active : FixedRow(limit, granted, mark, level, now, check[c])

-----------------------------------------------------------------------------
(* The sliding window.  C are the requests whose stamps the list was given   *)
(* since it last began empty; of those before, at most one lies less than a  *)
(* window's length before whatever is allowed from now on: the one whose     *)
(* stamp expired as soon as it was pushed.                                   *)

\* The k-th newest stamp is at least as late as the k-th newest request of C.
Listed(L, C, s) ==
  \A v \in Int, k \in 1..L :
    k <= Cardinality(From(C, v)) => k <= Len(s) /\ v <= s[k]

\* Likewise with one more request, at the moment a.
ListedWith(L, C, s, a) ==
  \A v \in Int, k \in 1..L :
    v <= a /\ k <= Cardinality(From(C, v)) + 1 => k <= Len(s) /\ v <= s[k]

Stamped(L, g, st, a, p, C) ==
  /\ Cardinality(Late(g, C, p)) <= 1 /\ p + Window <= a
  /\ Sparse(C, L)
  /\ \A r \in C : r[1] + Window <= st.until
  /\ \A r \in g \ C, s \in C : r[1] <= s[1]

SlidingOpen(L, g, st, n, a) ==
  \E p \in Int, C \in SUBSET g :
    /\ Stamped(L, g, st, a, p, C)
    /\ C = {} => Late(g, C, p) = {} \/ st.until <= n
    /\ st.until <= n \/ Listed(L, C, st.value)

\* A check that was allowed read few stamps, or the list is gone.
SlidingPushing(L, g, st, n, a) ==
  \E p \in Int, C \in SUBSET g :
    /\ Stamped(L, g, st, a, p, C)
    /\ C = {} => Late(g, C, p) = {} \/ st.until <= n
    /\ \/ st.until <= n
       \/ Listed(L, C, st.value) /\ Cardinality(From(C, a - Window)) < L

SlidingDenied(L, g, st, n, a) ==
  \E p \in Int, C \in SUBSET g :
    /\ Stamped(L, g, st, a, p, C)
    /\ C = {} => Late(g, C, p) = {}
    /\ st.until <= n \/ Listed(L, C, st.value)

\* A check that was allowed has pushed its stamp.
SlidingPushed(L, g, st, n, a) ==
  /\ Room(g, a, L + 1)
  /\ \E p \in Int, C \in SUBSET g :
       /\ Stamped(L, g, st, n, p, C)
       /\ Room(C, a, L - 1)
       /\ C = {} => Late(g, C, p) = {} \/ st.until = Forever
       /\ st.until <= n \/ ListedWith(L, C, st.value, a)

SlidingRow(L, g, st, n, row) ==
  /\ row.pc = "range" => SlidingOpen(L, g, st, n, row.at)
  /\ row.pc = "push" => IF row.allow THEN SlidingPushing(L, g, st, n, row.at)
                        ELSE SlidingDenied(L, g, st, n, row.at)
  /\ row.pc \in {"trim", "expire"} =>
       IF row.allow THEN SlidingPushed(L, g, st, n, row.at)
       ELSE SlidingDenied(L, g, st, n, n)

SlidingInv ==
  kind = "sliding" /\ orderly =>
    /\ Active = {} => SlidingOpen(limit, granted, stamps, now, now)
    /\ \A c \in Active : SlidingRow(limit, granted, stamps, now, check[c])

-----------------------------------------------------------------------------
(* The token bucket.  What was taken since any moment t after p, and x, what *)
(* is left, was in the full bucket at t or came in from t to the refill e.   *)

Drawn(L, g, x, e, p) ==
  \A t \in Int : p < t /\ t <= e
    => Window * (Cardinality(From(g, t)) + x) <= L * (Window + e - t)

BucketKept(L, g, mk, lv, a) ==
  \E p \in Int :
    /\ p + Window <= a /\ mk.value <= a
    /\ \A r \in g : r[1] <= mk.value
    /\ mk.value + Window <= mk.until /\ mk.value + Window <= lv.until
    /\ Drawn(L, g, lv.value, mk.value, p)

BucketOpen(L, g, mk, lv, n, a) ==
  (g = {} /\ mk.until <= n) \/ BucketKept(L, g, mk, lv, a)

\* A check that was allowed will leave val.
BucketTaking(L, g, n, a, val) ==
  /\ Room(g, a, 2 * L - 1)
  /\ \E p \in Int : p + Window <= n /\ Drawn(L, g, val + 1, a, p)

BucketRow(L, g, mk, lv, n, row) ==
  /\ row.pc \in {"refill", "fill"} => BucketOpen(L, g, mk, lv, n, row.at)
  /\ row.pc = "fill" => mk.until <= n
  /\ row.pc = "tokens" => BucketKept(L, g, mk, lv, row.at) /\ row.val = mk.value
  /\ row.pc \in {"initRefill", "initTokens"} =>
       /\ Room(g, row.at, 2 * L - 1)
       /\ \E p \in Int : p + Window <= n /\ \A r \in g : r[1] <= p
  /\ row.pc \in {"takeRefill", "takeTokens"} => BucketTaking(L, g, n, row.at, row.val)
  /\ row.pc = "takeTokens" => mk.value = row.at /\ row.at + Window <= mk.until

BucketInv ==
  kind = "tokenBucket" /\ orderly =>
    /\ Active = {} => BucketOpen(limit, granted, mark, level, now, now)
    /\ \A c \in Active : BucketRow(limit, granted, mark, level, now, check[c])

SerialInv == /\ OrderInv /\ Numbered(granted)
             /\ orderly => Sparse(granted, Burst)
             /\ FixedInv /\ SlidingInv /\ BucketInv

-----------------------------------------------------------------------------
(* Counting requests *)

LEMMA CountLess ==
  ASSUME NEW S, IsFiniteSet(S), NEW T \in SUBSET S
  PROVE  /\ IsFiniteSet(T) /\ Cardinality(T) \in Nat /\ Cardinality(S) \in Nat
         /\ Cardinality(T) <= Cardinality(S)
  BY FS_Subset, FS_CardinalityType

LEMMA CountMore ==
  ASSUME NEW S, IsFiniteSet(S), NEW x
  PROVE  /\ IsFiniteSet(S \union {x})
         /\ Cardinality(S) \in Nat /\ Cardinality(S \union {x}) \in Nat
         /\ Cardinality(S \union {x}) <= Cardinality(S) + 1
         /\ x \notin S => Cardinality(S \union {x}) = Cardinality(S) + 1
  <1>1. /\ IsFiniteSet(S \union {x})
        /\ Cardinality(S \union {x})
             = IF x \in S THEN Cardinality(S) ELSE Cardinality(S) + 1
    BY FS_AddElement
  <1>2. Cardinality(S) \in Nat /\ Cardinality(S \union {x}) \in Nat
    BY <1>1, FS_CardinalityType
  <1> QED BY <1>1, <1>2

LEMMA CountUnion ==
  ASSUME NEW S, IsFiniteSet(S), NEW T, IsFiniteSet(T), NEW R \in SUBSET (S \union T)
  PROVE  Cardinality(R) <= Cardinality(S) + Cardinality(T)
  <1>1. IsFiniteSet(S \union T)
        /\ Cardinality(S \union T) = Cardinality(S) + Cardinality(T) - Cardinality(S \cap T)
    BY FS_Union
  <1>2. Cardinality(R) <= Cardinality(S \union T)
    BY <1>1, CountLess
  <1>3. Cardinality(S \cap T) \in Nat /\ Cardinality(S) \in Nat /\ Cardinality(T) \in Nat
        /\ Cardinality(R) \in Nat
    <2>1. S \cap T \in SUBSET S
      OBVIOUS
    <2> QED BY <1>1, <2>1, CountLess, FS_CardinalityType
  <1> QED BY <1>1, <1>2, <1>3

\* The requests a history is cut into.
LEMMA Parts ==
  ASSUME NEW g, IsFiniteSet(g), NEW C \in SUBSET g, NEW p, NEW t, NEW u
  PROVE  /\ IsFiniteSet(C) /\ Cardinality(C) \in Nat
         /\ IsFiniteSet(Late(g, C, p)) /\ Cardinality(Late(g, C, p)) \in Nat
         /\ IsFiniteSet(From(g, t)) /\ Cardinality(From(g, t)) \in Nat
         /\ IsFiniteSet(From(C, t)) /\ Cardinality(From(C, t)) \in Nat
         /\ IsFiniteSet(During(C, t, u)) /\ Cardinality(During(C, t, u)) \in Nat
         /\ IsFiniteSet(During(g, t, u)) /\ Cardinality(During(g, t, u)) \in Nat
  <1>1. /\ Late(g, C, p) \in SUBSET g /\ From(g, t) \in SUBSET g
        /\ From(C, t) \in SUBSET g /\ During(g, t, u) \in SUBSET g
        /\ During(C, t, u) \in SUBSET g
    BY DEF Late, From, During
  <1> QED BY <1>1, CountLess

\* One more request adds one to a stretch that contains it and none to others.
LEMMA StretchMore ==
  ASSUME NEW g \in SUBSET Requests, IsFiniteSet(g), NEW r \in Requests,
         NEW b \in Int, Sparse(g, b), Room(g, r[1], b - 1)
  PROVE  Sparse(g \union {r}, b)
  <1> SUFFICES ASSUME NEW t \in Int
      PROVE  Cardinality(During(g \union {r}, t, t + Window - 1)) <= b
    BY DEF Sparse
  <1> DEFINE D == During(g, t, t + Window - 1)
             E == During(g \union {r}, t, t + Window - 1)
  <1>1. IsFiniteSet(D) /\ Cardinality(D) \in Nat
    BY Parts
  <1>2. r[1] \in Int
    BY DEF Requests
  <1>3. CASE t <= r[1] /\ r[1] <= t + Window - 1
    <2>1. E = D \union {r}
      BY <1>3 DEF During
    <2>2. Cardinality(D) <= b - 1
      BY <1>2, <1>3 DEF Room
    <2>3. Cardinality(D \union {r}) \in Nat
          /\ Cardinality(D \union {r}) <= Cardinality(D) + 1
      BY <1>1, CountMore
    <2> HIDE DEF D, E
    <2>4. Cardinality(E) <= b
      BY <1>1, <2>1, <2>2, <2>3
    <2> QED BY <2>4 DEF E
  <1>4. CASE ~(t <= r[1] /\ r[1] <= t + Window - 1)
    <2>1. E = D
      BY <1>4 DEF During
    <2> QED BY <2>1 DEF Sparse
  <1> QED BY <1>3, <1>4

\* A history that grows where there is room stays sparse.
LEMMA StaysSparse ==
  ASSUME NEW g \in SUBSET Requests, IsFiniteSet(g), NEW h, NEW b \in Int,
         NEW e \in Int, b = e + 1, Sparse(g, b),
         \/ h = g
         \/ \E r \in Requests \ g : h = g \union {r} /\ Room(g, r[1], e)
  PROVE  Sparse(h, b)
  <1>1. ASSUME NEW r \in Requests \ g, h = g \union {r}, Room(g, r[1], e)
        PROVE  Sparse(h, b)
    <2>1. e = b - 1
      OBVIOUS
    <2>2. Room(g, r[1], b - 1)
      BY <1>1, <2>1
    <2> QED BY <1>1, <2>2, StretchMore
  <1> QED BY <1>1

\* What a moment's stretches hold is late, or counted in C.
LEMMA RoomBehind ==
  ASSUME NEW g \in SUBSET Requests, IsFiniteSet(g), NEW C \in SUBSET g,
         NEW p \in Int, NEW a \in Int, p + Window <= a, NEW k \in Int, NEW b \in Int,
         Cardinality(Late(g, C, p)) <= k, Room(C, a, b)
  PROVE  Room(g, a, k + b)
  <1> SUFFICES ASSUME NEW t \in Int, t <= a, a <= t + Window - 1
      PROVE  Cardinality(During(g, t, t + Window - 1)) <= k + b
    BY DEF Room
  <1>1. During(g, t, t + Window - 1)
          \in SUBSET (Late(g, C, p) \union During(C, t, t + Window - 1))
    <2>1. p < t
      OBVIOUS
    <2>2. \A r \in g : r[1] \in Int
      BY DEF Requests
    <2> QED BY <2>1, <2>2 DEF During, Late
  <1>2. Cardinality(During(C, t, t + Window - 1)) <= b
    BY DEF Room
  <1>3. Cardinality(During(g, t, t + Window - 1)) <=
          Cardinality(Late(g, C, p)) + Cardinality(During(C, t, t + Window - 1))
    BY <1>1, Parts, CountUnion
  <1>4. /\ Cardinality(Late(g, C, p)) \in Nat
        /\ Cardinality(During(C, t, t + Window - 1)) \in Nat
        /\ Cardinality(During(g, t, t + Window - 1)) \in Nat
    BY Parts
  <1> QED BY <1>2, <1>3, <1>4

LEMMA RoomWithin ==
  ASSUME NEW C, IsFiniteSet(C), NEW a
  PROVE  Room(C, a, Cardinality(C))
  <1> SUFFICES ASSUME NEW t \in Int
      PROVE  Cardinality(During(C, t, t + Window - 1)) <= Cardinality(C)
    BY DEF Room
  <1>1. During(C, t, t + Window - 1) \in SUBSET C
    BY DEF During
  <1> QED BY <1>1, CountLess

LEMMA RoomLoose ==
  ASSUME NEW g, IsFiniteSet(g), NEW a, NEW b \in Int, NEW d \in Int, b <= d,
         Room(g, a, b)
  PROVE  Room(g, a, d)
  <1> SUFFICES ASSUME NEW t \in Int, t <= a, a <= t + Window - 1
      PROVE  Cardinality(During(g, t, t + Window - 1)) <= d
    BY DEF Room
  <1>1. Cardinality(During(g, t, t + Window - 1)) <= b
    BY DEF Room
  <1> QED BY <1>1, Parts

\* The next request of a moment is a new one.
LEMMA Fresh ==
  ASSUME NEW g \in SUBSET Requests, IsFiniteSet(g), Numbered(g), NEW t \in 0..MaxTime
  PROVE  \E r \in Requests \ g : /\ r[1] = t /\ Noted(g, t) = g \union {r}
                                 /\ Numbered(g \union {r})
  <1> DEFINE n == Cardinality(During(g, t, t))
             r == <<t, 1 + n>>
  <1>1. n \in Nat
    BY Parts
  <1>2. r \in Requests /\ r[1] = t /\ r[2] = n + 1
    BY <1>1 DEF Requests
  <1>3. r \notin g
    <2> SUFFICES ASSUME r \in g PROVE FALSE
      OBVIOUS
    <2>1. r[2] <= Cardinality(During(g, r[1], r[1]))
      BY DEF Numbered
    <2> QED BY <1>1, <1>2, <2>1
  <1>4. Noted(g, t) = g \union {r}
    BY DEF Noted
  <1>5. Numbered(g \union {r})
    <2> SUFFICES ASSUME NEW q \in g \union {r}
        PROVE  q[2] <= Cardinality(During(g \union {r}, q[1], q[1]))
      BY DEF Numbered
    <2> HIDE DEF n, r
    <2>1. IsFiniteSet(g \union {r})
      BY CountMore
    <2>2. CASE q = r
      <3>1. During(g \union {r}, t, t) = During(g, t, t) \union {r}
        BY <1>2 DEF During, Requests
      <3>2. r \notin During(g, t, t)
        BY <1>3 DEF During
      <3>3. Cardinality(During(g \union {r}, t, t)) = n + 1
        BY <3>1, <3>2, Parts, CountMore DEF n
      <3> QED BY <1>1, <1>2, <2>2, <3>3
    <2>3. CASE q \in g
      <3>1. q[2] <= Cardinality(During(g, q[1], q[1])) /\ q[2] \in Nat
        BY <2>3 DEF Numbered, Requests
      <3>2. During(g, q[1], q[1]) \in SUBSET During(g \union {r}, q[1], q[1])
        BY DEF During
      <3>3. Cardinality(During(g, q[1], q[1]))
              <= Cardinality(During(g \union {r}, q[1], q[1]))
        BY <2>1, <3>2, Parts, CountLess
      <3> QED BY <2>1, <3>1, <3>3, Parts
    <2> QED BY <2>2, <2>3
  <1> QED BY <1>2, <1>3, <1>4, <1>5

-----------------------------------------------------------------------------
(* The fixed window, step by step *)

Moment == [value : Int, until : Int]

\* What holds of the keys goes on to hold as time passes.
LEMMA FixedLater ==
  ASSUME NEW L, NEW g, NEW mk \in Moment, NEW lv \in Moment, NEW n \in Int,
         NEW m \in Int, n <= m, NEW a \in Int, NEW b \in Int, a <= b,
         FixedOpen(L, g, mk, lv, n, a)
  PROVE  FixedOpen(L, g, mk, lv, m, b)
  <1> USE DEF Moment
  <1>1. CASE g = {} /\ mk.until <= n
    BY <1>1 DEF FixedOpen
  <1>2. CASE ~(g = {} /\ mk.until <= n)
    <2>1. PICK p \in Int, C \in SUBSET g :
            /\ Cardinality(Late(g, C, p)) <= L /\ p + Window <= a
            /\ Opened(g, mk, lv, C)
            /\ \/ /\ Cardinality(C) <= L
                  /\ lv.until <= n \/ Cardinality(C) <= lv.value
               \/ /\ Cardinality(C) <= L + 1
                  /\ mk.until <= n /\ mk.value + Window <= a
      BY <1>2 DEF FixedOpen
    <2>2. /\ p + Window <= b
          /\ lv.until <= n => lv.until <= m
          /\ mk.until <= n => mk.until <= m
          /\ mk.value + Window <= a => mk.value + Window <= b
      BY <2>1
    <2> QED BY <2>1, <2>2 DEF FixedOpen
  <1> QED BY <1>1, <1>2

LEMMA FixedRowLater ==
  ASSUME NEW L, NEW g, NEW mk \in Moment, NEW lv \in Moment, NEW n \in Int,
         NEW m \in Int, n <= m, NEW row, row.at \in Int,
         FixedRow(L, g, mk, lv, n, row)
  PROVE  FixedRow(L, g, mk, lv, m, row)
  <1> USE DEF Moment
  <1>1. FixedOpen(L, g, mk, lv, n, row.at) => FixedOpen(L, g, mk, lv, m, row.at)
    BY FixedLater
  <1>2. mk.until <= n => mk.until <= m
    OBVIOUS
  <1>3. FixedOpening(L, g, mk, n, row.at) => FixedOpening(L, g, mk, m, row.at)
    <2>1. mk.until <= n + Life => mk.until <= m + Life
      OBVIOUS
    <2>2. \A p \in Int : p + Window <= n => p + Window <= m
      OBVIOUS
    <2> QED BY <2>1, <2>2 DEF FixedOpening
  <1>4. FixedAllowed(L, g, mk, lv, n, row.at) => FixedAllowed(L, g, mk, lv, m, row.at)
    BY <1>2 DEF FixedAllowed
  <1> QED BY <1>1, <1>2, <1>3, <1>4 DEF FixedRow

\* A check that opens a window: the open one is over, or its keys expired under
\* the check and it is over for all that come after it.
LEMMA FixedOpens ==
  ASSUME NEW L \in Nat, NEW g \in SUBSET Requests, IsFiniteSet(g),
         NEW mk \in Moment, NEW lv \in Moment, NEW n \in Int, NEW a \in Int, a <= n,
         FixedOpen(L, g, mk, lv, n, a),
         mk.until <= n \/ mk.value + Window <= a
  PROVE  /\ Room(g, a, 2 * L)
         /\ \E p \in Int : Cardinality(From(g, p + 1)) <= L /\ p + Window <= n
  <1> USE DEF Moment
  <1>0. \A r \in g : r[1] \in Int
    BY DEF Requests
  <1>1. CASE g = {}
    <2>1. Room(g, a, 0)
      <3>1. g = {} /\ IsFiniteSet(g) /\ Cardinality(g) = 0
        BY <1>1, FS_EmptySet
      <3> QED BY <3>1, RoomWithin
    <2>2. Room(g, a, 2 * L)
      BY <2>1, RoomLoose
    <2>3. From(g, n - Window + 1) = {}
      BY <1>1 DEF From
    <2>4. Cardinality(From(g, (n - Window) + 1)) <= L
      BY <2>3, FS_EmptySet
    <2>5. n - Window \in Int /\ (n - Window) + Window <= n
      OBVIOUS
    <2> QED BY <2>2, <2>4, <2>5
  <1>2. CASE g # {}
    <2>1. PICK p \in Int, C \in SUBSET g :
            /\ Cardinality(Late(g, C, p)) <= L /\ p + Window <= a
            /\ Opened(g, mk, lv, C)
            /\ \/ /\ Cardinality(C) <= L
                  /\ lv.until <= n \/ Cardinality(C) <= lv.value
               \/ /\ Cardinality(C) <= L + 1
                  /\ mk.until <= n /\ mk.value + Window <= a
      BY <1>2 DEF FixedOpen
    <2> DEFINE m == mk.value
    <2>2. PICK o \in C : o[1] = m
      BY <2>1 DEF Opened
    <2>3. IsFiniteSet(C) /\ Cardinality(C) \in Nat
      BY Parts
    <2>4. Cardinality(From(g, m + 1)) <= L
      <3>1. From(g, m + 1) \in SUBSET (C \ {o})
        BY <1>0, <2>1, <2>2 DEF Opened, From
      <3>2. IsFiniteSet(C \ {o}) /\ Cardinality(C \ {o}) = Cardinality(C) - 1
        BY <2>2, <2>3, FS_RemoveElement
      <3>3. /\ Cardinality(From(g, m + 1)) <= Cardinality(C \ {o})
            /\ Cardinality(From(g, m + 1)) \in Nat
        BY <3>1, <3>2, CountLess
      <3> QED BY <2>1, <2>3, <3>2, <3>3
    <2>5. m + Window <= n
      BY <2>1 DEF Opened
    <2>6. Room(g, a, 2 * L)
      <3>1. CASE Cardinality(C) <= L
        <4>1. Room(C, a, L)
          BY <2>3, <3>1, RoomWithin, RoomLoose
        <4>2. Room(g, a, L + L)
          BY <2>1, <4>1, RoomBehind
        <4> QED BY <4>2
      <3>2. CASE m + Window <= a
        <4>1. Late(g, {}, m) = From(g, m + 1)
          BY <1>0 DEF Late, From
        <4>2. Room({}, a, L)
          BY FS_EmptySet, RoomWithin, RoomLoose
        <4>3. Room(g, a, L + L)
          <5>1. {} \in SUBSET g /\ m \in Int
            OBVIOUS
          <5> QED BY <2>4, <3>2, <4>1, <4>2, <5>1, RoomBehind
        <4> QED BY <4>3
      <3> QED BY <2>1, <3>1, <3>2
    <2> QED BY <2>4, <2>5, <2>6
  <1> QED BY <1>1, <1>2

\* The opener is the first request its window lets through.
LEMMA FixedOpened ==
  ASSUME NEW L \in Nat \ {0}, NEW g \in SUBSET Requests, IsFiniteSet(g),
         NEW mk \in Moment, NEW lv \in Moment, NEW n \in Int,
         NEW r \in Requests \ g, \A q \in g : q[1] <= r[1],
         FixedOpening(L, g, mk, n, r[1]),
         lv.value = 1, lv.until = n + Life
  PROVE  FixedOpen(L, g \union {r}, mk, lv, n, n) /\ Room(g, r[1], 2 * L)
  <1> USE DEF Moment
  <1> DEFINE C == {r}
             h == g \union {r}
  <1>1. PICK p \in Int : Cardinality(From(g, p + 1)) <= L /\ p + Window <= n
    BY DEF FixedOpening
  <1>2. C \in SUBSET h /\ Cardinality(C) = 1
    BY FS_Singleton
  <1>3. h \ C = g
    OBVIOUS
  <1>4. Late(h, C, p) = From(g, p + 1)
    BY <1>3 DEF Late, From, Requests
  <1>5. Opened(h, mk, lv, C)
    BY <1>3 DEF Opened, FixedOpening
  <1> HIDE DEF C, h
  <1>6. FixedOpen(L, h, mk, lv, n, n)
    BY <1>1, <1>2, <1>4, <1>5 DEF FixedOpen
  <1> QED BY <1>6 DEF FixedOpening, h

\* A check that finds the count below the limit, or expired, is allowed.
LEMMA FixedAllows ==
  ASSUME NEW L \in Nat \ {0}, NEW g \in SUBSET Requests, IsFiniteSet(g),
         NEW mk \in Moment, NEW lv \in Moment, NEW n \in Int, NEW a \in Int,
         FixedOpen(L, g, mk, lv, n, a), g # {}, a < mk.value + Window,
         lv.until <= n \/ lv.value < L
  PROVE  FixedAllowed(L, g, mk, lv, n, a)
  <1> USE DEF Moment
  <1>1. PICK p \in Int, C \in SUBSET g :
          /\ Cardinality(Late(g, C, p)) <= L /\ p + Window <= a
          /\ Opened(g, mk, lv, C)
          /\ \/ /\ Cardinality(C) <= L
                /\ lv.until <= n \/ Cardinality(C) <= lv.value
             \/ /\ Cardinality(C) <= L + 1
                /\ mk.until <= n /\ mk.value + Window <= a
    BY DEF FixedOpen
  <1>2. Cardinality(C) \in Nat
    BY Parts
  <1>3. mk.until <= lv.until
    BY <1>1 DEF Opened
  <1>4. /\ Cardinality(C) <= L
        /\ mk.until <= n \/ (Cardinality(C) < L /\ Cardinality(C) <= lv.value)
    BY <1>1, <1>2, <1>3
  <1> QED BY <1>1, <1>4 DEF FixedAllowed

\* It raises the count, or starts one that never expires in a window that is
\* over.
LEMMA FixedCounts ==
  ASSUME NEW L \in Nat \ {0}, NEW g \in SUBSET Requests, IsFiniteSet(g),
         NEW mk \in Moment, NEW lv \in Moment, NEW lw \in Moment, NEW n \in Int,
         NEW r \in Requests \ g, r[1] <= n,
         FixedAllowed(L, g, mk, lv, n, r[1]), lv.until <= lw.until,
         lv.until <= n \/ (lw.value = lv.value + 1)
  PROVE  FixedOpen(L, g \union {r}, mk, lw, n, n) /\ Room(g, r[1], 2 * L)
  <1> USE DEF Moment
  <1>0. r[1] \in Int
    BY DEF Requests
  <1>1. PICK p \in Int, C \in SUBSET g :
          /\ Cardinality(Late(g, C, p)) <= L /\ p + Window <= r[1]
          /\ Opened(g, mk, lv, C)
          /\ Cardinality(C) <= L
          /\ \/ mk.until <= n
             \/ Cardinality(C) < L /\ Cardinality(C) <= lv.value
    BY DEF FixedAllowed
  <1> DEFINE D == C \union {r}
             h == g \union {r}
  <1>2. IsFiniteSet(C) /\ Cardinality(C) \in Nat /\ r \notin C
    BY Parts
  <1>3. D \in SUBSET h /\ Cardinality(D) = Cardinality(C) + 1
    BY <1>2, CountMore
  <1>4. h \ D = g \ C
    OBVIOUS
  <1>5. Late(h, D, p) = Late(g, C, p)
    BY <1>4 DEF Late
  <1>6. Opened(h, mk, lw, D)
    BY <1>1, <1>4 DEF Opened
  <1>7. Room(g, r[1], 2 * L)
    <2>1. Room(C, r[1], L)
      BY <1>0, <1>1, <1>2, RoomWithin, RoomLoose
    <2>2. Room(g, r[1], L + L)
      BY <1>0, <1>1, <2>1, RoomBehind
    <2> QED BY <2>2
  <1> HIDE DEF D, h
  <1>8. p + Window <= n
    BY <1>0, <1>1
  <1>9. \/ /\ Cardinality(D) <= L
           /\ lw.until <= n \/ Cardinality(D) <= lw.value
        \/ /\ Cardinality(D) <= L + 1
           /\ mk.until <= n /\ mk.value + Window <= n
    <2>1. CASE mk.until <= n
      <3>1. mk.value + Window <= n
        BY <1>1, <2>1 DEF Opened
      <3> QED BY <1>1, <1>2, <1>3, <2>1, <3>1
    <2>2. CASE ~(mk.until <= n)
      <3>1. ~(lv.until <= n)
        BY <1>1, <2>2 DEF Opened
      <3> QED BY <1>1, <1>2, <1>3, <2>2, <3>1
    <2> QED BY <2>1, <2>2
  <1>10. FixedOpen(L, h, mk, lw, n, n)
    BY <1>1, <1>3, <1>5, <1>6, <1>8, <1>9 DEF FixedOpen
  <1> QED BY <1>7, <1>10 DEF h

\* A request over the limit is counted too, and lets nothing through.
LEMMA FixedDenies ==
  ASSUME NEW L \in Nat \ {0}, NEW g \in SUBSET Requests, IsFiniteSet(g),
         NEW mk \in Moment, NEW lv \in Moment, NEW lw \in Moment, NEW n \in Int,
         NEW a \in Int, a <= n,
         FixedOpen(L, g, mk, lv, n, a), g # {}, a < mk.value + Window,
         lv.until <= lw.until, lv.until <= n \/ (lw.value = lv.value + 1)
  PROVE  FixedOpen(L, g, mk, lw, n, n)
  <1> USE DEF Moment
  <1>1. PICK p \in Int, C \in SUBSET g :
          /\ Cardinality(Late(g, C, p)) <= L /\ p + Window <= a
          /\ Opened(g, mk, lv, C)
          /\ \/ /\ Cardinality(C) <= L
                /\ lv.until <= n \/ Cardinality(C) <= lv.value
             \/ /\ Cardinality(C) <= L + 1
                /\ mk.until <= n /\ mk.value + Window <= a
    BY DEF FixedOpen
  <1>2. Cardinality(C) \in Nat /\ p + Window <= n
    BY <1>1, Parts
  <1>3. Opened(g, mk, lw, C)
    BY <1>1 DEF Opened
  <1>4. \/ /\ Cardinality(C) <= L
           /\ lw.until <= n \/ Cardinality(C) <= lw.value
        \/ /\ Cardinality(C) <= L + 1
           /\ mk.until <= n /\ mk.value + Window <= n
    <2>1. CASE lv.until <= n
      BY <1>1, <1>2, <2>1 DEF Opened
    <2>2. CASE ~(lv.until <= n)
      BY <1>1, <1>2, <2>2
    <2> QED BY <2>1, <2>2
  <1> QED BY <1>1, <1>2, <1>3, <1>4 DEF FixedOpen

-----------------------------------------------------------------------------
(* How checks follow one another *)

\* A check begins where none is under way.
LEMMA Begins ==
  ASSUME IInv, NEW c \in Checks, Begin(c), orderly'
  PROVE  /\ orderly /\ Active = {} /\ Active' = {c}
         /\ check'[c].pc = Entry[kind] /\ check'[c].at = now
         /\ UNCHANGED <<kind, limit, mark, level, stamps, granted, now>>
  <1>1. check \in [Checks -> CheckRow] /\ kind \in Algorithms
    BY DEF IInv, ChecksOK, ConfigOK
  <1>2. orderly /\ Active = {}
        /\ UNCHANGED <<kind, limit, mark, level, stamps, granted, now>>
        /\ check' = [check EXCEPT ![c] = [@ EXCEPT !.pc = Entry[kind], !.at = now]]
    BY DEF Begin, keys
  <1>3. check'[c].pc = Entry[kind] /\ check'[c].at = now
    BY <1>1, <1>2 DEF CheckRow
  <1>4. Entry[kind] # "idle"
    BY <1>1 DEF Entry, Algorithms
  <1>5. \A d \in Checks : check'[d].pc # "idle" <=> d = c
    BY <1>1, <1>2, <1>3, <1>4 DEF Active
  <1> QED BY <1>2, <1>3, <1>5 DEF Active

\* A check under way stays as late as it began; one that ends is noted, or not.
Others(c) == \A d \in Checks \ {c} : check'[d] = check[d]

Stays(c) == /\ Others(c)
            /\ check'[c].pc # "idle" /\ check'[c].at = check[c].at
            /\ granted' = granted

Ends(c) == /\ Others(c) /\ check'[c].pc = "idle"
           /\ granted' = granted \/ granted' = Noted(granted, check[c].at)

Row(c, pc, allow, val) ==
  check'[c].pc = pc /\ check'[c].allow = allow /\ check'[c].val = val

LEMMA Moves ==
  ASSUME IInv, NEW c \in Checks
  PROVE  /\ \A pc : pc # "idle" /\ Goto(c, pc)
                      => Stays(c) /\ Row(c, pc, check[c].allow, check[c].val)
         /\ \A pc, allow : pc # "idle" /\ Decide(c, pc, allow)
              => Stays(c) /\ Row(c, pc, allow, check[c].val)
         /\ \A pc, val : pc # "idle" /\ Hold(c, pc, val)
              => Stays(c) /\ Row(c, pc, check[c].allow, val)
         /\ \A allow : Answer(c, allow) => Ends(c)
  <1>1. check \in [Checks -> CheckRow]
    BY DEF IInv, ChecksOK
  <1>2. ASSUME NEW pc, pc # "idle", Goto(c, pc)
        PROVE  Stays(c) /\ Row(c, pc, check[c].allow, check[c].val)
    BY <1>1, <1>2 DEF Goto, CheckRow, Stays, Others, Row
  <1>3. ASSUME NEW pc, NEW allow, pc # "idle", Decide(c, pc, allow)
        PROVE  Stays(c) /\ Row(c, pc, allow, check[c].val)
    BY <1>1, <1>3 DEF Decide, CheckRow, Stays, Others, Row
  <1>4. ASSUME NEW pc, NEW val, pc # "idle", Hold(c, pc, val)
        PROVE  Stays(c) /\ Row(c, pc, check[c].allow, val)
    BY <1>1, <1>4 DEF Hold, CheckRow, Stays, Others, Row
  <1>5. ASSUME NEW allow, Answer(c, allow) PROVE Ends(c)
    BY <1>1, <1>5 DEF Answer, Idle, Ends, Others
  <1> QED BY <1>2, <1>3, <1>4, <1>5

LEMMA StepMoves ==
  ASSUME IInv, NEW c \in Checks, Step(c)
  PROVE  /\ check[c].pc # "idle" /\ UNCHANGED <<kind, limit, orderly, now>>
         /\ Stays(c) \/ Ends(c)
  <1>1. UNCHANGED <<kind, limit, orderly, now>>
    BY DEF Step
  <1>2. CASE Fixed(c)
    <2>1. CASE FixedStart(c)
      BY <1>1, <2>1, Moves DEF FixedStart
    <2>2. CASE FixedSetStart(c)
      BY <1>1, <2>2, Moves DEF FixedSetStart
    <2>3. CASE FixedSetCount(c)
      BY <1>1, <2>3, Moves DEF FixedSetCount
    <2>4. CASE FixedCount(c)
      BY <1>1, <2>4, Moves DEF FixedCount
    <2>5. CASE FixedIncr(c)
      BY <1>1, <2>5, Moves DEF FixedIncr
    <2> QED BY <1>2, <2>1, <2>2, <2>3, <2>4, <2>5 DEF Fixed
  <1>3. CASE Sliding(c)
    <2>1. CASE SlidingRange(c)
      BY <1>1, <2>1, Moves DEF SlidingRange
    <2>2. CASE SlidingPush(c)
      BY <1>1, <2>2, Moves DEF SlidingPush
    <2>3. CASE SlidingTrim(c)
      BY <1>1, <2>3, Moves DEF SlidingTrim
    <2>4. CASE SlidingExpire(c)
      BY <1>1, <2>4, Moves DEF SlidingExpire
    <2> QED BY <1>3, <2>1, <2>2, <2>3, <2>4 DEF Sliding
  <1>4. CASE Bucket(c)
    <2>1. CASE BucketRefill(c)
      BY <1>1, <2>1, Moves DEF BucketRefill
    <2>2. CASE BucketTokens(c)
      BY <1>1, <2>2, Moves DEF BucketTokens
    <2>3. CASE BucketFill(c)
      BY <1>1, <2>3, Moves DEF BucketFill
    <2>4. CASE BucketInitRefill(c)
      BY <1>1, <2>4, Moves DEF BucketInitRefill
    <2>5. CASE BucketInitTokens(c)
      BY <1>1, <2>5, Moves DEF BucketInitTokens
    <2>6. CASE BucketTakeRefill(c)
      BY <1>1, <2>6, Moves DEF BucketTakeRefill
    <2>7. CASE BucketTakeTokens(c)
      BY <1>1, <2>7, Moves DEF BucketTakeTokens
    <2> QED BY <1>4, <2>1, <2>2, <2>3, <2>4, <2>5, <2>6, <2>7 DEF Bucket
  <1> QED BY <1>2, <1>3, <1>4 DEF Step

\* While checks are serial, the one that moves is the only one.
LEMMA Alone ==
  ASSUME IInv, OrderInv, NEW c \in Checks, Step(c), orderly'
  PROVE  /\ orderly /\ Active = {c} /\ check[c].pc # "idle"
         /\ check[c].at \in 0..MaxTime /\ check[c].at <= now
         /\ \A r \in granted : r[1] <= check[c].at
         /\ IF check'[c].pc = "idle" THEN Active' = {} ELSE Active' = {c}
  <1>1. check[c].pc # "idle" /\ orderly /\ \A d \in Checks \ {c} : check'[d] = check[d]
    BY StepMoves DEF Stays, Ends, Others
  <1>2. Active = {c}
    BY <1>1 DEF OrderInv, Active
  <1>3. \A d \in Checks \ {c} : check'[d].pc = "idle"
    BY <1>1, <1>2 DEF Active
  <1>4. check[c].at \in 0..MaxTime
    BY OnPath DEF CheckRow
  <1> QED BY <1>1, <1>2, <1>3, <1>4 DEF OrderInv, Active

LEMMA OrderStep ==
  ASSUME IInv, OrderInv, [Next]_vars
  PROVE  OrderInv'
  <1> SUFFICES ASSUME orderly' PROVE OrderInv'
    BY DEF OrderInv
  <1>0. now \in Nat /\ granted \in SUBSET Requests /\ IsFiniteSet(granted)
    BY DEF IInv, ConfigOK, CountsOK
  <1>1. ASSUME NEW c \in Checks, Begin(c) PROVE OrderInv'
    BY <1>0, <1>1, Begins DEF OrderInv
  <1>2. ASSUME NEW c \in Checks, Die(c) PROVE OrderInv'
    BY <1>2 DEF Die
  <1>3. ASSUME NEW c \in Checks, Step(c) PROVE OrderInv'
    <2>1. /\ orderly /\ check[c].at \in 0..MaxTime /\ check[c].at <= now
          /\ \A r \in granted : r[1] <= check[c].at
          /\ IF check'[c].pc = "idle" THEN Active' = {} ELSE Active' = {c}
          /\ now' = now
      BY <1>3, Alone DEF Step
    <2>2. CASE check'[c].pc # "idle"
      BY <1>3, <2>1, <2>2, StepMoves DEF OrderInv, Stays, Ends
    <2>3. CASE check'[c].pc = "idle"
      <3>1. granted' = granted \/ granted' = Noted(granted, check[c].at)
        BY <1>3, <2>3, StepMoves DEF Stays, Ends
      <3>2. \A r \in Noted(granted, check[c].at) : r \in granted \/ r[1] = check[c].at
        BY DEF Noted
      <3>3. \A r \in granted' : r[1] <= now
        BY <2>1, <3>1, <3>2 DEF OrderInv
      <3> QED BY <2>1, <2>3, <3>3 DEF OrderInv
    <2> QED BY <2>2, <2>3
  <1>4. CASE Tick
    <2>1. Active' = Active
      BY <1>4 DEF Tick, Active
    <2>2. now' = now + 1 /\ orderly
          /\ UNCHANGED <<check, granted>>
      BY <1>4 DEF Tick
    <2>3. \A c \in Active : check[c].at \in Int
      BY DEF Active, IInv, ChecksOK, CheckRow
    <2>4. \A r \in granted : r[1] \in Int
      BY <1>0 DEF Requests
    <2> QED BY <1>0, <2>1, <2>2, <2>3, <2>4 DEF OrderInv
  <1>5. CASE UNCHANGED vars
    BY <1>5 DEF vars, OrderInv, Active
  <1> QED BY <1>1, <1>2, <1>3, <1>4, <1>5 DEF Next

LEMMA NumberedStep ==
  ASSUME IInv, Numbered(granted), [Next]_vars
  PROVE  Numbered(granted')
  <1>0. granted \in SUBSET Requests /\ IsFiniteSet(granted)
    BY DEF IInv, CountsOK
  <1>1. ASSUME NEW c \in Checks, Step(c) PROVE Numbered(granted')
    <2>1. granted' = granted \/ granted' = Noted(granted, check[c].at)
      BY <1>1, StepMoves DEF Stays, Ends
    <2>2. check[c].at \in 0..MaxTime
      BY OnPath DEF CheckRow
    <2>3. Numbered(Noted(granted, check[c].at))
      <3>1. \E r : Noted(granted, check[c].at) = granted \union {r}
                     /\ Numbered(granted \union {r})
        BY <1>0, <2>2, Fresh
      <3> QED BY <3>1
    <2> QED BY <2>1, <2>3
  <1>2. CASE UNCHANGED granted
    BY <1>2
  <1> QED BY <1>1, <1>2 DEF Next, Begin, Die, Tick, vars

LEMMA Sorts ==
  ASSUME IInv
  PROVE  /\ limit \in Nat \ {0} /\ now \in 0..MaxTime
         /\ mark \in Moment /\ level \in Moment /\ stamps.until \in Int
         /\ mark.value \in Int /\ level.value \in Int
         /\ mark.until <= Forever /\ level.until <= Forever
         /\ granted \in SUBSET Requests /\ IsFiniteSet(granted)
  BY DEF IInv, ConfigOK, KeysOK, CountsOK, Tokens, Moment, Forever

\* What a step of the fixed window leaves behind.
LEMMA FixedMoves ==
  ASSUME IInv, OrderInv, Numbered(granted), FixedInv, kind = "fixed", orderly,
         NEW c \in Checks, Fixed(c), UNCHANGED <<kind, limit, orderly, now>>,
         Active = {c}, check[c].at \in 0..MaxTime, check[c].at <= now,
         \A r \in granted : r[1] <= check[c].at
  PROVE  /\ check'[c].pc # "idle" =>
              FixedRow(limit, granted, mark', level', now, check'[c])
         /\ check'[c].pc = "idle" =>
              /\ FixedOpen(limit, granted', mark, level', now, now)
              /\ UNCHANGED mark
              /\ \/ granted' = granted
                 \/ \E r \in Requests \ granted :
                      /\ granted' = granted \union {r}
                      /\ Room(granted, r[1], 2 * limit)
  <1> DEFINE a == check[c].at
  <1>0. /\ limit \in Nat \ {0} /\ now \in Nat
        /\ mark \in Moment /\ level \in Moment
        /\ mark.value \in Int /\ level.value \in Int
        /\ mark.until \in Int /\ level.until \in Int
        /\ level.until <= Forever
        /\ granted \in SUBSET Requests /\ IsFiniteSet(granted)
        /\ check[c] \in CheckRow /\ kind = "fixed"
    BY Sorts, OnPath DEF Moment
  <1>1. FixedRow(limit, granted, mark, level, now, check[c])
    BY DEF FixedInv
  <1>2. CASE FixedStart(c)
    <2>1. FixedOpen(limit, granted, mark, level, now, a)
      BY <1>1, <1>2 DEF FixedStart, FixedRow
    <2>2. /\ check'[c].at = a /\ granted' = granted /\ mark' = mark /\ level' = level
          /\ check'[c].pc = IF ~Gone(mark) /\ a - mark.value < Window
                            THEN "count" ELSE "setStart"
      BY <1>0, <1>2, Moves DEF FixedStart, Stays, keys, Row
    <2>3. CASE ~Gone(mark) /\ a - mark.value < Window
      <3>1. granted # {}
        <4> SUFFICES ASSUME granted = {} PROVE FALSE
          OBVIOUS
        <4>1. PICK C \in SUBSET granted : Opened(granted, mark, level, C)
          BY <1>0, <2>1, <2>3 DEF FixedOpen, Gone
        <4> QED BY <4>1 DEF Opened
      <3>2. a < mark.value + Window
        BY <1>0, <2>3
      <3> QED BY <2>1, <2>2, <2>3, <3>1, <3>2 DEF FixedRow
    <2>4. CASE ~(~Gone(mark) /\ a - mark.value < Window)
      <3>1. mark.until <= now \/ mark.value + Window <= a
        BY <1>0, <2>4 DEF Gone
      <3> QED BY <2>1, <2>2, <2>4, <3>1 DEF FixedRow
    <2> QED BY <2>3, <2>4
  <1>3. CASE FixedSetStart(c)
    <2>1. /\ FixedOpen(limit, granted, mark, level, now, a)
          /\ mark.until <= now \/ mark.value + Window <= a
      BY <1>1, <1>3 DEF FixedSetStart, FixedRow
    <2>2. /\ check'[c].at = a /\ check'[c].pc = "setCount"
          /\ mark'.value = a /\ mark'.until = now + Life
      BY <1>0, <1>3, Moves DEF FixedSetStart, Stays, Row, Setex, Key
    <2>3. /\ Room(granted, a, 2 * limit)
          /\ \E p \in Int : Cardinality(From(granted, p + 1)) <= limit
                            /\ p + Window <= now
      BY <1>0, <2>1, FixedOpens
    <2>4. a + Window <= mark'.until /\ mark'.until <= now + Life
      BY <1>0, <2>2
    <2>5. FixedOpening(limit, granted, mark', now, a)
      BY <2>2, <2>3, <2>4 DEF FixedOpening
    <2> QED BY <2>2, <2>5 DEF FixedRow
  <1>4. CASE FixedSetCount(c)
    <2>1. FixedOpening(limit, granted, mark, now, a)
      BY <1>1, <1>4 DEF FixedSetCount, FixedRow
    <2>2. /\ check'[c].pc = "idle" /\ mark' = mark
          /\ level' = [value |-> 1, until |-> now + Life]
          /\ granted' = Noted(granted, a)
      BY <1>0, <1>4, Moves DEF FixedSetCount, Answer, Ends, Setex, Key
    <2>3. level' \in Moment /\ level'.value = 1 /\ level'.until = now + Life
      BY <1>0, <2>2 DEF Moment
    <2>4. PICK r \in Requests \ granted :
            r[1] = a /\ Noted(granted, a) = granted \union {r}
      BY <1>0, Fresh
    <2>5. /\ FixedOpen(limit, granted \union {r}, mark, level', now, now)
          /\ Room(granted, r[1], 2 * limit)
      BY <1>0, <2>1, <2>3, <2>4, FixedOpened
    <2> QED BY <2>2, <2>4, <2>5
  <1>5. CASE FixedCount(c)
    <2>1. /\ FixedOpen(limit, granted, mark, level, now, a)
          /\ granted # {} /\ a < mark.value + Window
      BY <1>1, <1>5 DEF FixedCount, FixedRow
    <2>2. /\ check'[c].pc = "incr" /\ check'[c].at = a
          /\ mark' = mark /\ level' = level
          /\ check'[c].allow = (Gone(level) \/ level.value < limit)
      BY <1>0, <1>5, Moves DEF FixedCount, Stays, keys, Row
    <2>3. Gone(level) \/ level.value < limit
            => FixedAllowed(limit, granted, mark, level, now, a)
      BY <1>0, <2>1, FixedAllows DEF Gone
    <2> QED BY <2>1, <2>2, <2>3 DEF FixedRow
  <1>6. CASE FixedIncr(c)
    <2>1. IF check[c].allow THEN FixedAllowed(limit, granted, mark, level, now, a)
          ELSE /\ FixedOpen(limit, granted, mark, level, now, a)
               /\ granted # {} /\ a < mark.value + Window
      BY <1>1, <1>6 DEF FixedIncr, FixedRow
    <2>2. /\ check'[c].pc = "idle" /\ mark' = mark /\ level' = Incr(level)
          /\ granted' = IF check[c].allow THEN Noted(granted, a) ELSE granted
      BY <1>0, <1>6, Moves DEF FixedIncr, Answer, Ends
    <2>3. /\ level' \in Moment /\ level.until <= level'.until
          /\ level.until <= now \/ (level'.value = level.value + 1)
      <3>1. CASE Gone(level)
        BY <1>0, <2>2, <3>1 DEF Incr, Key, Moment, Gone, Forever
      <3>2. CASE ~Gone(level)
        <4>1. level' = [value |-> level.value + 1, until |-> level.until]
          BY <1>0, <2>2, <3>2 DEF Incr, Moment
        <4> QED BY <1>0, <4>1 DEF Moment
      <3> QED BY <3>1, <3>2
    <2>4. CASE check[c].allow
      <3>1. PICK r \in Requests \ granted :
              r[1] = a /\ Noted(granted, a) = granted \union {r}
        BY <1>0, Fresh
      <3>2. /\ FixedOpen(limit, granted \union {r}, mark, level', now, now)
            /\ Room(granted, r[1], 2 * limit)
        <4>1. FixedAllowed(limit, granted, mark, level, now, r[1]) /\ r[1] <= now
          BY <2>1, <2>4, <3>1
        <4>2. limit \in Nat \ {0} /\ now \in Int
          BY <1>0
        <4> QED BY <1>0, <2>3, <4>1, <4>2, FixedCounts
      <3> QED BY <2>2, <2>4, <3>1, <3>2
    <2>5. CASE ~check[c].allow
      <3>1. FixedOpen(limit, granted, mark, level', now, now)
        BY <1>0, <2>1, <2>3, <2>5, FixedDenies
      <3> QED BY <2>2, <2>5, <3>1
    <2> QED BY <2>4, <2>5
  <1> QED BY <1>2, <1>3, <1>4, <1>5, <1>6 DEF Fixed

\* Time passes, and nothing else.
LEMMA Ticks ==
  ASSUME IInv, Tick
  PROVE  /\ UNCHANGED <<kind, limit, mark, level, stamps, check, granted, orderly>>
         /\ Active' = Active /\ now' = now + 1 /\ now \in Nat
         /\ \A c \in Active : check[c].at \in Int
  BY DEF Tick, keys, Active, IInv, ConfigOK, ChecksOK, CheckRow

LEMMA FixedStep ==
  ASSUME IInv, OrderInv, Numbered(granted), FixedInv, [Next]_vars,
         kind = "fixed", orderly', Sparse(granted, 2 * limit + 1)
  PROVE  FixedInv' /\ Sparse(granted', 2 * limit + 1)
  <1>0. /\ limit \in Nat \ {0} /\ now \in Nat
        /\ mark \in Moment /\ level \in Moment
        /\ granted \in SUBSET Requests /\ IsFiniteSet(granted)
    BY Sorts
  <1>1. ASSUME NEW c \in Checks, Begin(c)
        PROVE  FixedInv' /\ Sparse(granted', 2 * limit + 1)
    <2>1. /\ orderly /\ Active = {} /\ Active' = {c}
          /\ check'[c].pc = "start" /\ check'[c].at = now
          /\ UNCHANGED <<kind, limit, mark, level, granted, now>>
      BY <1>1, Begins DEF Entry
    <2>2. FixedOpen(limit, granted, mark, level, now, now)
      BY <2>1 DEF FixedInv
    <2>3. FixedRow(limit, granted, mark, level, now, check'[c])
      BY <2>1, <2>2 DEF FixedRow
    <2> QED BY <2>1, <2>3 DEF FixedInv
  <1>2. ASSUME NEW c \in Checks, Die(c) PROVE FALSE
    BY <1>2 DEF Die
  <1>3. ASSUME NEW c \in Checks, Step(c)
        PROVE  FixedInv' /\ Sparse(granted', 2 * limit + 1)
    <2>1. /\ orderly /\ Active = {c} /\ check[c].pc # "idle"
          /\ check[c].at \in 0..MaxTime /\ check[c].at <= now
          /\ \A r \in granted : r[1] <= check[c].at
          /\ IF check'[c].pc = "idle" THEN Active' = {} ELSE Active' = {c}
      BY <1>3, Alone
    <2>2. Fixed(c) /\ UNCHANGED <<kind, limit, orderly, now>>
      BY <1>3, ByKind DEF Step
    <2>3. CASE check'[c].pc # "idle"
      <3>1. FixedRow(limit, granted, mark', level', now, check'[c])
        BY <2>1, <2>2, <2>3, FixedMoves
      <3>2. granted' = granted
        BY <1>3, <2>3, StepMoves DEF Stays, Ends
      <3> QED BY <2>1, <2>2, <2>3, <3>1, <3>2 DEF FixedInv
    <2>4. CASE check'[c].pc = "idle"
      <3>1. /\ FixedOpen(limit, granted', mark, level', now, now)
            /\ UNCHANGED mark
            /\ \/ granted' = granted
               \/ \E r \in Requests \ granted :
                    /\ granted' = granted \union {r}
                    /\ Room(granted, r[1], 2 * limit)
        BY <2>1, <2>2, <2>4, FixedMoves
      <3>2. FixedInv'
        BY <2>1, <2>2, <2>4, <3>1 DEF FixedInv
      <3>3. 2 * limit \in Int /\ 2 * limit + 1 \in Int
        BY <1>0
      <3>4. Sparse(granted', 2 * limit + 1)
        BY <1>0, <3>1, <3>3, StaysSparse
      <3> QED BY <3>2, <3>4
    <2> QED BY <2>3, <2>4
  <1>4. CASE Tick
    <2>1. /\ UNCHANGED <<kind, limit, mark, level, check, granted, orderly>>
          /\ Active' = Active /\ now' = now + 1
          /\ \A c \in Active : check[c].at \in Int
      BY <1>4, Ticks
    <2>2. FixedOpen(limit, granted, mark, level, now, now)
            => FixedOpen(limit, granted, mark, level, now + 1, now + 1)
      BY <1>0, FixedLater
    <2>3. ASSUME NEW c \in Active,
                 FixedRow(limit, granted, mark, level, now, check[c])
          PROVE  FixedRow(limit, granted, mark, level, now + 1, check[c])
      BY <1>0, <2>1, <2>3, FixedRowLater
    <2> QED BY <2>1, <2>2, <2>3 DEF FixedInv
  <1>5. CASE UNCHANGED vars
    BY <1>5 DEF vars, keys, FixedInv, Active
  <1> QED BY <1>1, <1>2, <1>3, <1>4, <1>5 DEF Next

-----------------------------------------------------------------------------
(* The sliding window, step by step *)

Roll == [value : Seq(Int), until : Int]

LEMMA StampedLater ==
  ASSUME NEW L, NEW g, NEW st, NEW a \in Int, NEW b \in Int, a <= b,
         NEW p \in Int, NEW C, Stamped(L, g, st, a, p, C)
  PROVE  Stamped(L, g, st, b, p, C)
  <1>1. p + Window <= a => p + Window <= b
    OBVIOUS
  <1> QED BY <1>1 DEF Stamped

LEMMA SlidingLater ==
  ASSUME NEW L, NEW g, NEW st \in Roll, NEW n \in Int,
         NEW m \in Int, n <= m, NEW a \in Int, NEW b \in Int, a <= b
  PROVE  /\ SlidingOpen(L, g, st, n, a) => SlidingOpen(L, g, st, m, b)
         /\ SlidingDenied(L, g, st, n, a) => SlidingDenied(L, g, st, m, b)
         /\ SlidingPushing(L, g, st, n, a) => SlidingPushing(L, g, st, m, a)
         /\ SlidingPushed(L, g, st, n, a) => SlidingPushed(L, g, st, m, a)
  <1>1. st.until <= n => st.until <= m
    BY DEF Roll
  <1>2. ASSUME NEW p \in Int, NEW C
        PROVE  /\ Stamped(L, g, st, a, p, C) => Stamped(L, g, st, b, p, C)
               /\ Stamped(L, g, st, n, p, C) => Stamped(L, g, st, m, p, C)
    BY <1>2, StampedLater
  <1>3. SlidingOpen(L, g, st, n, a) => SlidingOpen(L, g, st, m, b)
    BY <1>1, <1>2 DEF SlidingOpen
  <1>4. SlidingDenied(L, g, st, n, a) => SlidingDenied(L, g, st, m, b)
    BY <1>1, <1>2 DEF SlidingDenied
  <1>5. SlidingPushing(L, g, st, n, a) => SlidingPushing(L, g, st, m, a)
    BY <1>1 DEF SlidingPushing
  <1>6. SlidingPushed(L, g, st, n, a) => SlidingPushed(L, g, st, m, a)
    BY <1>1, <1>2 DEF SlidingPushed
  <1> QED BY <1>3, <1>4, <1>5, <1>6

LEMMA SlidingRowLater ==
  ASSUME NEW L, NEW g, NEW st \in Roll, NEW n \in Int,
         NEW m \in Int, n <= m, NEW row, row.at \in Int,
         SlidingRow(L, g, st, n, row)
  PROVE  SlidingRow(L, g, st, m, row)
  <1>1. /\ SlidingOpen(L, g, st, n, row.at) => SlidingOpen(L, g, st, m, row.at)
        /\ SlidingDenied(L, g, st, n, row.at) => SlidingDenied(L, g, st, m, row.at)
        /\ SlidingPushing(L, g, st, n, row.at) => SlidingPushing(L, g, st, m, row.at)
        /\ SlidingPushed(L, g, st, n, row.at) => SlidingPushed(L, g, st, m, row.at)
    BY SlidingLater
  <1>2. SlidingDenied(L, g, st, n, n) => SlidingDenied(L, g, st, m, m)
    BY SlidingLater
  <1> QED BY <1>1, <1>2 DEF SlidingRow

\* No stretch of a sparse history holds more than the limit.
LEMMA SparseRoom ==
  ASSUME NEW C, NEW a, NEW b, Sparse(C, b)
  PROVE  Room(C, a, b)
  BY DEF Sparse, Room

LEMMA NoRequests ==
  ASSUME NEW L \in Nat, NEW v, NEW a
  PROVE  /\ Sparse({}, L) /\ Room({}, a, L)
         /\ From({}, v) = {} /\ Cardinality(From({}, v)) = 0
  <1>1. \A t, u : During({}, t, u) = {} /\ Cardinality(During({}, t, u)) = 0
    BY FS_EmptySet DEF During
  <1>2. From({}, v) = {} /\ Cardinality(From({}, v)) = 0
    BY FS_EmptySet DEF From
  <1> QED BY <1>1, <1>2 DEF Sparse, Room

\* When the list is gone, everything that was stamped is a window's length
\* before whatever is allowed from now on.
LEMMA ListGone ==
  ASSUME NEW L \in Nat, NEW g \in SUBSET Requests, IsFiniteSet(g),
         NEW st \in Roll, NEW n \in Int, st.until <= n,
         NEW p \in Int, NEW C \in SUBSET g, NEW a \in Int, a <= n,
         Stamped(L, g, st, a, p, C)
  PROVE  \E q \in Int : /\ Cardinality(Late(g, {}, q)) <= 1 /\ q + Window <= n
                        /\ C = {} => q = p
                        /\ C # {} \/ Late(g, C, p) = {} => Late(g, {}, q) = {}
  <1>1. CASE C = {}
    <2>1. p + Window <= n
      BY DEF Stamped
    <2> QED BY <1>1, <2>1 DEF Stamped
  <1>2. CASE C # {}
    <2> DEFINE q == st.until - Window
    <2>1. q \in Int /\ q + Window <= n
      BY DEF Roll
    <2>2. \A r \in g : r[1] \in Int
      BY DEF Requests
    <2>3. \A r \in C : r[1] <= q
      BY <2>2 DEF Stamped, Roll
    <2>4. PICK s \in C : TRUE
      BY <1>2
    <2>5. \A r \in g \ C : r[1] <= s[1]
      BY DEF Stamped
    <2>6. Late(g, {}, q) = {}
      BY <2>1, <2>2, <2>3, <2>5 DEF Late
    <2> HIDE DEF q
    <2>7. Cardinality(Late(g, {}, q)) <= 1
      BY <2>6, FS_EmptySet
    <2> QED BY <1>2, <2>1, <2>6, <2>7
  <1> QED BY <1>1, <1>2

\* A check that reads fewer stamps than the limit in its window finds fewer
\* requests of C there.
LEMMA FewStamps ==
  ASSUME NEW L \in Nat \ {0}, NEW C, IsFiniteSet(C), NEW s \in Seq(Int),
         NEW v \in Int, Listed(L, C, s),
         Cardinality({i \in DOMAIN s : s[i] >= v}) < L
  PROVE  Cardinality(From(C, v)) < L
  <1> DEFINE V == {i \in DOMAIN s : s[i] >= v}
  <1> SUFFICES ASSUME ~(Cardinality(From(C, v)) < L)
      PROVE  FALSE
    OBVIOUS
  <1>1. Cardinality(From(C, v)) \in Nat
    <2>1. From(C, v) \in SUBSET C
      BY DEF From
    <2> QED BY <2>1, CountLess
  <1>2. \A k \in 1..L : k <= Len(s) /\ v <= s[k]
    BY <1>1 DEF Listed
  <1>3. DOMAIN s = 1..Len(s) /\ Len(s) \in Nat
    OBVIOUS
  <1>4. 1..L \in SUBSET V
    BY <1>2, <1>3
  <1>5. IsFiniteSet(V)
    <2>1. V \in SUBSET (1..Len(s))
      BY <1>3
    <2>2. IsFiniteSet(1..Len(s))
      BY <1>3, FS_Interval
    <2> QED BY <2>1, <2>2, CountLess
  <1>6. Cardinality(1..L) = L
    BY FS_Interval
  <1> QED BY <1>4, <1>5, <1>6, CountLess

\* How LPUSH leaves the list.
Pushed(st, tu, a, n) ==
  \/ st.until <= n /\ tu.value = <<a>> /\ tu.until = Forever
  \/ n < st.until /\ tu.value = <<a>> \o st.value /\ tu.until = st.until

LEMMA PushOne ==
  ASSUME NEW a \in Int, NEW s \in Seq(Int)
  PROVE  /\ Len(<<a>>) = 1 /\ <<a>>[1] = a
         /\ <<a>> \o s \in Seq(Int) /\ Len(<<a>> \o s) = Len(s) + 1
         /\ (<<a>> \o s)[1] = a
         /\ \A k \in Nat : 2 <= k /\ k <= Len(s) + 1 => (<<a>> \o s)[k] = s[k - 1]
  OBVIOUS

\* An allowed check pushes its stamp.
LEMMA SlidingPushes ==
  ASSUME NEW L \in Nat \ {0}, NEW g \in SUBSET Requests, IsFiniteSet(g),
         NEW st \in Roll, NEW tu \in Roll, NEW n \in Int, NEW a \in Int, a <= n,
         \A r \in g : r[1] <= a, SlidingPushing(L, g, st, n, a),
         Pushed(st, tu, a, n)
  PROVE  SlidingPushed(L, g, tu, n, a)
  <1>1. PICK p \in Int, C \in SUBSET g :
          /\ Stamped(L, g, st, a, p, C)
          /\ C = {} => Late(g, C, p) = {} \/ st.until <= n
          /\ \/ st.until <= n
             \/ Listed(L, C, st.value) /\ Cardinality(From(C, a - Window)) < L
    BY DEF SlidingPushing
  <1>2. Room(g, a, L + 1)
    <2>1. Cardinality(Late(g, C, p)) <= 1 /\ p + Window <= a /\ Sparse(C, L)
      BY <1>1 DEF Stamped
    <2>2. Room(C, a, L)
      BY <2>1, SparseRoom
    <2>3. Room(g, a, 1 + L)
      BY <2>1, <2>2, RoomBehind
    <2> QED BY <2>3
  <1>3. CASE st.until <= n
    <2>1. PICK q \in Int : Cardinality(Late(g, {}, q)) <= 1 /\ q + Window <= n
      BY <1>1, <1>3, ListGone
    <2>2. tu.value = <<a>> /\ tu.until = Forever
      BY <1>3 DEF Pushed, Roll
    <2>3. Sparse({}, L) /\ Room({}, a, L - 1)
      BY NoRequests
    <2>4. Stamped(L, g, tu, n, q, {})
      BY <2>1, <2>3 DEF Stamped
    <2>5. ListedWith(L, {}, tu.value, a)
      <3> SUFFICES ASSUME NEW v \in Int, NEW k \in 1..L,
                          v <= a, k <= Cardinality(From({}, v)) + 1
          PROVE  k <= Len(tu.value) /\ v <= tu.value[k]
        BY DEF ListedWith
      <3>1. k = 1
        BY NoRequests
      <3> QED BY <2>2, <3>1, PushOne
    <2>6. {} \in SUBSET g
      OBVIOUS
    <2> QED BY <1>2, <2>2, <2>3, <2>4, <2>5, <2>6 DEF SlidingPushed
  <1>4. CASE ~(st.until <= n)
    <2>1. Listed(L, C, st.value) /\ Cardinality(From(C, a - Window)) < L
      BY <1>1, <1>4
    <2>2. tu.value = <<a>> \o st.value /\ tu.until = st.until
      BY <1>4 DEF Pushed
    <2>3. Stamped(L, g, tu, n, p, C)
      <3>1. p + Window <= n
        BY <1>1 DEF Stamped
      <3> QED BY <1>1, <2>2, <3>1 DEF Stamped
    <2>4. Room(C, a, L - 1)
      <3> SUFFICES ASSUME NEW t \in Int, t <= a, a <= t + Window - 1
          PROVE  Cardinality(During(C, t, t + Window - 1)) <= L - 1
        BY DEF Room
      <3>1. \A r \in C : r[1] \in Int
        BY DEF Requests
      <3>2. During(C, t, t + Window - 1) \in SUBSET From(C, a - Window)
        BY <3>1 DEF During, From
      <3>3. /\ IsFiniteSet(From(C, a - Window))
            /\ Cardinality(From(C, a - Window)) \in Nat
        BY Parts
      <3>4. /\ Cardinality(During(C, t, t + Window - 1)) \in Nat
            /\ Cardinality(During(C, t, t + Window - 1))
                 <= Cardinality(From(C, a - Window))
        BY <3>2, <3>3, CountLess
      <3> QED BY <2>1, <3>3, <3>4
    <2>5. ListedWith(L, C, tu.value, a)
      <3> SUFFICES ASSUME NEW v \in Int, NEW k \in 1..L,
                          v <= a, k <= Cardinality(From(C, v)) + 1
          PROVE  k <= Len(tu.value) /\ v <= tu.value[k]
        BY DEF ListedWith
      <3>1. st.value \in Seq(Int) /\ Len(st.value) \in Nat
        BY DEF Roll
      <3>2. Len(tu.value) = Len(st.value) + 1 /\ tu.value[1] = a
            /\ \A i \in Nat : 2 <= i /\ i <= Len(st.value) + 1
                                => tu.value[i] = st.value[i - 1]
        BY <2>2, <3>1, PushOne
      <3>3. CASE k = 1
        BY <3>1, <3>2, <3>3
      <3>4. CASE k # 1
        <4>1. k - 1 \in 1..L /\ k - 1 <= Cardinality(From(C, v))
          <5>1. Cardinality(From(C, v)) \in Nat
            BY Parts
          <5> QED BY <3>4, <5>1
        <4>2. k - 1 <= Len(st.value) /\ v <= st.value[k - 1]
          BY <2>1, <4>1 DEF Listed
        <4> QED BY <3>1, <3>2, <3>4, <4>2
      <3> QED BY <3>3, <3>4
    <2>6. C = {} => Late(g, C, p) = {}
      BY <1>1, <1>4
    <2> QED BY <1>2, <2>3, <2>4, <2>5, <2>6 DEF SlidingPushed
  <1> QED BY <1>3, <1>4

\* So does one that will be denied.
LEMMA SlidingPushesDenied ==
  ASSUME NEW L \in Nat \ {0}, NEW g \in SUBSET Requests, IsFiniteSet(g),
         NEW st \in Roll, NEW tu \in Roll, NEW n \in Int, NEW a \in Int, a <= n,
         \A r \in g : r[1] <= a, SlidingDenied(L, g, st, n, a),
         Pushed(st, tu, a, n)
  PROVE  SlidingDenied(L, g, tu, n, n)
  <1>1. PICK p \in Int, C \in SUBSET g :
          /\ Stamped(L, g, st, a, p, C)
          /\ C = {} => Late(g, C, p) = {}
          /\ st.until <= n \/ Listed(L, C, st.value)
    BY DEF SlidingDenied
  <1>2. CASE st.until <= n
    <2>1. PICK q \in Int : /\ Cardinality(Late(g, {}, q)) <= 1 /\ q + Window <= n
                           /\ Late(g, {}, q) = {}
      <3>1. C # {} \/ Late(g, C, p) = {}
        BY <1>1
      <3>2. PICK q \in Int :
               /\ Cardinality(Late(g, {}, q)) <= 1 /\ q + Window <= n
               /\ C = {} => q = p
               /\ C # {} \/ Late(g, C, p) = {} => Late(g, {}, q) = {}
        <4>1. Stamped(L, g, st, a, p, C)
          BY <1>1
        <4>2. L \in Nat
          OBVIOUS
        <4> QED BY <1>2, <4>1, <4>2, ListGone
      <3> QED BY <3>1, <3>2
    <2>2. Sparse({}, L)
      BY NoRequests
    <2>3. Stamped(L, g, tu, n, q, {})
      BY <2>1, <2>2 DEF Stamped
    <2>4. Listed(L, {}, tu.value)
      BY NoRequests DEF Listed
    <2>5. {} \in SUBSET g
      OBVIOUS
    <2> QED BY <2>1, <2>3, <2>4, <2>5 DEF SlidingDenied
  <1>3. CASE ~(st.until <= n)
    <2>1. Listed(L, C, st.value)
      BY <1>1, <1>3
    <2>2. tu.value = <<a>> \o st.value /\ tu.until = st.until
      BY <1>3 DEF Pushed
    <2>3. Stamped(L, g, tu, n, p, C)
      <3>1. p + Window <= n
        BY <1>1 DEF Stamped
      <3> QED BY <1>1, <2>2, <3>1 DEF Stamped
    <2>4. Listed(L, C, tu.value)
      <3> SUFFICES ASSUME NEW v \in Int, NEW k \in 1..L, k <= Cardinality(From(C, v))
          PROVE  k <= Len(tu.value) /\ v <= tu.value[k]
        BY DEF Listed
      <3>1. st.value \in Seq(Int) /\ Len(st.value) \in Nat
        BY DEF Roll
      <3>2. Len(tu.value) = Len(st.value) + 1 /\ tu.value[1] = a
            /\ \A i \in Nat : 2 <= i /\ i <= Len(st.value) + 1
                                => tu.value[i] = st.value[i - 1]
        BY <2>2, <3>1, PushOne
      <3>3. v <= a
        <4>1. From(C, v) # {}
          BY FS_EmptySet
        <4>2. PICK r \in C : v <= r[1]
          BY <4>1 DEF From
        <4>3. r[1] \in Int /\ r[1] <= a
          BY <4>2 DEF Requests
        <4> QED BY <4>2, <4>3
      <3>4. CASE k = 1
        BY <3>1, <3>2, <3>3, <3>4
      <3>5. CASE k # 1
        <4>1. k - 1 \in 1..L /\ k - 1 <= Cardinality(From(C, v))
          BY <3>5, Parts
        <4>2. k - 1 <= Len(st.value) /\ v <= st.value[k - 1]
          BY <2>1, <4>1 DEF Listed
        <4> QED BY <3>1, <3>2, <3>5, <4>2
      <3> QED BY <3>4, <3>5
    <2> QED BY <1>1, <2>3, <2>4 DEF SlidingDenied
  <1> QED BY <1>2, <1>3

\* LTRIM keeps as many stamps as the limit, which is all that is counted.
LEMMA SlidingTrims ==
  ASSUME NEW L \in Nat \ {0}, NEW g, NEW st \in Roll, NEW tu \in Roll, NEW n, NEW a,
         tu.until = st.until,
         tu.value = SubSeq(st.value, 1, IF Len(st.value) < L THEN Len(st.value) ELSE L)
  PROVE  /\ SlidingPushed(L, g, st, n, a) => SlidingPushed(L, g, tu, n, a)
         /\ SlidingDenied(L, g, st, n, n) => SlidingDenied(L, g, tu, n, n)
  <1>1. st.value \in Seq(Int) /\ Len(st.value) \in Nat
    BY DEF Roll
  <1>2. \A k \in 1..L : k <= Len(st.value)
                          => k <= Len(tu.value) /\ tu.value[k] = st.value[k]
    BY <1>1
  <1>3. ASSUME NEW C
        PROVE  /\ Listed(L, C, st.value) => Listed(L, C, tu.value)
               /\ ListedWith(L, C, st.value, a) => ListedWith(L, C, tu.value, a)
    BY <1>2 DEF Listed, ListedWith
  <1>4. ASSUME NEW p, NEW C, Stamped(L, g, st, n, p, C)
        PROVE  Stamped(L, g, tu, n, p, C)
    BY <1>4 DEF Stamped
  <1>5. SlidingPushed(L, g, st, n, a) => SlidingPushed(L, g, tu, n, a)
    BY <1>3, <1>4 DEF SlidingPushed
  <1>6. SlidingDenied(L, g, st, n, n) => SlidingDenied(L, g, tu, n, n)
    BY <1>3, <1>4 DEF SlidingDenied
  <1> QED BY <1>5, <1>6

\* How EXPIRE leaves the list.
Expired(st, tu, n) ==
  \/ st.until <= n /\ tu = st
  \/ n < st.until /\ tu.value = st.value /\ tu.until = n + Life

LEMMA SlidingDenies ==
  ASSUME NEW L \in Nat \ {0}, NEW g \in SUBSET Requests,
         NEW st \in Roll, NEW tu \in Roll, NEW n \in Int,
         \A q \in g : q[1] <= n, SlidingDenied(L, g, st, n, n), Expired(st, tu, n)
  PROVE  SlidingOpen(L, g, tu, n, n)
  <1>1. PICK p \in Int, C \in SUBSET g :
          /\ Stamped(L, g, st, n, p, C)
          /\ C = {} => Late(g, C, p) = {}
          /\ st.until <= n \/ Listed(L, C, st.value)
    BY DEF SlidingDenied
  <1>2. CASE tu = st
    BY <1>1, <1>2 DEF SlidingOpen
  <1>3. CASE n < st.until /\ tu.value = st.value /\ tu.until = n + Life
    <2>1. \A r \in C : r[1] \in Int /\ r[1] <= n
      BY DEF Requests
    <2>2. \A r \in C : r[1] + Window <= tu.until
      BY <1>3, <2>1
    <2>3. Stamped(L, g, tu, n, p, C)
      BY <1>1, <2>2 DEF Stamped
    <2>4. Listed(L, C, tu.value)
      BY <1>1, <1>3 DEF Roll
    <2> QED BY <1>1, <2>3, <2>4 DEF SlidingOpen
  <1> QED BY <1>2, <1>3 DEF Expired

LEMMA LateGone ==
  ASSUME NEW L, NEW g \in SUBSET Requests,
         NEW st \in Roll, NEW n \in Int, st.until <= n,
         NEW p \in Int, NEW C \in SUBSET g, Stamped(L, g, st, n, p, C),
         C # {} \/ Late(g, C, p) = {}
  PROVE  \E q \in Int : Late(g, {}, q) = {} /\ q + Window <= n
  <1>1. CASE C = {}
    <2>1. p + Window <= n /\ Late(g, {}, p) = {}
      BY <1>1 DEF Stamped
    <2> QED BY <2>1
  <1>2. CASE C # {}
    <2> DEFINE q == st.until - Window
    <2>1. q \in Int /\ q + Window <= n
      BY DEF Roll
    <2>2. \A r \in g : r[1] \in Int
      BY DEF Requests
    <2>3. \A r \in C : r[1] <= q
      BY <2>2 DEF Stamped, Roll
    <2>4. PICK s \in C : TRUE
      BY <1>2
    <2>5. \A r \in g \ C : r[1] <= s[1]
      BY DEF Stamped
    <2>6. Late(g, {}, q) = {}
      BY <2>1, <2>2, <2>3, <2>5 DEF Late
    <2> QED BY <2>1, <2>6
  <1> QED BY <1>1, <1>2

\* An allowed check counts in the list, unless its stamp went with it.
LEMMA SlidingAllows ==
  ASSUME NEW L \in Nat \ {0}, NEW g \in SUBSET Requests, IsFiniteSet(g),
         NEW st \in Roll, NEW tu \in Roll, NEW n \in Int, n < Forever,
         NEW r \in Requests \ g, r[1] <= n, \A q \in g : q[1] <= r[1],
         SlidingPushed(L, g, st, n, r[1]), Expired(st, tu, n)
  PROVE  SlidingOpen(L, g \union {r}, tu, n, n)
  <1> DEFINE h == g \union {r}
  <1>0. r[1] \in Int /\ \A q \in g : q[1] \in Int
    BY DEF Requests
  <1>1. PICK p \in Int, C \in SUBSET g :
          /\ Stamped(L, g, st, n, p, C)
          /\ Room(C, r[1], L - 1)
          /\ C = {} => Late(g, C, p) = {} \/ st.until = Forever
          /\ st.until <= n \/ ListedWith(L, C, st.value, r[1])
    BY DEF SlidingPushed
  <1>2. IsFiniteSet(C) /\ C \in SUBSET Requests
    BY Parts
  <1>3. CASE st.until <= n /\ tu = st
    <2>1. C # {} \/ Late(g, C, p) = {}
      BY <1>1, <1>3 DEF Forever, Roll
    <2>2. Stamped(L, g, st, n, p, C)
      BY <1>1
    <2>3. PICK q \in Int : Late(g, {}, q) = {} /\ q + Window <= n
      BY <1>3, <2>1, <2>2, LateGone
    <2>4. Late(h, {}, q) \in SUBSET {r}
      BY <2>3 DEF Late
    <2>5. Cardinality(Late(h, {}, q)) <= 1
      <3>1. IsFiniteSet({r}) /\ Cardinality({r}) = 1
        BY FS_Singleton
      <3> QED BY <2>4, <3>1, CountLess
    <2>6. Sparse({}, L) /\ {} \in SUBSET h
      BY NoRequests
    <2>7. Stamped(L, h, tu, n, q, {})
      BY <2>3, <2>5, <2>6 DEF Stamped
    <2>8. tu.until <= n
      BY <1>3
    <2> HIDE DEF h
    <2>9. SlidingOpen(L, h, tu, n, n)
      BY <2>6, <2>7, <2>8 DEF SlidingOpen
    <2> QED BY <2>9 DEF h
  <1>4. CASE n < st.until /\ tu.value = st.value /\ tu.until = n + Life
    <2> DEFINE D == C \union {r}
    <2>1. D \in SUBSET h /\ D # {} /\ h \ D \in SUBSET (g \ C)
      OBVIOUS
    <2>2. Late(h, D, p) \in SUBSET Late(g, C, p)
      BY <2>1 DEF Late
    <2>3. Cardinality(Late(h, D, p)) <= 1
      <3>1. Cardinality(Late(g, C, p)) <= 1
        BY <1>1 DEF Stamped
      <3>2. IsFiniteSet(Late(g, C, p)) /\ Cardinality(Late(g, C, p)) \in Nat
        BY Parts
      <3> HIDE DEF h, D
      <3>3. /\ Cardinality(Late(h, D, p)) \in Nat
            /\ Cardinality(Late(h, D, p)) <= Cardinality(Late(g, C, p))
        BY <2>2, <3>2, CountLess
      <3> QED BY <3>1, <3>2, <3>3
    <2>4. Sparse(D, L)
      <3>1. Sparse(C, L)
        BY <1>1 DEF Stamped
      <3> QED BY <1>1, <1>2, <3>1, StretchMore
    <2>5. \A q \in D : q[1] + Window <= tu.until
      <3>1. \A q \in D : q[1] \in Int /\ q[1] <= n
        BY <1>0
      <3> QED BY <1>4, <3>1
    <2>6. \A q \in h \ D, s \in D : q[1] <= s[1]
      BY <1>1, <2>1 DEF Stamped
    <2>7. Listed(L, D, tu.value)
      <3> SUFFICES ASSUME NEW v \in Int, NEW k \in 1..L, k <= Cardinality(From(D, v))
          PROVE  k <= Len(tu.value) /\ v <= tu.value[k]
        BY DEF Listed
      <3>1. ListedWith(L, C, tu.value, r[1])
        BY <1>1, <1>4 DEF Roll
      <3>2. v <= r[1]
        <4>1. From(D, v) # {}
          <5> HIDE DEF D
          <5>1. Cardinality({}) = 0 /\ k >= 1
            BY FS_EmptySet
          <5>2. SUFFICES ASSUME From(D, v) = {} PROVE FALSE
            OBVIOUS
          <5> QED BY <5>1, <5>2
        <4>2. PICK q \in D : v <= q[1]
          BY <4>1 DEF From
        <4>3. q[1] \in Int /\ q[1] <= r[1]
          BY <1>0, <4>2
        <4> QED BY <1>0, <4>2, <4>3
      <3>3. k <= Cardinality(From(C, v)) + 1
        <4>1. From(D, v) = From(C, v) \union {r}
          BY <3>2 DEF From
        <4>2. IsFiniteSet(From(C, v)) /\ Cardinality(From(C, v)) \in Nat
          BY Parts
        <4>3. /\ Cardinality(From(C, v) \union {r}) \in Nat
              /\ Cardinality(From(C, v) \union {r}) <= Cardinality(From(C, v)) + 1
          BY <4>2, CountMore
        <4> HIDE DEF D
        <4>4. Cardinality(From(D, v)) <= Cardinality(From(C, v)) + 1
          BY <4>1, <4>3
        <4>5. Cardinality(From(D, v)) \in Nat
          BY <4>1, <4>3
        <4> QED BY <4>2, <4>4, <4>5
      <3> QED BY <3>1, <3>2, <3>3 DEF ListedWith
    <2>8. p + Window <= n
      BY <1>1 DEF Stamped
    <2> HIDE DEF h, D
    <2>9. Stamped(L, h, tu, n, p, D)
      BY <2>3, <2>4, <2>5, <2>6, <2>8 DEF Stamped
    <2>10. SlidingOpen(L, h, tu, n, n)
      BY <2>1, <2>7, <2>9 DEF SlidingOpen
    <2> QED BY <2>10 DEF h
  <1> QED BY <1>3, <1>4 DEF Expired

\* What a step of the sliding window leaves behind.
LEMMA SlidingMoves ==
  ASSUME IInv, OrderInv, Numbered(granted), SlidingInv, orderly,
         NEW c \in Checks, Sliding(c), UNCHANGED <<kind, limit, asked, orderly, now>>,
         Active = {c}, check[c].at \in 0..MaxTime, check[c].at <= now,
         \A r \in granted : r[1] <= check[c].at
  PROVE  /\ check'[c].pc # "idle" =>
              SlidingRow(limit, granted, stamps', now, check'[c])
         /\ check'[c].pc = "idle" =>
              /\ SlidingOpen(limit, granted', stamps', now, now)
              /\ \/ granted' = granted
                 \/ \E r \in Requests \ granted :
                      /\ granted' = granted \union {r}
                      /\ Room(granted, r[1], limit + 1)
  <1> DEFINE a == check[c].at
  <1>0. /\ limit \in Nat \ {0} /\ now \in Int /\ a \in Int
        /\ stamps \in Roll /\ stamps' \in Roll
        /\ granted \in SUBSET Requests /\ IsFiniteSet(granted)
        /\ kind = "sliding" /\ now < Forever
    <2>1. KeysOK /\ KeysOK' /\ now \in 0..MaxTime
      BY SlidingTypes DEF IInv, ConfigOK
    <2>2. \A st \in [value : Seq(0..MaxTime), until : 0..Forever] : st \in Roll
      <3>1. \A s \in Seq(0..MaxTime) : s \in Seq(Int)
        OBVIOUS
      <3>2. 0..Forever \subseteq Int
        OBVIOUS
      <3> QED BY <3>1, <3>2 DEF Roll
    <2>3. stamps \in Roll /\ stamps' \in Roll
      BY <2>1, <2>2 DEF KeysOK
    <2> QED BY <2>1, <2>3, Sorts, ByKind DEF Forever
  <1>1. SlidingRow(limit, granted, stamps, now, check[c])
    BY <1>0 DEF SlidingInv
  <1>2. CASE SlidingRange(c)
    <2>1. SlidingOpen(limit, granted, stamps, now, a)
      BY <1>1, <1>2 DEF SlidingRange, SlidingRow
    <2>2. /\ check'[c].pc = "push" /\ check'[c].at = a /\ stamps' = stamps
          /\ check'[c].allow = (Cardinality(Valid(c)) < limit)
      BY <1>2, Moves DEF SlidingRange, Stays, Row, keys
    <2>3. PICK p \in Int, C \in SUBSET granted :
            /\ Stamped(limit, granted, stamps, a, p, C)
            /\ C = {} => Late(granted, C, p) = {} \/ stamps.until <= now
            /\ stamps.until <= now \/ Listed(limit, C, stamps.value)
      BY <2>1 DEF SlidingOpen
    <2>4. CASE Cardinality(Valid(c)) < limit
      <3>1. stamps.until <= now \/ Cardinality(From(C, a - Window)) < limit
        <4> SUFFICES ASSUME ~(stamps.until <= now)
            PROVE  Cardinality(From(C, a - Window)) < limit
          OBVIOUS
        <4>1. stamps.value \in Seq(Int) /\ a - Window \in Int
          BY <1>0 DEF Roll
        <4>2. Cardinality({i \in DOMAIN stamps.value : stamps.value[i] >= a - Window}) < limit
          BY <2>4 DEF Valid, Gone
        <4>3. Listed(limit, C, stamps.value)
          BY <2>3
        <4>4. IsFiniteSet(C)
          BY <1>0, FS_Subset
        <4> HIDE DEF a
        <4> QED BY <1>0, <4>1, <4>2, <4>3, <4>4, FewStamps
      <3>2. SlidingPushing(limit, granted, stamps, now, a)
        BY <2>3, <3>1 DEF SlidingPushing
      <3> QED BY <2>2, <2>4, <3>2 DEF SlidingRow
    <2>5. CASE ~(Cardinality(Valid(c)) < limit)
      <3>1. ~(stamps.until <= now)
        <4> SUFFICES ASSUME Gone(stamps) PROVE FALSE
          BY DEF Gone
        <4>1. Cardinality(Valid(c)) = 0
          BY FS_EmptySet DEF Valid
        <4> QED BY <1>0, <2>5, <4>1
      <3>2. SlidingDenied(limit, granted, stamps, now, a)
        BY <2>3, <3>1 DEF SlidingDenied
      <3> QED BY <2>2, <2>5, <3>2 DEF SlidingRow
    <2> QED BY <2>4, <2>5
  <1>3. CASE SlidingPush(c)
    <2>1. IF check[c].allow THEN SlidingPushing(limit, granted, stamps, now, a)
          ELSE SlidingDenied(limit, granted, stamps, now, a)
      BY <1>1, <1>3 DEF SlidingPush, SlidingRow
    <2>2. /\ check'[c].pc = "trim" /\ check'[c].at = a
          /\ check'[c].allow = check[c].allow /\ stamps' = Lpush(stamps, a)
      BY <1>3, Moves DEF SlidingPush, Stays, Row
    <2>3. Pushed(stamps, stamps', a, now)
      <3>1. CASE Gone(stamps)
        BY <2>2, <3>1 DEF Lpush, Key, Gone, Pushed
      <3>2. CASE ~Gone(stamps)
        <4>1. stamps' = [value |-> <<a>> \o stamps.value, until |-> stamps.until]
          BY <1>0, <2>2, <3>2 DEF Lpush, Roll
        <4>2. now < stamps.until
          BY <1>0, <3>2 DEF Gone, Roll
        <4> QED BY <4>1, <4>2 DEF Pushed
      <3> QED BY <3>1, <3>2
    <2> HIDE DEF a
    <2>4. CASE check[c].allow
      <3>1. SlidingPushed(limit, granted, stamps', now, a)
        BY <1>0, <2>1, <2>3, <2>4, SlidingPushes DEF a
      <3> QED BY <2>2, <2>4, <3>1 DEF SlidingRow
    <2>5. CASE ~check[c].allow
      <3>1. SlidingDenied(limit, granted, stamps', now, now)
        BY <1>0, <2>1, <2>3, <2>5, SlidingPushesDenied DEF a
      <3> QED BY <2>2, <2>5, <3>1 DEF SlidingRow
    <2> QED BY <2>4, <2>5
  <1>4. CASE SlidingTrim(c)
    <2>1. IF check[c].allow THEN SlidingPushed(limit, granted, stamps, now, a)
          ELSE SlidingDenied(limit, granted, stamps, now, now)
      BY <1>1, <1>4 DEF SlidingTrim, SlidingRow
    <2>2. /\ check'[c].pc = "expire" /\ check'[c].at = a
          /\ check'[c].allow = check[c].allow
      BY <1>4, Moves DEF SlidingTrim, Stays, Row
    <2>3. /\ stamps'.until = stamps.until
          /\ stamps'.value = SubSeq(stamps.value, 1,
                               IF Len(stamps.value) < limit THEN Len(stamps.value)
                               ELSE limit)
      BY <1>0, <1>4 DEF SlidingTrim, Keep, Roll
    <2>4. /\ SlidingPushed(limit, granted, stamps, now, a)
               => SlidingPushed(limit, granted, stamps', now, a)
          /\ SlidingDenied(limit, granted, stamps, now, now)
               => SlidingDenied(limit, granted, stamps', now, now)
      BY <1>0, <2>3, SlidingTrims
    <2> QED BY <2>1, <2>2, <2>4 DEF SlidingRow
  <1>5. CASE SlidingExpire(c)
    <2>1. IF check[c].allow THEN SlidingPushed(limit, granted, stamps, now, a)
          ELSE SlidingDenied(limit, granted, stamps, now, now)
      BY <1>1, <1>5 DEF SlidingExpire, SlidingRow
    <2>2. /\ check'[c].pc = "idle"
          /\ granted' = IF check[c].allow THEN Noted(granted, a) ELSE granted
          /\ stamps' = IF Gone(stamps) THEN stamps ELSE Setex(stamps.value)
      BY <1>5, Moves DEF SlidingExpire, Answer, Ends
    <2>3. Expired(stamps, stamps', now)
      <3>1. CASE Gone(stamps)
        BY <2>2, <3>1 DEF Gone, Expired
      <3>2. CASE ~Gone(stamps)
        BY <1>0, <2>2, <3>2 DEF Gone, Expired, Setex, Key, Roll
      <3> QED BY <3>1, <3>2
    <2>4. CASE check[c].allow
      <3>1. PICK r \in Requests \ granted :
              r[1] = a /\ Noted(granted, a) = granted \union {r}
        BY <1>0, Fresh
      <3>2. SlidingPushed(limit, granted, stamps, now, r[1])
        BY <2>1, <2>4, <3>1
      <3>3. SlidingOpen(limit, granted \union {r}, stamps', now, now)
        BY <1>0, <2>3, <3>1, <3>2, SlidingAllows
      <3>4. Room(granted, r[1], limit + 1)
        BY <3>2 DEF SlidingPushed
      <3> QED BY <2>2, <2>4, <3>1, <3>3, <3>4
    <2>5. CASE ~check[c].allow
      <3>1. \A q \in granted : q[1] <= now
        BY DEF OrderInv
      <3>2. SlidingOpen(limit, granted, stamps', now, now)
        BY <1>0, <2>1, <2>3, <2>5, <3>1, SlidingDenies
      <3> QED BY <2>2, <2>5, <3>2
    <2> QED BY <2>4, <2>5
  <1> QED BY <1>2, <1>3, <1>4, <1>5 DEF Sliding

LEMMA SlidingStep ==
  ASSUME IInv, OrderInv, Numbered(granted), SlidingInv, [Next]_vars,
         kind = "sliding", orderly', Sparse(granted, limit + 2)
  PROVE  SlidingInv' /\ Sparse(granted', limit + 2)
  <1>0. /\ limit \in Nat \ {0} /\ now \in Nat /\ stamps \in Roll
        /\ granted \in SUBSET Requests /\ IsFiniteSet(granted)
    <2>1. \A s \in Seq(0..MaxTime) : s \in Seq(Int)
      OBVIOUS
    <2>2. stamps \in [value : Seq(0..MaxTime), until : 0..Forever]
      BY DEF IInv, KeysOK
    <2>3. stamps \in Roll
      BY <2>1, <2>2, Sorts DEF Roll
    <2> QED BY <2>3, Sorts
  <1>1. ASSUME NEW c \in Checks, Begin(c)
        PROVE  SlidingInv' /\ Sparse(granted', limit + 2)
    <2>1. /\ orderly /\ Active = {} /\ Active' = {c}
          /\ check'[c].pc = "range" /\ check'[c].at = now
          /\ UNCHANGED <<kind, limit, stamps, granted, now>>
      BY <1>1, Begins DEF Entry
    <2>2. SlidingOpen(limit, granted, stamps, now, now)
      BY <2>1 DEF SlidingInv
    <2>3. SlidingRow(limit, granted, stamps, now, check'[c])
      BY <2>1, <2>2 DEF SlidingRow
    <2> QED BY <2>1, <2>3 DEF SlidingInv
  <1>2. ASSUME NEW c \in Checks, Die(c) PROVE FALSE
    BY <1>2 DEF Die
  <1>3. ASSUME NEW c \in Checks, Step(c)
        PROVE  SlidingInv' /\ Sparse(granted', limit + 2)
    <2>1. /\ orderly /\ Active = {c} /\ check[c].pc # "idle"
          /\ check[c].at \in 0..MaxTime /\ check[c].at <= now
          /\ \A r \in granted : r[1] <= check[c].at
          /\ IF check'[c].pc = "idle" THEN Active' = {} ELSE Active' = {c}
      BY <1>3, Alone
    <2>2. Sliding(c) /\ UNCHANGED <<kind, limit, asked, orderly, now>>
      BY <1>3, ByKind DEF Step
    <2>3. CASE check'[c].pc # "idle"
      <3>1. SlidingRow(limit, granted, stamps', now, check'[c])
        BY <2>1, <2>2, <2>3, SlidingMoves
      <3>2. granted' = granted
        BY <1>3, <2>3, StepMoves DEF Stays, Ends
      <3> QED BY <2>1, <2>2, <2>3, <3>1, <3>2 DEF SlidingInv
    <2>4. CASE check'[c].pc = "idle"
      <3>1. /\ SlidingOpen(limit, granted', stamps', now, now)
            /\ \/ granted' = granted
               \/ \E r \in Requests \ granted :
                    /\ granted' = granted \union {r}
                    /\ Room(granted, r[1], limit + 1)
        BY <2>1, <2>2, <2>4, SlidingMoves
      <3>2. SlidingInv'
        BY <2>1, <2>2, <2>4, <3>1 DEF SlidingInv
      <3>3. limit + 1 \in Int /\ limit + 2 \in Int /\ limit + 2 = (limit + 1) + 1
        BY <1>0
      <3>4. Sparse(granted', limit + 2)
        BY <1>0, <3>1, <3>3, StaysSparse
      <3> QED BY <3>2, <3>4
    <2> QED BY <2>3, <2>4
  <1>4. CASE Tick
    <2>1. /\ UNCHANGED <<kind, limit, stamps, check, granted, orderly>>
          /\ Active' = Active /\ now' = now + 1
          /\ \A c \in Active : check[c].at \in Int
      BY <1>4, Ticks
    <2>2. SlidingOpen(limit, granted, stamps, now, now)
            => SlidingOpen(limit, granted, stamps, now + 1, now + 1)
      BY <1>0, SlidingLater
    <2>3. ASSUME NEW c \in Active,
                 SlidingRow(limit, granted, stamps, now, check[c])
          PROVE  SlidingRow(limit, granted, stamps, now + 1, check[c])
      BY <1>0, <2>1, <2>3, SlidingRowLater
    <2> QED BY <2>1, <2>2, <2>3 DEF SlidingInv
  <1>5. CASE UNCHANGED vars
    BY <1>5 DEF vars, keys, SlidingInv, Active
  <1> QED BY <1>1, <1>2, <1>3, <1>4, <1>5 DEF Next

-----------------------------------------------------------------------------
(* The token bucket, step by step *)

\* What comes in to the bucket, times the window, is at most the time times
\* the limit.
LEMMA Rounded ==
  ASSUME NEW x \in Int
  PROVE  (x \div Window) \in Int /\ Window * (x \div Window) <= x
  OBVIOUS

\* Twice the limit, less one, is all that a bucket gives within a window.
LEMMA Twice ==
  ASSUME NEW L \in Nat \ {0}, NEW k \in Nat, NEW d \in Int, d <= Window - 1,
         Window * k <= L * (Window + d)
  PROVE  k <= 2 * L - 1
  <1> SUFFICES ASSUME k >= 2 * L PROVE FALSE
    OBVIOUS
  <1>1. Window * k >= Window * (2 * L)
    OBVIOUS
  <1>2. L * (Window + d) <= L * (2 * Window - 1)
    OBVIOUS
  <1>3. L * (2 * Window - 1) = Window * (2 * L) - L
    OBVIOUS
  <1> QED BY <1>1, <1>2, <1>3

LEMMA BucketLater ==
  ASSUME NEW L, NEW g, NEW mk \in Moment, NEW lv, NEW n \in Int,
         NEW m \in Int, n <= m, NEW a \in Int, NEW b \in Int, a <= b, NEW val
  PROVE  /\ BucketKept(L, g, mk, lv, a) => BucketKept(L, g, mk, lv, b)
         /\ BucketOpen(L, g, mk, lv, n, a) => BucketOpen(L, g, mk, lv, m, b)
         /\ BucketTaking(L, g, n, a, val) => BucketTaking(L, g, m, a, val)
  <1>1. mk.until <= n => mk.until <= m
    BY DEF Moment
  <1>2. mk.value <= a => mk.value <= b
    BY DEF Moment
  <1>3. \A p \in Int : /\ p + Window <= a => p + Window <= b
                       /\ p + Window <= n => p + Window <= m
    OBVIOUS
  <1>4. BucketKept(L, g, mk, lv, a) => BucketKept(L, g, mk, lv, b)
    BY <1>2, <1>3 DEF BucketKept
  <1>5. BucketTaking(L, g, n, a, val) => BucketTaking(L, g, m, a, val)
    BY <1>3 DEF BucketTaking
  <1> QED BY <1>1, <1>4, <1>5 DEF BucketOpen

LEMMA BucketRowLater ==
  ASSUME NEW L, NEW g, NEW mk \in Moment, NEW lv, NEW n \in Int,
         NEW m \in Int, n <= m, NEW row, row.at \in Int,
         BucketRow(L, g, mk, lv, n, row)
  PROVE  BucketRow(L, g, mk, lv, m, row)
  <1>1. /\ BucketOpen(L, g, mk, lv, n, row.at) => BucketOpen(L, g, mk, lv, m, row.at)
        /\ BucketTaking(L, g, n, row.at, row.val)
             => BucketTaking(L, g, m, row.at, row.val)
    BY BucketLater
  <1>2. mk.until <= n => mk.until <= m
    BY DEF Moment
  <1>3. \A p \in Int : p + Window <= n => p + Window <= m
    OBVIOUS
  <1> QED BY <1>1, <1>2, <1>3 DEF BucketRow

\* What is taken within a window of a moment leaves room for another request.
LEMMA BucketRoom ==
  ASSUME NEW L \in Nat \ {0}, NEW g \in SUBSET Requests, IsFiniteSet(g),
         NEW x \in Nat, NEW e \in Int, NEW p \in Int, NEW a \in Int, e <= a,
         p + Window <= a, \A r \in g : r[1] <= e, Drawn(L, g, x, e, p)
  PROVE  Room(g, a, 2 * L - 1)
  <1> SUFFICES ASSUME NEW t \in Int, t <= a, a <= t + Window - 1
      PROVE  Cardinality(During(g, t, t + Window - 1)) <= 2 * L - 1
    BY DEF Room
  <1> DEFINE k == Cardinality(From(g, t))
             d == Cardinality(During(g, t, t + Window - 1))
  <1>1. k \in Nat /\ d \in Nat /\ d <= k
    <2>1. IsFiniteSet(From(g, t))
      BY Parts
    <2>2. During(g, t, t + Window - 1) \in SUBSET From(g, t)
      BY DEF During, From
    <2> QED BY <2>1, <2>2, CountLess
  <1>2. k <= 2 * L - 1
    <2>1. CASE t <= e
      <3>1. p < t
        OBVIOUS
      <3>2. Window * (k + x) <= L * (Window + e - t)
        BY <2>1, <3>1 DEF Drawn
      <3> HIDE DEF k, d
      <3>3. Window * k <= Window * (k + x)
        BY <1>1
      <3>4. Window * k <= L * (Window + (e - t))
        BY <1>1, <3>2, <3>3
      <3>5. e - t <= Window - 1 /\ e - t \in Int
        OBVIOUS
      <3> QED BY <1>1, <3>4, <3>5, Twice
    <2>2. CASE e < t
      <3>1. \A r \in g : r[1] \in Int
        BY DEF Requests
      <3>2. From(g, t) = {}
        BY <2>2, <3>1 DEF From
      <3>3. k = 0
        BY <3>2, FS_EmptySet
      <3> HIDE DEF k
      <3> QED BY <3>3
    <2> QED BY <2>1, <2>2
  <1> HIDE DEF k, d
  <1>3. d <= 2 * L - 1
    BY <1>1, <1>2
  <1> QED BY <1>3 DEF d

\* A full bucket when nothing was taken lately.
LEMMA DrawnFull ==
  ASSUME NEW L \in Nat \ {0}, NEW g \in SUBSET Requests, NEW T \in Int, T <= L,
         NEW a \in Int, NEW p \in Int, \A r \in g : r[1] <= p
  PROVE  Drawn(L, g, T, a, p)
  <1> SUFFICES ASSUME NEW t \in Int, p < t, t <= a
      PROVE  Window * (Cardinality(From(g, t)) + T) <= L * (Window + a - t)
    BY DEF Drawn
  <1>1. \A r \in g : r[1] \in Int
    BY DEF Requests
  <1>2. From(g, t) = {}
    BY <1>1 DEF From
  <1>3. Cardinality(From(g, t)) = 0
    BY <1>2, FS_EmptySet
  <1>4. Window * T <= Window * L
    OBVIOUS
  <1>5. Window * L <= L * (Window + a - t)
    <2>1. 0 <= L * (a - t)
      OBVIOUS
    <2>2. L * (Window + a - t) = Window * L + L * (a - t)
      OBVIOUS
    <2> QED BY <2>1, <2>2
  <1>6. Cardinality(From(g, t)) + T = T
    BY <1>3
  <1>7. Window * T <= L * (Window + a - t)
    BY <1>4, <1>5
  <1> QED BY <1>6, <1>7

\* The tokens a check finds: what was left and what came in since, or all if
\* the key is gone, and never more than the limit.
LEMMA BucketTakes ==
  ASSUME NEW L \in Nat \ {0}, NEW g \in SUBSET Requests, IsFiniteSet(g),
         NEW mk \in Moment, NEW lv \in Moment, lv.value \in Nat,
         NEW n \in Int, NEW a \in Int, a <= n, BucketKept(L, g, mk, lv, a),
         NEW T \in Int, T <= L, NEW more \in Int,
         Window * more <= L * (a - mk.value),
         lv.until <= n \/ T <= lv.value + more
  PROVE  BucketTaking(L, g, n, a, T - 1)
  <1> DEFINE m == mk.value
             x == lv.value
  <1>1. PICK p \in Int :
          /\ p + Window <= a /\ m <= a /\ \A r \in g : r[1] <= m
          /\ m + Window <= mk.until /\ m + Window <= lv.until
          /\ Drawn(L, g, x, m, p)
    BY DEF BucketKept
  <1>2. m \in Int /\ x \in Nat /\ lv.until \in Int
    BY DEF Moment
  <1>3. Room(g, a, 2 * L - 1)
    <2> HIDE DEF m, x
    <2> QED BY <1>1, <1>2, BucketRoom
  <1>4. \E q \in Int : q + Window <= n /\ Drawn(L, g, T, a, q)
    <2>1. CASE lv.until <= n
      <3>1. m + Window <= n
        BY <1>1, <1>2, <2>1
      <3>2. Drawn(L, g, T, a, m)
        BY <1>1, <1>2, DrawnFull
      <3> QED BY <1>2, <3>1, <3>2
    <2>2. CASE T <= x + more
      <3>1. p + Window <= n
        BY <1>1
      <3>2. Drawn(L, g, T, a, p)
        <4> SUFFICES ASSUME NEW t \in Int, p < t, t <= a
            PROVE  Window * (Cardinality(From(g, t)) + T) <= L * (Window + a - t)
          BY DEF Drawn
        <4> DEFINE k == Cardinality(From(g, t))
        <4>1. k \in Nat
          BY Parts
        <4>2. CASE t <= m
          <5>1. Window * (k + x) <= L * (Window + m - t)
            BY <1>1, <4>2 DEF Drawn
          <5> HIDE DEF k, m, x
          <5>2. Window * (k + T) <= Window * (k + x + more)
            BY <1>2, <2>2, <4>1
          <5>3. Window * (k + x + more) = Window * (k + x) + Window * more
            BY <1>2, <4>1
          <5>4. Window * more <= L * (a - m)
            BY DEF m
          <5>5. L * (Window + m - t) + L * (a - m) = L * (Window + a - t)
            BY <1>2
          <5>6. Window * (k + T) <= L * (Window + m - t) + L * (a - m)
            BY <1>2, <4>1, <5>1, <5>2, <5>3, <5>4
          <5>7. Window * (k + T) <= L * (Window + a - t)
            BY <5>5, <5>6
          <5> QED BY <5>7 DEF k
        <4>3. CASE m < t
          <5>1. Drawn(L, g, T, a, m)
            BY <1>1, <1>2, DrawnFull
          <5> QED BY <4>3, <5>1 DEF Drawn
        <4> QED BY <1>2, <4>2, <4>3
      <3> QED BY <3>1, <3>2
    <2> QED BY <2>1, <2>2
  <1>5. (T - 1) + 1 = T
    OBVIOUS
  <1> QED BY <1>3, <1>4, <1>5 DEF BucketTaking

\* What a check leaves behind accounts for the request it lets through.
LEMMA BucketTaken ==
  ASSUME NEW L \in Nat \ {0}, NEW g \in SUBSET Requests, IsFiniteSet(g),
         NEW mk \in Moment, NEW lv \in Moment, NEW n \in Int, NEW val \in Int,
         NEW r \in Requests \ g, r[1] <= n, \A q \in g : q[1] <= r[1],
         BucketTaking(L, g, n, r[1], val), mk.value = r[1],
         r[1] + Window <= mk.until, r[1] + Window <= lv.until, lv.value = val
  PROVE  BucketOpen(L, g \union {r}, mk, lv, n, n)
  <1> DEFINE h == g \union {r}
             a == r[1]
  <1>1. a \in Int
    BY DEF Requests
  <1>2. PICK p \in Int : p + Window <= n /\ Drawn(L, g, val + 1, a, p)
    BY DEF BucketTaking
  <1>3. Drawn(L, h, val, a, p)
    <2> SUFFICES ASSUME NEW t \in Int, p < t, t <= a
        PROVE  Window * (Cardinality(From(h, t)) + val) <= L * (Window + a - t)
      BY DEF Drawn
    <2>1. From(h, t) = From(g, t) \union {r} /\ r \notin From(g, t)
      BY DEF From
    <2>2. IsFiniteSet(From(g, t)) /\ Cardinality(From(g, t)) \in Nat
      BY Parts
    <2>3. Cardinality(From(h, t)) = Cardinality(From(g, t)) + 1
      BY <2>1, <2>2, CountMore
    <2>4. Window * (Cardinality(From(g, t)) + (val + 1)) <= L * (Window + a - t)
      BY <1>2 DEF Drawn
    <2>5. Cardinality(From(h, t)) + val = Cardinality(From(g, t)) + (val + 1)
      BY <2>2, <2>3
    <2> QED BY <2>4, <2>5
  <1>4. \A q \in h : q[1] <= a
    BY <1>1
  <1> HIDE DEF h
  <1>5. BucketKept(L, h, mk, lv, n)
    BY <1>2, <1>3, <1>4 DEF BucketKept
  <1> QED BY <1>5 DEF BucketOpen, h

\* Nothing was taken within a window of now.
LEMMA BucketFilled ==
  ASSUME NEW L \in Nat \ {0}, NEW g \in SUBSET Requests, IsFiniteSet(g),
         NEW mk \in Moment, NEW lv \in Moment, lv.value \in Nat,
         NEW n \in Int, NEW a \in Int, a <= n, mk.until <= n,
         BucketOpen(L, g, mk, lv, n, a)
  PROVE  /\ Room(g, a, 2 * L - 1)
         /\ \E p \in Int : p + Window <= n /\ \A r \in g : r[1] <= p
  <1>1. CASE g = {}
    <2>1. 2 * L - 1 \in Nat
      OBVIOUS
    <2>2. Room({}, a, 2 * L - 1)
      BY <2>1, NoRequests
    <2>3. n - Window \in Int /\ (n - Window) + Window <= n
      OBVIOUS
    <2> QED BY <1>1, <2>2, <2>3
  <1>2. CASE BucketKept(L, g, mk, lv, a)
    <2> DEFINE m == mk.value
               x == lv.value
    <2>1. PICK p \in Int :
            /\ p + Window <= a /\ m <= a /\ \A r \in g : r[1] <= m
            /\ m + Window <= mk.until /\ m + Window <= lv.until
            /\ Drawn(L, g, x, m, p)
      BY <1>2 DEF BucketKept
    <2>2. m \in Int /\ x \in Nat /\ mk.until \in Int
      BY DEF Moment
    <2>3. m + Window <= n
      BY <2>1, <2>2
    <2> HIDE DEF m, x
    <2>4. Room(g, a, 2 * L - 1)
      BY <2>1, <2>2, BucketRoom
    <2> QED BY <2>1, <2>2, <2>3, <2>4
  <1> QED BY <1>1, <1>2 DEF BucketOpen

\* What a step of the token bucket leaves behind.
LEMMA BucketMoves ==
  ASSUME IInv, OrderInv, Numbered(granted), BucketInv, orderly,
         NEW c \in Checks, Bucket(c), UNCHANGED <<kind, limit, orderly, now>>,
         Active = {c}, check[c].at \in 0..MaxTime, check[c].at <= now,
         \A r \in granted : r[1] <= check[c].at
  PROVE  /\ check'[c].pc # "idle" =>
              BucketRow(limit, granted, mark', level', now, check'[c])
         /\ check'[c].pc = "idle" =>
              /\ BucketOpen(limit, granted', mark', level', now, now)
              /\ \/ granted' = granted
                 \/ \E r \in Requests \ granted :
                      /\ granted' = granted \union {r}
                      /\ Room(granted, r[1], 2 * limit - 1)
  <1> DEFINE a == check[c].at
  <1>0. /\ kind = "tokenBucket" /\ limit \in Nat \ {0} /\ now \in Int /\ a \in Int
        /\ mark \in Moment /\ level \in Moment /\ level.value \in 0..limit
        /\ mark.value \in Int /\ mark.until \in Int /\ level.until \in Int
        /\ granted \in SUBSET Requests /\ IsFiniteSet(granted)
    <2>1. kind = "tokenBucket"
      BY ByKind
    <2> QED BY <2>1, Sorts DEF Moment, IInv, KeysOK, Tokens
  <1>1. BucketRow(limit, granted, mark, level, now, check[c])
    BY <1>0 DEF BucketInv
  <1>2. CASE BucketRefill(c)
    <2>1. BucketOpen(limit, granted, mark, level, now, a)
      BY <1>1, <1>2 DEF BucketRefill, BucketRow
    <2>2. /\ check'[c].at = a /\ check'[c].val = mark.value
          /\ check'[c].pc = IF Gone(mark) THEN "fill" ELSE "tokens"
          /\ mark' = mark /\ level' = level
      BY <1>2, Moves DEF BucketRefill, Stays, Row, keys
    <2>3. CASE Gone(mark)
      BY <2>1, <2>2, <2>3 DEF Gone, BucketRow
    <2>4. CASE ~Gone(mark)
      <3>1. BucketKept(limit, granted, mark, level, a)
        BY <2>1, <2>4 DEF BucketOpen, Gone
      <3> QED BY <2>2, <2>4, <3>1 DEF BucketRow
    <2> QED BY <2>3, <2>4
  <1>3. CASE BucketTokens(c)
    <2> DEFINE left == IF Gone(level) THEN limit ELSE level.value
               more == ((a - mark.value) * limit) \div Window
               tokens == Refilled(left, a - mark.value)
    <2>1. BucketKept(limit, granted, mark, level, a) /\ check[c].val = mark.value
      BY <1>1, <1>3 DEF BucketTokens, BucketRow
    <2>2. /\ mark' = mark /\ level' = level
          /\ IF tokens <= 0 THEN Answer(c, FALSE) ELSE Hold(c, "takeRefill", tokens - 1)
      BY <1>3, <2>1 DEF BucketTokens, keys
    <2>3. /\ more \in Int /\ Window * more <= limit * (a - mark.value)
      <3>1. (a - mark.value) * limit \in Int
        BY <1>0
      <3>2. limit * (a - mark.value) = (a - mark.value) * limit
        BY <1>0
      <3> QED BY <3>1, <3>2, Rounded
    <2>4. tokens = IF left + more < limit THEN left + more ELSE limit
      BY DEF Refilled
    <2>5. left \in Int
      BY <1>0
    <2>6. tokens \in Int /\ tokens <= limit
          /\ (level.until <= now \/ tokens <= level.value + more)
      <3> HIDE DEF more, tokens
      <3>0. limit \in Int /\ more \in Int
        BY <1>0, <2>3
      <3>1. tokens \in Int /\ tokens <= limit /\ tokens <= left + more
        <4> HIDE DEF left
        <4> QED BY <3>0, <2>4, <2>5
      <3>2. level.until <= now \/ left = level.value
        BY DEF Gone
      <3> QED BY <3>1, <3>2
    <2> HIDE DEF left, more, tokens, a
    <2>7. BucketTaking(limit, granted, now, a, tokens - 1)
      <3>1. a <= now /\ level.value \in Nat
        BY <1>0 DEF a
      <3> QED BY <1>0, <2>1, <2>3, <2>6, <3>1, BucketTakes
    <2>8. CASE tokens <= 0
      <3>1. check'[c].pc = "idle" /\ granted' = granted
        BY <2>2, <2>8, Moves DEF Answer, Ends
      <3>2. BucketKept(limit, granted, mark, level, now)
        BY <1>0, <2>1, BucketLater DEF a
      <3> QED BY <2>2, <3>1, <3>2 DEF BucketOpen
    <2>9. CASE ~(tokens <= 0)
      <3>1. /\ check'[c].pc = "takeRefill" /\ check'[c].at = a
            /\ check'[c].val = tokens - 1
        BY <2>2, <2>9, Moves DEF Stays, Row, a
      <3> QED BY <2>7, <3>1 DEF BucketRow
    <2> QED BY <2>8, <2>9
  <1>4. CASE BucketFill(c)
    <2>1. BucketOpen(limit, granted, mark, level, now, a) /\ mark.until <= now
      BY <1>1, <1>4 DEF BucketFill, BucketRow
    <2>2. check'[c].pc = "initRefill" /\ check'[c].at = a
      BY <1>4, Moves DEF BucketFill, Stays, Row
    <2>3. /\ Room(granted, a, 2 * limit - 1)
          /\ \E p \in Int : p + Window <= now /\ \A r \in granted : r[1] <= p
      <3>1. level.value \in Nat
        BY <1>0
      <3> QED BY <1>0, <2>1, <3>1, BucketFilled
    <2> QED BY <2>2, <2>3 DEF BucketRow
  <1>5. CASE BucketInitRefill(c)
    <2>1. /\ Room(granted, a, 2 * limit - 1)
          /\ \E p \in Int : p + Window <= now /\ \A r \in granted : r[1] <= p
      BY <1>1, <1>5 DEF BucketInitRefill, BucketRow
    <2>2. check'[c].pc = "initTokens" /\ check'[c].at = a
      BY <1>5, Moves DEF BucketInitRefill, Stays, Row
    <2> QED BY <2>1, <2>2 DEF BucketRow
  <1>6. CASE BucketInitTokens(c)
    <2>1. Room(granted, a, 2 * limit - 1)
      BY <1>1, <1>6 DEF BucketInitTokens, BucketRow
    <2>2. PICK p \in Int : p + Window <= now /\ \A r \in granted : r[1] <= p
      BY <1>1, <1>6 DEF BucketInitTokens, BucketRow
    <2>3. /\ check'[c].pc = "takeRefill" /\ check'[c].at = a
          /\ check'[c].val = limit - 1
      BY <1>6, Moves DEF BucketInitTokens, Stays, Row
    <2>4. Drawn(limit, granted, limit, a, p)
      BY <1>0, <2>2, DrawnFull
    <2>5. (limit - 1) + 1 = limit
      BY <1>0
    <2>6. BucketTaking(limit, granted, now, a, limit - 1)
      BY <2>1, <2>2, <2>4, <2>5 DEF BucketTaking
    <2> QED BY <2>3, <2>6 DEF BucketRow
  <1>7. CASE BucketTakeRefill(c)
    <2>1. BucketTaking(limit, granted, now, a, check[c].val)
      BY <1>1, <1>7 DEF BucketTakeRefill, BucketRow
    <2>2. /\ check'[c].pc = "takeTokens" /\ check'[c].at = a
          /\ check'[c].val = check[c].val
          /\ mark'.value = a /\ mark'.until = now + Life
      BY <1>7, Moves DEF BucketTakeRefill, Stays, Row, Setex, Key
    <2>3. a + Window <= mark'.until
      BY <1>0, <2>2
    <2> QED BY <2>1, <2>2, <2>3 DEF BucketRow
  <1>8. CASE BucketTakeTokens(c)
    <2> DEFINE val == check[c].val
    <2>1. /\ BucketTaking(limit, granted, now, a, val)
          /\ mark.value = a /\ a + Window <= mark.until
      BY <1>1, <1>8 DEF BucketTakeTokens, BucketRow
    <2>2. /\ check'[c].pc = "idle" /\ mark' = mark
          /\ level'.value = val /\ level'.until = now + Life
          /\ level' = [value |-> val, until |-> now + Life]
          /\ granted' = Noted(granted, a)
      BY <1>8, Moves DEF BucketTakeTokens, Answer, Ends, Setex, Key
    <2>3. val \in Int
      BY OnPath DEF CheckRow
    <2>4. level' \in Moment /\ a + Window <= level'.until
      BY <1>0, <2>2, <2>3 DEF Moment
    <2>5. PICK r \in Requests \ granted :
            r[1] = a /\ Noted(granted, a) = granted \union {r}
      BY <1>0, Fresh
    <2>6. /\ BucketTaking(limit, granted, now, r[1], val) /\ mark.value = r[1]
          /\ r[1] + Window <= mark.until /\ r[1] + Window <= level'.until
          /\ r[1] <= now /\ \A q \in granted : q[1] <= r[1]
      BY <2>1, <2>4, <2>5
    <2>7. Room(granted, r[1], 2 * limit - 1)
      BY <2>6 DEF BucketTaking
    <2> HIDE DEF val
    <2>8. BucketOpen(limit, granted \union {r}, mark, level', now, now)
      BY <1>0, <2>2, <2>3, <2>4, <2>6, BucketTaken
    <2> QED BY <2>2, <2>5, <2>7, <2>8
  <1> QED BY <1>2, <1>3, <1>4, <1>5, <1>6, <1>7, <1>8 DEF Bucket

LEMMA BucketStep ==
  ASSUME IInv, OrderInv, Numbered(granted), BucketInv, [Next]_vars,
         kind = "tokenBucket", orderly', Sparse(granted, 2 * limit)
  PROVE  BucketInv' /\ Sparse(granted', 2 * limit)
  <1>0. /\ limit \in Nat \ {0} /\ now \in Nat /\ mark \in Moment
        /\ granted \in SUBSET Requests /\ IsFiniteSet(granted)
    BY Sorts
  <1>1. ASSUME NEW c \in Checks, Begin(c)
        PROVE  BucketInv' /\ Sparse(granted', 2 * limit)
    <2>1. /\ orderly /\ Active = {} /\ Active' = {c}
          /\ check'[c].pc = "refill" /\ check'[c].at = now
          /\ UNCHANGED <<kind, limit, mark, level, granted, now>>
      BY <1>1, Begins DEF Entry
    <2>2. BucketOpen(limit, granted, mark, level, now, now)
      BY <2>1 DEF BucketInv
    <2>3. BucketRow(limit, granted, mark, level, now, check'[c])
      BY <2>1, <2>2 DEF BucketRow
    <2> QED BY <2>1, <2>3 DEF BucketInv
  <1>2. ASSUME NEW c \in Checks, Die(c) PROVE FALSE
    BY <1>2 DEF Die
  <1>3. ASSUME NEW c \in Checks, Step(c)
        PROVE  BucketInv' /\ Sparse(granted', 2 * limit)
    <2>1. /\ orderly /\ Active = {c} /\ check[c].pc # "idle"
          /\ check[c].at \in 0..MaxTime /\ check[c].at <= now
          /\ \A r \in granted : r[1] <= check[c].at
          /\ IF check'[c].pc = "idle" THEN Active' = {} ELSE Active' = {c}
      BY <1>3, Alone
    <2>2. Bucket(c) /\ UNCHANGED <<kind, limit, orderly, now>>
      BY <1>3, ByKind DEF Step
    <2>3. CASE check'[c].pc # "idle"
      <3>1. BucketRow(limit, granted, mark', level', now, check'[c])
        BY <2>1, <2>2, <2>3, BucketMoves
      <3>2. granted' = granted
        BY <1>3, <2>3, StepMoves DEF Stays, Ends
      <3> QED BY <2>1, <2>2, <2>3, <3>1, <3>2 DEF BucketInv
    <2>4. CASE check'[c].pc = "idle"
      <3>1. /\ BucketOpen(limit, granted', mark', level', now, now)
            /\ \/ granted' = granted
               \/ \E r \in Requests \ granted :
                    /\ granted' = granted \union {r}
                    /\ Room(granted, r[1], 2 * limit - 1)
        BY <2>1, <2>2, <2>4, BucketMoves
      <3>2. BucketInv'
        BY <2>1, <2>2, <2>4, <3>1 DEF BucketInv
      <3>3. /\ 2 * limit \in Int /\ 2 * limit - 1 \in Int
            /\ 2 * limit = (2 * limit - 1) + 1
        BY <1>0
      <3>4. Sparse(granted', 2 * limit)
        BY <1>0, <3>1, <3>3, StaysSparse
      <3> QED BY <3>2, <3>4
    <2> QED BY <2>3, <2>4
  <1>4. CASE Tick
    <2>1. /\ UNCHANGED <<kind, limit, mark, level, check, granted, orderly>>
          /\ Active' = Active /\ now' = now + 1
          /\ \A c \in Active : check[c].at \in Int
      BY <1>4, Ticks
    <2>2. BucketOpen(limit, granted, mark, level, now, now)
            => BucketOpen(limit, granted, mark, level, now + 1, now + 1)
      BY <1>0, BucketLater
    <2>3. ASSUME NEW c \in Active,
                 BucketRow(limit, granted, mark, level, now, check[c])
          PROVE  BucketRow(limit, granted, mark, level, now + 1, check[c])
      BY <1>0, <2>1, <2>3, BucketRowLater
    <2> QED BY <2>1, <2>2, <2>3 DEF BucketInv
  <1>5. CASE UNCHANGED vars
    BY <1>5 DEF vars, keys, BucketInv, Active
  <1> QED BY <1>1, <1>2, <1>3, <1>4, <1>5 DEF Next

-----------------------------------------------------------------------------
(* The quota of checks that come one after the other *)

LEMMA SerialInit == Init => SerialInv
  <1> SUFFICES ASSUME Init PROVE SerialInv
    OBVIOUS
  <1>1. /\ granted = {} /\ now = 0 /\ mark = Key(0, 0) /\ level = Key(0, 0)
        /\ stamps = Key(<<>>, 0) /\ limit \in Nat \ {0} /\ kind \in Algorithms
        /\ Active = {}
    BY DEF Init, Active, Idle
  <1>2. mark.until = 0 /\ stamps.until = 0
    BY <1>1 DEF Key
  <1>3. OrderInv /\ Numbered(granted)
    BY <1>1 DEF OrderInv, Numbered
  <1>4. FixedInv /\ BucketInv
    BY <1>1, <1>2 DEF FixedInv, FixedOpen, BucketInv, BucketOpen
  <1>5. SlidingInv
    <2>1. Sparse({}, limit)
      BY <1>1, NoRequests
    <2>2. PICK p \in Int : p + Window <= 0
      <3>1. 0 - Window \in Int /\ (0 - Window) + Window <= 0
        OBVIOUS
      <3> QED BY <3>1
    <2>3. Late({}, {}, p) = {}
      BY DEF Late
    <2>4. Cardinality(Late({}, {}, p)) <= 1
      BY <2>3, FS_EmptySet
    <2>5. Stamped(limit, {}, stamps, 0, p, {})
      BY <2>1, <2>2, <2>4 DEF Stamped
    <2>6. SlidingOpen(limit, {}, stamps, 0, 0)
      BY <1>2, <2>5 DEF SlidingOpen
    <2> QED BY <1>1, <2>6 DEF SlidingInv
  <1>6. Sparse(granted, Burst)
    <2>1. Burst \in Nat
      BY <1>1 DEF Burst, Algorithms
    <2> QED BY <1>1, <2>1, NoRequests
  <1> QED BY <1>3, <1>4, <1>5, <1>6 DEF SerialInv

\* The configuration stays, and order once lost is not found again.
LEMMA SameKind ==
  ASSUME IInv, [Next]_vars
  PROVE  kind' = kind /\ limit' = limit /\ kind \in Algorithms /\ (orderly' => orderly)
  <1>1. \A c \in Checks : Begin(c)
          => kind' = kind /\ limit' = limit /\ (orderly' => orderly)
    BY DEF Begin
  <1>2. \A c \in Checks : Step(c) \/ Die(c)
          => kind' = kind /\ limit' = limit /\ (orderly' => orderly)
    BY StepMoves DEF Die
  <1>3. Tick \/ UNCHANGED vars
          => kind' = kind /\ limit' = limit /\ (orderly' => orderly)
    BY DEF Tick, vars
  <1>4. kind \in Algorithms
    BY DEF IInv, ConfigOK
  <1> QED BY <1>1, <1>2, <1>3, <1>4 DEF Next

LEMMA SerialStep == IInv /\ SerialInv /\ [Next]_vars => SerialInv'
  <1> SUFFICES ASSUME IInv, SerialInv, [Next]_vars PROVE SerialInv'
    OBVIOUS
  <1>1. OrderInv' /\ Numbered(granted')
    BY OrderStep, NumberedStep DEF SerialInv
  <1>2. kind' = kind /\ limit' = limit /\ kind \in Algorithms /\ (orderly' => orderly)
    BY SameKind
  <1>3. CASE ~orderly'
    BY <1>1, <1>3 DEF SerialInv, FixedInv, SlidingInv, BucketInv
  <1>4. CASE orderly'
    <2>1. /\ OrderInv /\ Numbered(granted) /\ Sparse(granted, Burst)
          /\ FixedInv /\ SlidingInv /\ BucketInv
      BY <1>2, <1>4 DEF SerialInv
    <2>2. Burst' = Burst
      BY <1>2 DEF Burst
    <2>3. CASE kind = "fixed"
      <3>1. Burst = 2 * limit + 1
        BY <2>3 DEF Burst
      <3>2. FixedInv' /\ Sparse(granted', Burst)
        BY <1>4, <2>1, <2>3, <3>1, FixedStep
      <3>3. SlidingInv' /\ BucketInv'
        BY <1>2, <2>3 DEF SlidingInv, BucketInv
      <3> QED BY <1>1, <2>2, <3>2, <3>3 DEF SerialInv
    <2>4. CASE kind = "sliding"
      <3>1. Burst = limit + 2
        BY <2>4 DEF Burst
      <3>2. SlidingInv' /\ Sparse(granted', Burst)
        BY <1>4, <2>1, <2>4, <3>1, SlidingStep
      <3>3. FixedInv' /\ BucketInv'
        BY <1>2, <2>4 DEF FixedInv, BucketInv
      <3> QED BY <1>1, <2>2, <3>2, <3>3 DEF SerialInv
    <2>5. CASE kind = "tokenBucket"
      <3>1. Burst = 2 * limit
        BY <2>5 DEF Burst
      <3>2. BucketInv' /\ Sparse(granted', Burst)
        BY <1>4, <2>1, <2>5, <3>1, BucketStep
      <3>3. FixedInv' /\ SlidingInv'
        BY <1>2, <2>5 DEF FixedInv, SlidingInv
      <3> QED BY <1>1, <2>2, <3>2, <3>3 DEF SerialInv
    <2> QED BY <1>2, <2>3, <2>4, <2>5 DEF Algorithms
  <1> QED BY <1>3, <1>4

\* Checks that come one after the other are allowed no more within a window's
\* length than the algorithm's burst: twice the limit and one for the fixed
\* window, the limit and two for the sliding one, twice the limit for the
\* bucket, however long each check takes and whichever keys expire under it.
THEOREM SerialKeeps == Spec => []SerialQuota
  <1>1. SerialInv => SerialQuota
    <2> SUFFICES ASSUME orderly, Sparse(granted, Burst), NEW t \in 0..MaxTime
        PROVE  Cardinality(During(granted, t, t + Window - 1)) <= Burst
      BY DEF SerialInv, SerialQuota
    <2> QED BY DEF Sparse
  <1> QED BY <1>1, InitTypes, StepTypes, SerialInit, SerialStep, PTL DEF Spec

-----------------------------------------------------------------------------
(* What a client did before a check of it was denied.  The asked requests    *)
(* are numbered like the allowed ones, and the check under way is the latest *)
(* of them.                                                                  *)

AskedInv ==
  /\ Numbered(asked)
  /\ orderly => /\ \A r \in asked : r[1] <= now
                /\ \A c \in Active : /\ \A r \in asked : r[1] <= check[c].at
                                     /\ \E r \in asked : r[1] = check[c].at

\* More requests than the limit within the window before a.
Busy(L, q, a) == Cardinality(During(q, a - Window, a)) > L

\* The fixed window counts requests that were asked since it was opened; e is
\* one for the request that is not counted yet.
Counted(q, mk, lv, a, e) ==
  mk.value <= a /\ lv.value + e <= Cardinality(From(q, mk.value))

CountedRow(L, q, mk, lv, row) ==
  /\ row.pc \in {"start", "setStart", "count", "incr"} => Counted(q, mk, lv, row.at, 1)
  /\ row.pc = "setCount" => mk.value = row.at
  /\ row.pc = "count" => row.at < mk.value + Window
  /\ row.pc = "incr" /\ ~row.allow => Busy(L, q, row.at)

CountedInv ==
  kind = "fixed" /\ orderly =>
    /\ Active = {} => Counted(asked, mark, level, now, 0)
    /\ \A c \in Active : CountedRow(limit, asked, mark, level, check[c])

\* The stamps no older than v.
Newer(s, v) == {i \in DOMAIN s : s[i] >= v}

\* Every stamp is that of a request that was asked.
Behind(q, s) == \A v \in Int : Cardinality(Newer(s, v)) <= Cardinality(From(q, v))

\* So it stays when the request that began at a, the latest, is stamped.
BehindBut(q, s, a) ==
  \A v \in Int :
    Cardinality(Newer(s, v)) + (IF v <= a THEN 1 ELSE 0) <= Cardinality(From(q, v))

BehindRow(L, q, st, row) ==
  /\ row.pc \in {"range", "push"} => BehindBut(q, st.value, row.at)
  /\ row.pc \in {"trim", "expire"} => Behind(q, st.value)
  /\ row.pc \in {"push", "trim", "expire"} /\ ~row.allow => Busy(L, q, row.at)

BehindInv ==
  kind = "sliding" /\ orderly =>
    /\ Active = {} => Behind(asked, stamps.value)
    /\ \A c \in Active : BehindRow(limit, asked, stamps, check[c])

\* The bucket was last refilled by a request that took a token.
Taken(g, mk, n) == mk.until <= n \/ \E r \in g : r[1] = mk.value

TakenRow(g, mk, n, row) ==
  /\ row.pc = "refill" => Taken(g, mk, n)
  /\ row.pc = "tokens" => row.val = mk.value /\ \E r \in g : r[1] = mk.value
  /\ row.pc = "takeTokens" => mk.value = row.at

TakenInv ==
  kind = "tokenBucket" /\ orderly =>
    /\ Active = {} => Taken(granted, mark, now)
    /\ \A c \in Active : TakenRow(granted, mark, now, check[c])

SpentInv == AskedInv /\ CountedInv /\ BehindInv /\ TakenInv

-----------------------------------------------------------------------------
(* The requests that were asked, step by step *)

LEMMA FromMore ==
  ASSUME NEW q \in SUBSET Requests, IsFiniteSet(q), NEW r \in Requests \ q, NEW v \in Int
  PROVE  /\ Cardinality(From(q, v)) \in Nat
         /\ Cardinality(From(q \union {r}, v))
              = Cardinality(From(q, v)) + (IF v <= r[1] THEN 1 ELSE 0)
  <1>1. IsFiniteSet(From(q, v)) /\ Cardinality(From(q, v)) \in Nat
    BY Parts
  <1>2. CASE v <= r[1]
    <2>1. From(q \union {r}, v) = From(q, v) \union {r} /\ r \notin From(q, v)
      BY <1>2 DEF From
    <2>2. Cardinality(From(q, v) \union {r}) = Cardinality(From(q, v)) + 1
      BY <1>1, <2>1, CountMore
    <2> QED BY <1>1, <1>2, <2>1, <2>2
  <1>3. CASE ~(v <= r[1])
    <2>1. From(q \union {r}, v) = From(q, v)
      BY <1>3 DEF From
    <2> QED BY <1>1, <1>3, <2>1
  <1> QED BY <1>2, <1>3

\* A check that begins is asked, as the latest.
LEMMA BeginAsks ==
  ASSUME IInv, AskedInv, NEW c \in Checks, Begin(c)
  PROVE  \E r \in Requests \ asked : /\ r[1] = now /\ asked' = asked \union {r}
                                     /\ Numbered(asked \union {r})
  <1>1. /\ asked \in SUBSET Requests /\ IsFiniteSet(asked) /\ now \in 0..MaxTime
        /\ Numbered(asked)
    BY DEF IInv, CountsOK, ConfigOK, AskedInv
  <1>2. asked' = Noted(asked, now)
    BY DEF Begin
  <1>3. PICK r \in Requests \ asked :
          /\ r[1] = now /\ Noted(asked, now) = asked \union {r}
          /\ Numbered(asked \union {r})
    BY <1>1, Fresh
  <1> QED BY <1>2, <1>3

\* An allowed check is noted.
LEMMA Grants ==
  ASSUME IInv, Numbered(granted), NEW t \in 0..MaxTime
  PROVE  Noted(granted, t) # granted
  <1>1. granted \in SUBSET Requests /\ IsFiniteSet(granted)
    BY DEF IInv, CountsOK
  <1>2. PICK r \in Requests \ granted : Noted(granted, t) = granted \union {r}
    BY <1>1, Fresh
  <1> QED BY <1>2

LEMMA AskedStep ==
  ASSUME IInv, OrderInv, AskedInv, [Next]_vars
  PROVE  AskedInv'
  <1>0. now \in Nat /\ asked \in SUBSET Requests /\ IsFiniteSet(asked)
    BY DEF IInv, ConfigOK, CountsOK
  <1>1. ASSUME NEW c \in Checks, Begin(c) PROVE AskedInv'
    <2>1. PICK r \in Requests \ asked :
            /\ r[1] = now /\ asked' = asked \union {r} /\ Numbered(asked \union {r})
      BY <1>1, BeginAsks
    <2>2. Numbered(asked')
      BY <2>1
    <2>3. CASE orderly'
      <3>1. /\ orderly /\ Active' = {c} /\ check'[c].at = now /\ now' = now
        BY <1>1, <2>3, Begins
      <3>2. \A s \in asked' : s[1] <= now
        BY <1>0, <2>1, <3>1 DEF AskedInv
      <3> QED BY <2>1, <2>2, <3>1, <3>2 DEF AskedInv
    <2> QED BY <2>2, <2>3 DEF AskedInv
  <1>2. ASSUME NEW c \in Checks, Die(c) PROVE AskedInv'
    BY <1>2 DEF Die, AskedInv
  <1>3. ASSUME NEW c \in Checks, Step(c) PROVE AskedInv'
    <2>1. UNCHANGED <<asked, orderly, now>>
      BY <1>3 DEF Step
    <2>2. CASE orderly
      <3>1. /\ Active = {c}
            /\ IF check'[c].pc = "idle" THEN Active' = {} ELSE Active' = {c}
        BY <1>3, <2>1, <2>2, Alone
      <3>2. check'[c].pc # "idle" => check'[c].at = check[c].at
        BY <1>3, StepMoves DEF Stays, Ends
      <3> QED BY <2>1, <2>2, <3>1, <3>2 DEF AskedInv
    <2>3. CASE ~orderly
      BY <2>1, <2>3 DEF AskedInv
    <2> QED BY <2>2, <2>3
  <1>4. CASE Tick
    <2>1. UNCHANGED <<check, asked, orderly>> /\ Active' = Active /\ now' = now + 1
      BY <1>4, Ticks DEF Tick
    <2>2. \A r \in asked : r[1] \in Int
      BY <1>0 DEF Requests
    <2>3. \A r \in asked : r[1] <= now => r[1] <= now'
      BY <1>0, <2>1, <2>2
    <2> QED BY <2>1, <2>3 DEF AskedInv
  <1>5. CASE UNCHANGED vars
    BY <1>5 DEF vars, AskedInv, Active
  <1> QED BY <1>1, <1>2, <1>3, <1>4, <1>5 DEF Next

-----------------------------------------------------------------------------
(* What the fixed window counts *)

\* What was asked since a window that is still open was asked within its length.
LEMMA BusySince ==
  ASSUME NEW L \in Nat, NEW q \in SUBSET Requests, IsFiniteSet(q), NEW v \in Int,
         NEW a \in Int, a <= v + Window, \A r \in q : r[1] <= a,
         Cardinality(From(q, v)) > L
  PROVE  Busy(L, q, a)
  <1>1. \A r \in q : r[1] \in Int
    BY DEF Requests
  <1>2. From(q, v) \in SUBSET During(q, a - Window, a)
    BY <1>1 DEF From, During
  <1>3. IsFiniteSet(During(q, a - Window, a))
    BY Parts
  <1>4. /\ Cardinality(From(q, v)) \in Nat
        /\ Cardinality(During(q, a - Window, a)) \in Nat
        /\ Cardinality(From(q, v)) <= Cardinality(During(q, a - Window, a))
    BY <1>2, <1>3, CountLess
  <1> QED BY <1>4 DEF Busy

LEMMA CountedMoves ==
  ASSUME IInv, AskedInv, CountedInv, kind = "fixed", orderly,
         Numbered(granted), NEW c \in Checks, Fixed(c), UNCHANGED <<kind, limit, asked, orderly, now>>,
         Active = {c}, check[c].at \in 0..MaxTime, check[c].at <= now
  PROVE  /\ check'[c].pc # "idle" =>
              CountedRow(limit, asked, mark', level', check'[c])
         /\ check'[c].pc = "idle" => Counted(asked, mark', level', now, 0)
         /\ check'[c].pc = "idle" /\ granted' = granted
              => check[c].pc = "incr" /\ ~check[c].allow
  <1> DEFINE a == check[c].at
  <1>0. /\ limit \in Nat \ {0} /\ now \in Int /\ a \in Int
        /\ mark.value \in Int /\ level.value \in Int
        /\ asked \in SUBSET Requests /\ IsFiniteSet(asked)
        /\ \A r \in asked : r[1] <= a
    BY Sorts, OnPath DEF IInv, CountsOK, AskedInv
  <1>1. CountedRow(limit, asked, mark, level, check[c])
    BY DEF CountedInv
  <1>2. CASE FixedStart(c)
    <2>1. Counted(asked, mark, level, a, 1)
      BY <1>1, <1>2 DEF FixedStart, CountedRow
    <2>2. /\ check'[c].at = a /\ mark' = mark /\ level' = level
          /\ check'[c].pc = IF ~Gone(mark) /\ a - mark.value < Window
                            THEN "count" ELSE "setStart"
      BY <1>2, Moves DEF FixedStart, Stays, keys, Row
    <2>3. check'[c].pc = "count" => a < mark.value + Window
      BY <1>0, <2>2
    <2> QED BY <2>1, <2>2, <2>3 DEF CountedRow
  <1>3. CASE FixedSetStart(c)
    <2>1. check'[c].at = a /\ check'[c].pc = "setCount" /\ mark'.value = a
      BY <1>3, Moves DEF FixedSetStart, Stays, Row, Setex, Key
    <2> QED BY <2>1 DEF CountedRow
  <1>4. CASE FixedSetCount(c)
    <2>1. mark.value = a
      BY <1>1, <1>4 DEF FixedSetCount, CountedRow
    <2>2. /\ check'[c].pc = "idle" /\ mark' = mark /\ level'.value = 1
          /\ granted' = Noted(granted, a)
      BY <1>4, Moves DEF FixedSetCount, Answer, Ends, Setex, Key
    <2>3. Cardinality(From(asked, a)) >= 1
      <3>1. PICK r \in asked : r[1] = a
        BY DEF AskedInv
      <3>2. r \in From(asked, a)
        BY <1>0, <3>1 DEF From
      <3>3. IsFiniteSet(From(asked, a)) /\ Cardinality(From(asked, a)) \in Nat
        BY <1>0, Parts
      <3>4. Cardinality(From(asked, a)) # 0
        BY <3>2, <3>3, FS_EmptySet
      <3> HIDE DEF a
      <3> QED BY <3>3, <3>4
    <2>4. Counted(asked, mark', level', now, 0)
      BY <1>0, <2>1, <2>2, <2>3 DEF Counted
    <2> QED BY <2>2, <2>4, Grants
  <1>5. CASE FixedCount(c)
    <2>1. Counted(asked, mark, level, a, 1) /\ a < mark.value + Window
      BY <1>1, <1>5 DEF FixedCount, CountedRow
    <2>2. /\ check'[c].pc = "incr" /\ check'[c].at = a
          /\ mark' = mark /\ level' = level
          /\ check'[c].allow = (Gone(level) \/ level.value < limit)
      BY <1>5, Moves DEF FixedCount, Stays, keys, Row
    <2>3. ~(Gone(level) \/ level.value < limit) => Busy(limit, asked, a)
      <3> SUFFICES ASSUME limit <= level.value PROVE Busy(limit, asked, a)
        BY <1>0
      <3> DEFINE k == Cardinality(From(asked, mark.value))
      <3>1. k \in Nat
        BY <1>0, Parts
      <3>2. level.value + 1 <= k
        BY <2>1 DEF Counted
      <3> HIDE DEF k, a
      <3>3. k > limit
        BY <1>0, <3>1, <3>2
      <3>4. a <= mark.value + Window /\ limit \in Nat
        BY <1>0, <2>1
      <3> QED BY <1>0, <3>3, <3>4, BusySince DEF k
    <2> QED BY <2>1, <2>2, <2>3 DEF CountedRow
  <1>6. CASE FixedIncr(c)
    <2>1. Counted(asked, mark, level, a, 1)
      BY <1>1, <1>6 DEF FixedIncr, CountedRow
    <2>2. /\ check'[c].pc = "idle" /\ mark' = mark /\ level' = Incr(level)
          /\ granted' = IF check[c].allow THEN Noted(granted, a) ELSE granted
      BY <1>6, Moves DEF FixedIncr, Answer, Ends
    <2>3. level'.value = 1 \/ level'.value = level.value + 1
      <3>1. level \in [value : Tokens, until : 0..Forever]
        BY DEF IInv, KeysOK
      <3> QED BY <2>2, <3>1 DEF Incr, Key
    <2>4. level.value >= 0
      BY <1>0 DEF IInv, KeysOK, Tokens
    <2>5. Counted(asked, mark', level', now, 0)
      BY <1>0, <2>1, <2>2, <2>3, <2>4, Parts DEF Counted
    <2>6. check[c].allow => granted' # granted
      BY <2>2, Grants
    <2> QED BY <1>6, <2>2, <2>5, <2>6 DEF FixedIncr
  <1> QED BY <1>2, <1>3, <1>4, <1>5, <1>6 DEF Fixed

LEMMA CountedStep ==
  ASSUME IInv, OrderInv, Numbered(granted), AskedInv, CountedInv, [Next]_vars,
         kind = "fixed", orderly'
  PROVE  CountedInv'
  <1>0. /\ limit \in Nat \ {0} /\ now \in Nat /\ mark.value \in Int /\ level.value \in Int
        /\ asked \in SUBSET Requests /\ IsFiniteSet(asked)
    BY Sorts DEF IInv, CountsOK
  <1>1. ASSUME NEW c \in Checks, Begin(c) PROVE CountedInv'
    <2>1. /\ orderly /\ Active = {} /\ Active' = {c}
          /\ check'[c].pc = "start" /\ check'[c].at = now
          /\ UNCHANGED <<kind, limit, mark, level, now>>
      BY <1>1, Begins DEF Entry
    <2>2. PICK r \in Requests \ asked : r[1] = now /\ asked' = asked \union {r}
      BY <1>1, BeginAsks
    <2>3. mark.value <= now /\ level.value <= Cardinality(From(asked, mark.value))
      BY <1>0, <2>1 DEF CountedInv, Counted
    <2>4. /\ Cardinality(From(asked, mark.value)) \in Nat
          /\ Cardinality(From(asked \union {r}, mark.value))
               = Cardinality(From(asked, mark.value)) + 1
      BY <1>0, <2>2, <2>3, FromMore
    <2>5. level.value + 1 <= Cardinality(From(asked \union {r}, mark.value))
      BY <1>0, <2>3, <2>4
    <2>6. Counted(asked', mark, level, now, 1)
      BY <2>2, <2>3, <2>5 DEF Counted
    <2>7. CountedRow(limit, asked', mark, level, check'[c])
      BY <2>1, <2>6 DEF CountedRow
    <2> QED BY <2>1, <2>7 DEF CountedInv
  <1>2. ASSUME NEW c \in Checks, Die(c) PROVE FALSE
    BY <1>2 DEF Die
  <1>3. ASSUME NEW c \in Checks, Step(c) PROVE CountedInv'
    <2>1. /\ orderly /\ Active = {c}
          /\ check[c].at \in 0..MaxTime /\ check[c].at <= now
          /\ IF check'[c].pc = "idle" THEN Active' = {} ELSE Active' = {c}
      BY <1>3, Alone
    <2>2. Fixed(c) /\ UNCHANGED <<kind, limit, asked, orderly, now>>
      BY <1>3, ByKind DEF Step
    <2>3. /\ check'[c].pc # "idle" =>
               CountedRow(limit, asked, mark', level', check'[c])
          /\ check'[c].pc = "idle" => Counted(asked, mark', level', now, 0)
      BY <2>1, <2>2, CountedMoves
    <2> QED BY <2>1, <2>2, <2>3 DEF CountedInv
  <1>4. CASE Tick
    <2>1. /\ UNCHANGED <<kind, limit, mark, level, check, asked, orderly>>
          /\ Active' = Active /\ now' = now + 1
      BY <1>4, Ticks DEF Tick
    <2>2. Counted(asked, mark, level, now, 0) => Counted(asked, mark, level, now + 1, 0)
      BY <1>0 DEF Counted
    <2> QED BY <2>1, <2>2 DEF CountedInv
  <1>5. CASE UNCHANGED vars
    BY <1>5 DEF vars, keys, CountedInv, Active
  <1> QED BY <1>1, <1>2, <1>3, <1>4, <1>5 DEF Next

-----------------------------------------------------------------------------
(* What the list of stamps holds *)

LEMMA NewerFinite ==
  ASSUME NEW s \in Seq(Int), NEW v \in Int
  PROVE  /\ IsFiniteSet(Newer(s, v)) /\ Cardinality(Newer(s, v)) \in Nat
         /\ Newer(s, v) \in SUBSET (1..Len(s))
  <1>1. DOMAIN s = 1..Len(s) /\ Len(s) \in Nat
    OBVIOUS
  <1>2. IsFiniteSet(1..Len(s))
    BY <1>1, FS_Interval
  <1>3. Newer(s, v) \in SUBSET (1..Len(s))
    BY <1>1 DEF Newer
  <1> QED BY <1>2, <1>3, CountLess

\* One stamp more is at most one more in every stretch that reaches it.
LEMMA NewerPush ==
  ASSUME NEW s \in Seq(Int), NEW a \in Int, NEW v \in Int
  PROVE  Cardinality(Newer(<<a>> \o s, v))
           <= Cardinality(Newer(s, v)) + (IF v <= a THEN 1 ELSE 0)
  <1> DEFINE u == <<a>> \o s
             V == {i \in Newer(u, v) : i # 1}
             f == [i \in V |-> i - 1]
  <1>1. /\ u \in Seq(Int) /\ Len(u) = Len(s) + 1 /\ u[1] = a /\ Len(s) \in Nat
        /\ \A k \in Nat : 2 <= k /\ k <= Len(s) + 1 => u[k] = s[k - 1]
    BY PushOne
  <1> HIDE DEF u
  <1>2. IsFiniteSet(Newer(u, v)) /\ Newer(u, v) \in SUBSET (1..Len(u))
    BY <1>1, NewerFinite
  <1>3. IsFiniteSet(Newer(s, v)) /\ Cardinality(Newer(s, v)) \in Nat
    BY NewerFinite
  <1>4. \A i \in V : i \in Nat /\ 2 <= i /\ i <= Len(s) + 1
    BY <1>1, <1>2
  <1>5. \A i \in V : i - 1 \in Newer(s, v)
    <2>1. DOMAIN s = 1..Len(s)
      OBVIOUS
    <2>2. ASSUME NEW i \in V PROVE i - 1 \in Newer(s, v)
      <3>1. u[i] >= v /\ u[i] = s[i - 1]
        BY <1>1, <1>4 DEF Newer
      <3>2. i - 1 \in 1..Len(s)
        BY <1>1, <1>4
      <3> QED BY <2>1, <3>1, <3>2 DEF Newer
    <2> QED BY <2>2
  <1>6. IsFiniteSet(V) /\ Cardinality(V) \in Nat
    <2>1. V \in SUBSET Newer(u, v)
      OBVIOUS
    <2> QED BY <1>2, <2>1, CountLess
  <1>7. Cardinality(V) <= Cardinality(Newer(s, v))
    <2>1. f \in [V -> Newer(s, v)]
      BY <1>5
    <2>2. \A i, j \in V : f[i] = f[j] => i = j
      BY <1>4
    <2> HIDE DEF V, f
    <2>3. f \in Injection(V, Newer(s, v))
      BY <2>1, <2>2 DEF Injection, IsInjective
    <2> QED BY <1>3, <2>3, FS_Injection
  <1>8. CASE v <= a
    <2>1. Newer(u, v) \in SUBSET (V \union {1})
      OBVIOUS
    <2>2. /\ IsFiniteSet(V \union {1}) /\ Cardinality(V \union {1}) \in Nat
          /\ Cardinality(V \union {1}) <= Cardinality(V) + 1
      BY <1>6, CountMore
    <2> HIDE DEF V
    <2>3. /\ Cardinality(Newer(u, v)) \in Nat
          /\ Cardinality(Newer(u, v)) <= Cardinality(V \union {1})
      BY <2>1, <2>2, CountLess
    <2>4. Cardinality(Newer(u, v)) <= Cardinality(Newer(s, v)) + 1
      BY <1>3, <1>6, <1>7, <2>2, <2>3
    <2> QED BY <1>8, <2>4 DEF u
  <1>9. CASE ~(v <= a)
    <2>1. Newer(u, v) = V
      BY <1>1, <1>9 DEF Newer
    <2> HIDE DEF V
    <2>2. Cardinality(Newer(u, v)) <= Cardinality(Newer(s, v)) + 0
      BY <1>3, <1>6, <1>7, <2>1
    <2> QED BY <1>9, <2>2 DEF u
  <1> QED BY <1>8, <1>9

\* The list LPUSH begins holds the one stamp.
LEMMA NewerOne ==
  ASSUME NEW a \in Int, NEW v \in Int
  PROVE  Cardinality(Newer(<<a>>, v)) <= IF v <= a THEN 1 ELSE 0
  <1>1. Newer(<<a>>, v) = IF v <= a THEN {1} ELSE {}
    BY DEF Newer
  <1> QED BY <1>1, FS_EmptySet, FS_Singleton

\* A trimmed list holds no more.
LEMMA NewerTrim ==
  ASSUME NEW s \in Seq(Int), NEW k \in Nat, k <= Len(s), NEW v \in Int
  PROVE  Cardinality(Newer(SubSeq(s, 1, k), v)) <= Cardinality(Newer(s, v))
  <1> DEFINE u == SubSeq(s, 1, k)
  <1>1. DOMAIN u = 1..k /\ DOMAIN s = 1..Len(s) /\ \A i \in 1..k : u[i] = s[i]
    OBVIOUS
  <1> HIDE DEF u
  <1>2. Newer(u, v) \in SUBSET Newer(s, v)
    BY <1>1 DEF Newer
  <1>3. Cardinality(Newer(u, v)) <= Cardinality(Newer(s, v))
    BY <1>2, NewerFinite, CountLess
  <1> QED BY <1>3 DEF u

LEMMA BehindMoves ==
  ASSUME IInv, AskedInv, BehindInv, orderly, Numbered(granted),
         NEW c \in Checks, Sliding(c), UNCHANGED <<kind, limit, asked, orderly, now>>,
         Active = {c}, check[c].at \in 0..MaxTime
  PROVE  /\ check'[c].pc # "idle" =>
              BehindRow(limit, asked, stamps', check'[c])
         /\ check'[c].pc = "idle" => Behind(asked, stamps'.value)
         /\ check'[c].pc = "idle" /\ granted' = granted
              => check[c].pc = "expire" /\ ~check[c].allow
  <1> DEFINE a == check[c].at
             s == stamps.value
  <1>0. /\ limit \in Nat \ {0} /\ now \in Int /\ a \in Int /\ s \in Seq(Int)
        /\ stamps \in [value : Seq(0..MaxTime), until : 0..Forever]
        /\ asked \in SUBSET Requests /\ IsFiniteSet(asked)
        /\ \A r \in asked : r[1] <= a
        /\ kind = "sliding"
    <2>1. stamps \in [value : Seq(0..MaxTime), until : 0..Forever]
      BY DEF IInv, KeysOK
    <2>2. s \in Seq(Int)
      BY <2>1
    <2> QED BY <2>1, <2>2, Sorts, OnPath, ByKind DEF IInv, CountsOK, AskedInv
  <1>1. BehindRow(limit, asked, stamps, check[c])
    BY <1>0 DEF BehindInv
  <1>b. \A v \in Int : /\ Cardinality(Newer(s, v)) \in Nat
                       /\ Cardinality(From(asked, v)) \in Nat
    <2> SUFFICES ASSUME NEW v \in Int
        PROVE  Cardinality(Newer(s, v)) \in Nat /\ Cardinality(From(asked, v)) \in Nat
      OBVIOUS
    <2>1. Cardinality(From(asked, v)) \in Nat
      BY <1>0, Parts
    <2> HIDE DEF s
    <2> QED BY <1>0, <2>1, NewerFinite
  <1>2. CASE SlidingRange(c)
    <2>1. BehindBut(asked, s, a)
      BY <1>1, <1>2 DEF SlidingRange, BehindRow
    <2>2. /\ check'[c].pc = "push" /\ check'[c].at = a /\ stamps' = stamps
          /\ check'[c].allow = (Cardinality(Valid(c)) < limit)
      BY <1>2, Moves DEF SlidingRange, Stays, Row, keys
    <2>3. ~(Cardinality(Valid(c)) < limit) => Busy(limit, asked, a)
      <3> SUFFICES ASSUME ~(Cardinality(Valid(c)) < limit) PROVE Busy(limit, asked, a)
        OBVIOUS
      <3>1. ~Gone(stamps)
        <4> SUFFICES ASSUME Gone(stamps) PROVE FALSE
          OBVIOUS
        <4>1. Cardinality(Valid(c)) = 0
          BY FS_EmptySet DEF Valid
        <4> QED BY <1>0, <4>1
      <3> DEFINE v == a - Window
                 k == Cardinality(From(asked, v))
                 m == Cardinality(Newer(s, v))
      <3>2. v \in Int /\ v <= a /\ a <= v + Window
        BY <1>0
      <3>3. Valid(c) = Newer(s, v)
        BY <3>1 DEF Valid, Newer
      <3>4. m \in Nat /\ k \in Nat
        BY <1>b, <3>2
      <3>5. m + 1 <= k
        BY <2>1, <3>2 DEF BehindBut
      <3>6. ~(m < limit)
        BY <3>3
      <3> HIDE DEF a, s, v, m, k
      <3>7. k > limit /\ limit \in Nat
        BY <1>0, <3>4, <3>5, <3>6
      <3> QED BY <1>0, <3>2, <3>7, BusySince DEF k
    <2> QED BY <2>1, <2>2, <2>3 DEF BehindRow
  <1>3. CASE SlidingPush(c)
    <2>1. BehindBut(asked, s, a) /\ (~check[c].allow => Busy(limit, asked, a))
      BY <1>1, <1>3 DEF SlidingPush, BehindRow
    <2>2. /\ check'[c].pc = "trim" /\ check'[c].at = a
          /\ check'[c].allow = check[c].allow /\ stamps' = Lpush(stamps, a)
      BY <1>3, Moves DEF SlidingPush, Stays, Row
    <2>3. stamps'.value = <<a>> \/ stamps'.value = <<a>> \o s
      BY <1>0, <2>2 DEF Lpush, Key
    <2>4. Behind(asked, stamps'.value)
      <3> SUFFICES ASSUME NEW v \in Int
          PROVE  Cardinality(Newer(stamps'.value, v)) <= Cardinality(From(asked, v))
        BY DEF Behind
      <3> HIDE DEF a, s
      <3> DEFINE e == IF v <= a THEN 1 ELSE 0
                 m == Cardinality(Newer(s, v))
                 k == Cardinality(From(asked, v))
                 w == Cardinality(Newer(stamps'.value, v))
      <3>1. e \in Nat
        OBVIOUS
      <3>2. m \in Nat /\ k \in Nat
        BY <1>b
      <3>3. m + e <= k
        BY <2>1 DEF BehindBut
      <3>4. w <= e \/ w <= m + e
        BY <1>0, <2>3, NewerPush, NewerOne
      <3>5. w \in Nat
        <4>1. <<a>> \in Seq(Int) /\ <<a>> \o s \in Seq(Int)
          BY <1>0
        <4>2. stamps'.value \in Seq(Int)
          BY <2>3, <4>1
        <4> QED BY <4>2, NewerFinite
      <3> HIDE DEF e, m, k, w
      <3>6. w <= k
        BY <3>1, <3>2, <3>3, <3>4, <3>5
      <3> QED BY <3>6 DEF w, k
    <2> QED BY <2>1, <2>2, <2>4 DEF BehindRow
  <1>4. CASE SlidingTrim(c)
    <2>1. Behind(asked, s) /\ (~check[c].allow => Busy(limit, asked, a))
      BY <1>1, <1>4 DEF SlidingTrim, BehindRow
    <2>2. /\ check'[c].pc = "expire" /\ check'[c].at = a
          /\ check'[c].allow = check[c].allow
      BY <1>4, Moves DEF SlidingTrim, Stays, Row
    <2>3. PICK j \in Nat : j <= Len(s) /\ stamps'.value = SubSeq(s, 1, j)
      <3>1. stamps'.value = SubSeq(s, 1, IF Len(s) < limit THEN Len(s) ELSE limit)
        BY <1>0, <1>4 DEF SlidingTrim, Keep
      <3>2. Len(s) \in Nat
        BY <1>0
      <3> QED BY <1>0, <3>1, <3>2
    <2>4. Behind(asked, stamps'.value)
      <3> SUFFICES ASSUME NEW v \in Int
          PROVE  Cardinality(Newer(stamps'.value, v)) <= Cardinality(From(asked, v))
        BY DEF Behind
      <3> HIDE DEF a, s
      <3>1. Cardinality(Newer(SubSeq(s, 1, j), v)) <= Cardinality(Newer(s, v))
        BY <1>0, <2>3, NewerTrim
      <3>2. Cardinality(Newer(s, v)) <= Cardinality(From(asked, v))
        BY <2>1 DEF Behind
      <3>3. Cardinality(Newer(SubSeq(s, 1, j), v)) \in Nat
        <4>1. SubSeq(s, 1, j) \in Seq(Int)
          BY <1>0, <2>3
        <4> QED BY <4>1, NewerFinite
      <3>4. /\ Cardinality(Newer(s, v)) \in Nat
            /\ Cardinality(From(asked, v)) \in Nat
        BY <1>b
      <3> QED BY <2>3, <3>1, <3>2, <3>3, <3>4
    <2> QED BY <2>1, <2>2, <2>4 DEF BehindRow
  <1>5. CASE SlidingExpire(c)
    <2>1. Behind(asked, s)
      BY <1>1, <1>5 DEF SlidingExpire, BehindRow
    <2>2. /\ check'[c].pc = "idle"
          /\ granted' = IF check[c].allow THEN Noted(granted, a) ELSE granted
          /\ stamps' = IF Gone(stamps) THEN stamps ELSE Setex(s)
      BY <1>5, Moves DEF SlidingExpire, Answer, Ends
    <2>3. stamps'.value = s
      BY <2>2 DEF Setex, Key
    <2>4. check[c].allow => granted' # granted
      BY <2>2, Grants
    <2> QED BY <1>5, <2>1, <2>2, <2>3, <2>4 DEF SlidingExpire
  <1> QED BY <1>2, <1>3, <1>4, <1>5 DEF Sliding

LEMMA BehindStep ==
  ASSUME IInv, OrderInv, Numbered(granted), AskedInv, BehindInv, [Next]_vars,
         kind = "sliding", orderly'
  PROVE  BehindInv'
  <1>0. /\ now \in Int /\ asked \in SUBSET Requests /\ IsFiniteSet(asked)
    BY Sorts DEF IInv, CountsOK
  <1>1. ASSUME NEW c \in Checks, Begin(c) PROVE BehindInv'
    <2>1. /\ orderly /\ Active = {} /\ Active' = {c}
          /\ check'[c].pc = "range" /\ check'[c].at = now
          /\ UNCHANGED <<kind, limit, stamps, now>>
      BY <1>1, Begins DEF Entry
    <2>2. PICK r \in Requests \ asked : r[1] = now /\ asked' = asked \union {r}
      BY <1>1, BeginAsks
    <2>3. BehindBut(asked \union {r}, stamps.value, now)
      <3> SUFFICES ASSUME NEW v \in Int
          PROVE  Cardinality(Newer(stamps.value, v)) + (IF v <= now THEN 1 ELSE 0)
                   <= Cardinality(From(asked \union {r}, v))
        BY DEF BehindBut
      <3>1. Cardinality(Newer(stamps.value, v)) <= Cardinality(From(asked, v))
        BY <2>1 DEF BehindInv, Behind
      <3>2. /\ Cardinality(From(asked, v)) \in Nat
            /\ Cardinality(From(asked \union {r}, v))
                 = Cardinality(From(asked, v)) + (IF v <= now THEN 1 ELSE 0)
        BY <1>0, <2>2, FromMore
      <3>3. Cardinality(Newer(stamps.value, v)) \in Nat
        <4>1. stamps.value \in Seq(Int)
          <5>1. stamps.value \in Seq(0..MaxTime)
            BY DEF IInv, KeysOK
          <5> QED BY <5>1
        <4> QED BY <4>1, NewerFinite
      <3> QED BY <3>1, <3>2, <3>3
    <2>4. BehindRow(limit, asked', stamps, check'[c])
      BY <2>1, <2>2, <2>3 DEF BehindRow
    <2> QED BY <2>1, <2>4 DEF BehindInv
  <1>2. ASSUME NEW c \in Checks, Die(c) PROVE FALSE
    BY <1>2 DEF Die
  <1>3. ASSUME NEW c \in Checks, Step(c) PROVE BehindInv'
    <2>1. /\ orderly /\ Active = {c} /\ check[c].at \in 0..MaxTime
          /\ IF check'[c].pc = "idle" THEN Active' = {} ELSE Active' = {c}
      BY <1>3, Alone
    <2>2. Sliding(c) /\ UNCHANGED <<kind, limit, asked, orderly, now>>
      BY <1>3, ByKind DEF Step
    <2>3. /\ check'[c].pc # "idle" => BehindRow(limit, asked, stamps', check'[c])
          /\ check'[c].pc = "idle" => Behind(asked, stamps'.value)
      BY <2>1, <2>2, BehindMoves
    <2> QED BY <2>1, <2>2, <2>3 DEF BehindInv
  <1>4. CASE Tick
    BY <1>4, Ticks DEF Tick, BehindInv
  <1>5. CASE UNCHANGED vars
    BY <1>5 DEF vars, keys, BehindInv, Active
  <1> QED BY <1>1, <1>2, <1>3, <1>4, <1>5 DEF Next

-----------------------------------------------------------------------------
(* Who took the tokens that are missing *)

\* As long as no token has come in, less than its time has passed.
LEMMA Scarce ==
  ASSUME NEW x \in Int, x \div Window <= 0
  PROVE  x < Window
  OBVIOUS

LEMMA TakenMoves ==
  ASSUME IInv, OrderInv, TakenInv, orderly, Numbered(granted),
         NEW c \in Checks, Bucket(c), UNCHANGED <<kind, limit, asked, orderly, now>>,
         Active = {c}, check[c].at \in 0..MaxTime,
         \A r \in granted : r[1] <= check[c].at
  PROVE  /\ check'[c].pc # "idle" => TakenRow(granted', mark', now, check'[c])
         /\ check'[c].pc = "idle" => Taken(granted', mark', now)
         /\ check'[c].pc = "idle" /\ granted' = granted => Spent(c)
  <1> DEFINE a == check[c].at
  <1>0. /\ kind = "tokenBucket" /\ limit \in Nat \ {0} /\ now \in Int /\ a \in Int
        /\ level.value \in 0..limit /\ mark.value \in Int
        /\ granted \in SUBSET Requests /\ IsFiniteSet(granted)
    <2>1. kind = "tokenBucket"
      BY ByKind
    <2> QED BY <2>1, Sorts DEF IInv, KeysOK, Tokens
  <1>1. TakenRow(granted, mark, now, check[c])
    BY <1>0 DEF TakenInv
  <1>2. CASE BucketRefill(c)
    <2>1. Taken(granted, mark, now)
      BY <1>1, <1>2 DEF BucketRefill, TakenRow
    <2>2. /\ check'[c].val = mark.value /\ mark' = mark /\ granted' = granted
          /\ check'[c].pc = IF Gone(mark) THEN "fill" ELSE "tokens"
      BY <1>2, Moves DEF BucketRefill, Stays, Row, keys
    <2> QED BY <2>1, <2>2 DEF Taken, TakenRow, Gone
  <1>3. CASE BucketTokens(c)
    <2> DEFINE x == (a - mark.value) * limit
               left == IF Gone(level) THEN limit ELSE level.value
               tokens == Refilled(left, a - mark.value)
    <2>1. check[c].val = mark.value
      BY <1>1, <1>3 DEF BucketTokens, TakenRow
    <2>2. PICK r \in granted : r[1] = mark.value
      BY <1>1, <1>3 DEF BucketTokens, TakenRow
    <2>3. /\ mark' = mark
          /\ IF tokens <= 0 THEN Answer(c, FALSE) ELSE Hold(c, "takeRefill", tokens - 1)
      BY <1>3, <2>1 DEF BucketTokens, keys
    <2>4. tokens = IF left + (x \div Window) < limit THEN left + (x \div Window) ELSE limit
      BY DEF Refilled
    <2>5. left \in Nat /\ x \in Int /\ (x \div Window) \in Int
      <3>1. left \in Nat /\ x \in Int
        BY <1>0
      <3> HIDE DEF x
      <3> QED BY <3>1, Rounded
    <2>6. tokens <= 0 => x < Window
      <3> HIDE DEF x, left, tokens
      <3>1. limit \in Nat \ {0}
        BY <1>0
      <3>2. tokens <= 0 => x \div Window <= 0
        BY <2>4, <2>5, <3>1
      <3> QED BY <2>5, <3>2, Scarce
    <2>7. x < Window => Spent(c)
      <3>1. mark.value <= a /\ (a - r[1]) * limit = x
        BY <2>2
      <3> HIDE DEF x
      <3> QED BY <1>0, <2>2, <3>1 DEF Spent
    <2> HIDE DEF x, left, tokens
    <2>8. CASE tokens <= 0
      <3>1. check'[c].pc = "idle" /\ granted' = granted
        BY <2>3, <2>8, Moves DEF Answer, Ends
      <3> QED BY <2>2, <2>3, <2>6, <2>7, <2>8, <3>1 DEF Taken
    <2>9. CASE ~(tokens <= 0)
      <3>1. check'[c].pc = "takeRefill"
        BY <2>3, <2>9, Moves DEF Stays, Row
      <3> QED BY <3>1 DEF TakenRow
    <2> QED BY <2>8, <2>9
  <1>4. CASE BucketFill(c) \/ BucketInitRefill(c) \/ BucketInitTokens(c)
    <2>1. check'[c].pc \in {"initRefill", "initTokens", "takeRefill"}
      BY <1>4, Moves DEF BucketFill, BucketInitRefill, BucketInitTokens, Stays, Row
    <2> QED BY <2>1 DEF TakenRow
  <1>5. CASE BucketTakeRefill(c)
    <2>1. check'[c].pc = "takeTokens" /\ check'[c].at = a /\ mark'.value = a
      BY <1>5, Moves DEF BucketTakeRefill, Stays, Row, Setex, Key
    <2> QED BY <2>1 DEF TakenRow
  <1>6. CASE BucketTakeTokens(c)
    <2>1. /\ check'[c].pc = "idle" /\ mark' = mark /\ granted' = Noted(granted, a)
          /\ mark.value = a
      BY <1>1, <1>6, Moves DEF BucketTakeTokens, Answer, Ends, TakenRow
    <2>2. PICK r \in Requests \ granted :
            r[1] = a /\ Noted(granted, a) = granted \union {r}
      BY <1>0, Fresh
    <2> QED BY <2>1, <2>2, Grants DEF Taken
  <1> QED BY <1>2, <1>3, <1>4, <1>5, <1>6 DEF Bucket

LEMMA TakenStep ==
  ASSUME IInv, OrderInv, Numbered(granted), TakenInv, [Next]_vars,
         kind = "tokenBucket", orderly'
  PROVE  TakenInv'
  <1>1. ASSUME NEW c \in Checks, Begin(c) PROVE TakenInv'
    <2>1. /\ orderly /\ Active = {} /\ Active' = {c} /\ check'[c].pc = "refill"
          /\ UNCHANGED <<kind, mark, granted, now>>
      BY <1>1, Begins DEF Entry
    <2> QED BY <2>1 DEF TakenInv, TakenRow
  <1>2. ASSUME NEW c \in Checks, Die(c) PROVE FALSE
    BY <1>2 DEF Die
  <1>3. ASSUME NEW c \in Checks, Step(c) PROVE TakenInv'
    <2>1. /\ orderly /\ Active = {c} /\ check[c].at \in 0..MaxTime
          /\ \A r \in granted : r[1] <= check[c].at
          /\ IF check'[c].pc = "idle" THEN Active' = {} ELSE Active' = {c}
      BY <1>3, Alone
    <2>2. Bucket(c) /\ UNCHANGED <<kind, limit, asked, orderly, now>>
      BY <1>3, ByKind DEF Step
    <2>3. /\ check'[c].pc # "idle" => TakenRow(granted', mark', now, check'[c])
          /\ check'[c].pc = "idle" => Taken(granted', mark', now)
      BY <2>1, <2>2, TakenMoves
    <2> QED BY <2>1, <2>2, <2>3 DEF TakenInv
  <1>4. CASE Tick
    <2>1. mark.until <= now => mark.until <= now + 1
      BY Sorts DEF Moment
    <2> QED BY <1>4, <2>1, Ticks DEF TakenInv, TakenRow, Taken
  <1>5. CASE UNCHANGED vars
    BY <1>5 DEF vars, keys, TakenInv, Active
  <1> QED BY <1>1, <1>2, <1>3, <1>4, <1>5 DEF Next

-----------------------------------------------------------------------------
(* Why checks are denied *)

LEMMA SpentInit == Init => SpentInv
  <1> SUFFICES ASSUME Init PROVE SpentInv
    OBVIOUS
  <1>1. /\ asked = {} /\ now = 0 /\ mark = Key(0, 0) /\ level = Key(0, 0)
        /\ stamps = Key(<<>>, 0) /\ Active = {}
    BY DEF Init, Active, Idle
  <1>2. AskedInv
    BY <1>1 DEF AskedInv, Numbered
  <1>3. CountedInv
    <2>1. Cardinality(From({}, 0)) = 0
      BY NoRequests
    <2> QED BY <1>1, <2>1 DEF CountedInv, Counted, Key
  <1>4. BehindInv
    <2>1. \A v \in Int : Newer(<<>>, v) = {}
      BY DEF Newer
    <2>2. \A v \in Int : Cardinality(From({}, v)) = 0
      BY NoRequests
    <2>3. Behind({}, <<>>)
      BY <2>1, <2>2, FS_EmptySet DEF Behind
    <2> QED BY <1>1, <2>3 DEF BehindInv, Key
  <1>5. TakenInv
    BY <1>1 DEF TakenInv, Taken, Key
  <1> QED BY <1>2, <1>3, <1>4, <1>5 DEF SpentInv

LEMMA SpentStep == IInv /\ SerialInv /\ SpentInv /\ [Next]_vars => SpentInv'
  <1> SUFFICES ASSUME IInv, SerialInv, SpentInv, [Next]_vars PROVE SpentInv'
    OBVIOUS
  <1>1. /\ OrderInv /\ Numbered(granted)
        /\ AskedInv /\ CountedInv /\ BehindInv /\ TakenInv
    BY DEF SerialInv, SpentInv
  <1>2. AskedInv'
    BY <1>1, AskedStep
  <1>3. kind' = kind
    BY SameKind
  <1>4. CountedInv'
    BY <1>1, <1>3, CountedStep DEF CountedInv
  <1>5. BehindInv'
    BY <1>1, <1>3, BehindStep DEF BehindInv
  <1>6. TakenInv'
    BY <1>1, <1>3, TakenStep DEF TakenInv
  <1> QED BY <1>2, <1>4, <1>5, <1>6 DEF SpentInv

\* The step that denies a check answers to what the client did before it.
LEMMA DenialIsSpent ==
  ASSUME IInv, SerialInv, SpentInv, [Next]_vars, NEW c \in Checks, orderly', Denial(c)
  PROVE  Spent(c)
  <1>1. /\ OrderInv /\ Numbered(granted)
        /\ AskedInv /\ CountedInv /\ BehindInv /\ TakenInv
    BY DEF SerialInv, SpentInv
  <1>2. check[c].pc # "idle" /\ check'[c].pc = "idle" /\ granted' = granted
    BY DEF Denial
  <1>3. Step(c)
    <2>1. ASSUME NEW d \in Checks, Begin(d) PROVE FALSE
      BY <1>2, <2>1, Begins DEF Active
    <2>2. ASSUME NEW d \in Checks, Die(d) PROVE FALSE
      BY <2>2 DEF Die
    <2>3. ASSUME NEW d \in Checks, Step(d) PROVE d = c
      BY <1>2, <2>3, StepMoves DEF Stays, Ends, Others
    <2>4. ~Tick /\ ~UNCHANGED vars
      BY <1>2 DEF Tick, vars
    <2> QED BY <2>1, <2>2, <2>3, <2>4 DEF Next
  <1>4. /\ orderly /\ Active = {c} /\ check[c].at \in 0..MaxTime /\ check[c].at <= now
        /\ \A r \in granted : r[1] <= check[c].at
    BY <1>1, <1>3, Alone
  <1>5. UNCHANGED <<kind, limit, asked, orderly, now>>
    BY <1>3 DEF Step
  <1>6. CASE Fixed(c)
    <2>1. kind = "fixed"
      BY <1>6, ByKind
    <2>2. check[c].pc = "incr" /\ ~check[c].allow
      BY <1>1, <1>2, <1>4, <1>5, <1>6, <2>1, CountedMoves
    <2>3. Busy(limit, asked, check[c].at)
      BY <1>1, <1>4, <2>1, <2>2 DEF CountedInv, CountedRow
    <2> QED BY <2>1, <2>3 DEF Busy, Spent
  <1>7. CASE Sliding(c)
    <2>1. kind = "sliding"
      BY <1>7, ByKind
    <2>2. check[c].pc = "expire" /\ ~check[c].allow
      BY <1>1, <1>2, <1>4, <1>5, <1>7, BehindMoves
    <2>3. Busy(limit, asked, check[c].at)
      BY <1>1, <1>4, <2>1, <2>2 DEF BehindInv, BehindRow
    <2> QED BY <2>1, <2>3 DEF Busy, Spent
  <1>8. CASE Bucket(c)
    BY <1>1, <1>2, <1>4, <1>5, <1>8, TakenMoves
  <1> QED BY <1>3, <1>6, <1>7, <1>8 DEF Step

\* While checks come one after the other, none is denied for what a window
\* before counted or for a stamp that outlived its request: more requests than
\* the limit began within the window before it, or a token was taken so lately
\* that no other has come in.
THEOREM DeniedSpent == Spec => DeniedHasSpent
  <1>1. IInv /\ SerialInv /\ SpentInv /\ [Next]_vars
          => [\A c \in Checks : (orderly' /\ Denial(c)) => Spent(c)]_vars
    BY DenialIsSpent
  <1> QED BY <1>1, InitTypes, StepTypes, SerialInit, SerialStep, SpentInit, SpentStep,
             PTL DEF Spec, DeniedHasSpent
=============================================================================
