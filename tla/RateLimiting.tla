---------------------------- MODULE RateLimiting ----------------------------
(***************************************************************************)
(* RateLimitingService for one client and one endpoint: the fixed window,  *)
(* the sliding window and the token bucket, each a handful of Redis        *)
(* commands.  The keys of different clients and endpoints never meet, so   *)
(* one client is enough.                                                   *)
(*                                                                         *)
(* One action is one Redis command.  Checks of the same client interleave  *)
(* between commands, a check may die between two of them, and the clock    *)
(* runs on while a check is under way; every comparison uses the `now` the *)
(* check captured when it began.  Redis itself answers: a failed command   *)
(* reads as null or is skipped, and a limiter without Redis admits         *)
(* everybody.                                                              *)
(***************************************************************************)
EXTENDS Integers, Sequences, FiniteSets

CONSTANTS
  Checks,       \* the checks of the client that can be in flight together
  Limits,       \* the values config.limit may have
  Window,       \* config.windowMs
  Life,         \* the TTL of the keys: Window rounded up to whole seconds
  Delay,        \* no check takes longer than this
  MaxTime,      \* bound of the clock
  MaxRequests   \* bound of the requests made

ASSUME LimitAssumption == Limits \subseteq Nat \ {0}
ASSUME WindowAssumption ==
  /\ Window \in Nat \ {0} /\ Life \in Nat /\ Delay \in Nat
  /\ Window <= Life
ASSUME BoundAssumption == MaxTime \in Nat /\ MaxRequests \in Nat
ASSUME ChecksAssumption == IsFiniteSet(Checks)

VARIABLES
  kind,     \* config.type
  limit,    \* config.limit
  mark,     \* the key :start of the fixed window, :lastRefill of the bucket
  level,    \* the key :count of the fixed window, :tokens of the bucket
  stamps,   \* the list :sliding, newest first
  check,    \* the checks in flight
  asked,    \* the checks that began, by moment and number
  granted,  \* those that were allowed, by the moment they began and number
  passed,   \* how many of them the fixed window's count has let through
  orderly,  \* TRUE while no two checks have overlapped and none has died
  now       \* the clock

keys == <<mark, level, stamps>>
vars == <<kind, limit, keys, check, asked, granted, passed, orderly, now>>

-----------------------------------------------------------------------------
(* Redis: a key has a value until it expires *)

Forever == MaxTime + Life + 1

Key(value, until) == [value |-> value, until |-> until]
Gone(key) == key.until <= now
Setex(value) == Key(value, now + Life)

\* INCR keeps the expiry of a key; a key that it creates never expires.
Incr(key) == IF Gone(key) THEN Key(1, Forever)
             ELSE [key EXCEPT !.value = @ + 1]

\* LPUSH likewise.
Lpush(key, x) == IF Gone(key) THEN Key(<<x>>, Forever)
                 ELSE [key EXCEPT !.value = <<x>> \o @]

-----------------------------------------------------------------------------
Algorithms == {"fixed", "sliding", "tokenBucket"}

\* Where a check of each algorithm begins, and the points it goes through.
Entry == [fixed |-> "start", sliding |-> "range", tokenBucket |-> "refill"]

Points ==
  [fixed |-> {"start", "setStart", "setCount", "count", "incr"},
   sliding |-> {"range", "push", "trim", "expire"},
   tokenBucket |-> {"refill", "tokens", "fill", "initRefill", "initTokens",
                    "takeRefill", "takeTokens"}]

\* A request of the history: the moment it began, and a number.
Requests == (0..MaxTime) \X Nat

\* `at` is the check's `now`, `allow` its decision, `val` the lastRefill it
\* read or the tokens it will leave.
CheckRow == [pc : Points[kind] \union {"idle"}, at : 0..MaxTime,
             allow : BOOLEAN, val : Int]

Idle == [pc |-> "idle", at |-> 0, allow |-> FALSE, val |-> 0]

\* Tokens never go over the limit, and never below zero.
TypeOK ==
  /\ kind \in Algorithms /\ limit \in Limits
  /\ mark \in [value : 0..MaxTime, until : 0..Forever]
  /\ level \in [value : IF kind = "tokenBucket" THEN 0..limit ELSE Nat,
                until : 0..Forever]
  /\ stamps \in [value : Seq(0..MaxTime), until : 0..Forever]
  /\ check \in [Checks -> CheckRow]
  /\ asked \in SUBSET Requests /\ granted \in SUBSET Requests
  /\ passed \in Nat
  /\ orderly \in BOOLEAN
  /\ now \in 0..MaxTime

Init ==
  /\ kind \in Algorithms /\ limit \in Limits
  /\ mark = Key(0, 0) /\ level = Key(0, 0) /\ stamps = Key(<<>>, 0)
  /\ check = [c \in Checks |-> Idle]
  /\ asked = {} /\ granted = {} /\ passed = 0
  /\ orderly = TRUE
  /\ now = 0

-----------------------------------------------------------------------------
(* The history of the client's requests *)

\* The requests of S that began between two moments, both included.
During(S, first, last) == {r \in S : first <= r[1] /\ r[1] <= last}

\* S with one more request that began at t.
Noted(S, t) == S \union {<<t, 1 + Cardinality(During(S, t, t))>>}

-----------------------------------------------------------------------------
(* How a check begins, moves on and ends *)

Active == {c \in Checks : check[c].pc # "idle"}

Begin(c) ==
  /\ check[c].pc = "idle"
  /\ Cardinality(asked) < MaxRequests
  /\ check' = [check EXCEPT ![c] = [@ EXCEPT !.pc = Entry[kind], !.at = now]]
  /\ asked' = Noted(asked, now)
  /\ orderly' = (orderly /\ Active = {})
  /\ UNCHANGED <<kind, limit, keys, granted, passed, now>>

\* The process goes down with the check, or the connection to Redis does.
Die(c) ==
  /\ check[c].pc # "idle"
  /\ check' = [check EXCEPT ![c] = Idle]
  /\ orderly' = FALSE
  /\ UNCHANGED <<kind, limit, keys, asked, granted, passed, now>>

Goto(c, pc) ==
  check' = [check EXCEPT ![c] = [@ EXCEPT !.pc = pc]] /\ UNCHANGED granted
Decide(c, pc, allow) ==
  /\ check' = [check EXCEPT ![c] = [@ EXCEPT !.pc = pc, !.allow = allow]]
  /\ UNCHANGED granted
Hold(c, pc, val) ==
  /\ check' = [check EXCEPT ![c] = [@ EXCEPT !.pc = pc, !.val = val]]
  /\ UNCHANGED granted

Answer(c, allow) ==
  /\ check' = [check EXCEPT ![c] = Idle]
  /\ granted' = IF allow THEN Noted(granted, check[c].at) ELSE granted

-----------------------------------------------------------------------------
(* checkFixedWindowRateLimit *)

FixedStart(c) ==
  /\ check[c].pc = "start"
  /\ Goto(c, IF ~Gone(mark) /\ check[c].at - mark.value < Window
             THEN "count" ELSE "setStart")
  /\ UNCHANGED <<keys, passed>>

FixedSetStart(c) ==
  /\ check[c].pc = "setStart"
  /\ mark' = Setex(check[c].at)
  /\ Goto(c, "setCount")
  /\ UNCHANGED <<level, stamps, passed>>

FixedSetCount(c) ==
  /\ check[c].pc = "setCount"
  /\ level' = Setex(1)
  /\ passed' = 1
  /\ Answer(c, TRUE)
  /\ UNCHANGED <<mark, stamps>>

\* What a bug could do: stop after the limit is passed, not when it is reached.
FixedCountLoose(c) ==
  /\ check[c].pc = "count"
  /\ Decide(c, "incr", Gone(level) \/ level.value <= limit)
  /\ UNCHANGED <<keys, passed>>

FixedCount(c) ==
  /\ check[c].pc = "count"
  /\ Decide(c, "incr", Gone(level) \/ level.value < limit)
  /\ UNCHANGED <<keys, passed>>

\* Requests over the limit are counted too.
FixedIncr(c) ==
  /\ check[c].pc = "incr"
  /\ level' = Incr(level)
  /\ passed' = (IF Gone(level) THEN 0 ELSE passed)
                 + (IF check[c].allow THEN 1 ELSE 0)
  /\ Answer(c, check[c].allow)
  /\ UNCHANGED <<mark, stamps>>

Fixed(c) == FixedStart(c) \/ FixedSetStart(c) \/ FixedSetCount(c)
              \/ FixedCount(c) \/ FixedIncr(c)

-----------------------------------------------------------------------------
(* checkSlidingWindowRateLimit *)

\* What a bug could do: count what is in the list.
ValidUnfiltered(c) == IF Gone(stamps) THEN {} ELSE DOMAIN stamps.value

\* The stamps that count: those no older than the window.
Valid(c) == IF Gone(stamps) THEN {}
            ELSE {i \in DOMAIN stamps.value :
                    stamps.value[i] >= check[c].at - Window}

SlidingRange(c) ==
  /\ check[c].pc = "range"
  /\ Decide(c, "push", Cardinality(Valid(c)) < limit)
  /\ UNCHANGED keys

\* Requests over the limit are stamped too.
SlidingPush(c) ==
  /\ check[c].pc = "push"
  /\ stamps' = Lpush(stamps, check[c].at)
  /\ Goto(c, "trim")
  /\ UNCHANGED <<mark, level>>

\* What a bug could do: read LTRIM's last index as a length.
KeepFewer == limit - 1

\* How many stamps LTRIM 0 (limit - 1) leaves.
Keep == limit

SlidingTrim(c) ==
  /\ check[c].pc = "trim"
  /\ stamps' = [stamps EXCEPT !.value =
                  SubSeq(@, 1, IF Len(@) < Keep THEN Len(@) ELSE Keep)]
  /\ Goto(c, "expire")
  /\ UNCHANGED <<mark, level>>

\* EXPIRE does nothing for a key that is gone.
SlidingExpire(c) ==
  /\ check[c].pc = "expire"
  /\ stamps' = IF Gone(stamps) THEN stamps ELSE Setex(stamps.value)
  /\ Answer(c, check[c].allow)
  /\ UNCHANGED <<mark, level>>

Sliding(c) == SlidingRange(c) \/ SlidingPush(c) \/ SlidingTrim(c)
                \/ SlidingExpire(c)

-----------------------------------------------------------------------------
(* checkTokenBucketRateLimit *)

BucketRefill(c) ==
  /\ check[c].pc = "refill"
  /\ Hold(c, IF Gone(mark) THEN "fill" ELSE "tokens", mark.value)
  /\ UNCHANGED keys

\* The tokens there are now, `elapsed` after the last refill.
Refilled(tokens, elapsed) ==
  LET more == (elapsed * limit) \div Window
  IN  IF tokens + more < limit THEN tokens + more ELSE limit

\* What a bug could do: deny below zero only.
BucketTokensLate(c) ==
  LET tokens == Refilled(IF Gone(level) THEN limit ELSE level.value,
                         check[c].at - check[c].val)
  IN  /\ check[c].pc = "tokens"
      /\ IF tokens < 0 THEN Answer(c, FALSE)
                       ELSE Hold(c, "takeRefill", tokens - 1)
      /\ UNCHANGED keys

\* A denied check writes nothing.
BucketTokens(c) ==
  LET tokens == Refilled(IF Gone(level) THEN limit ELSE level.value,
                         check[c].at - check[c].val)
  IN  /\ check[c].pc = "tokens"
      /\ IF tokens <= 0 THEN Answer(c, FALSE)
                        ELSE Hold(c, "takeRefill", tokens - 1)
      /\ UNCHANGED keys

\* Without a last refill the bucket is filled; :tokens is read all the same.
BucketFill(c) ==
  /\ check[c].pc = "fill"
  /\ Goto(c, "initRefill")
  /\ UNCHANGED keys

BucketInitRefill(c) ==
  /\ check[c].pc = "initRefill"
  /\ mark' = Setex(check[c].at)
  /\ Goto(c, "initTokens")
  /\ UNCHANGED <<level, stamps>>

BucketInitTokens(c) ==
  /\ check[c].pc = "initTokens"
  /\ level' = Setex(limit)
  /\ Hold(c, "takeRefill", limit - 1)
  /\ UNCHANGED <<mark, stamps>>

BucketTakeRefill(c) ==
  /\ check[c].pc = "takeRefill"
  /\ mark' = Setex(check[c].at)
  /\ Goto(c, "takeTokens")
  /\ UNCHANGED <<level, stamps>>

BucketTakeTokens(c) ==
  /\ check[c].pc = "takeTokens"
  /\ level' = Setex(check[c].val)
  /\ Answer(c, TRUE)
  /\ UNCHANGED <<mark, stamps>>

Bucket(c) == BucketRefill(c) \/ BucketTokens(c) \/ BucketFill(c)
               \/ BucketInitRefill(c) \/ BucketInitTokens(c)
               \/ BucketTakeRefill(c) \/ BucketTakeTokens(c)

-----------------------------------------------------------------------------
Step(c) ==
  /\ Fixed(c) \/ ((Sliding(c) \/ Bucket(c)) /\ UNCHANGED passed)
  /\ UNCHANGED <<kind, limit, asked, orderly, now>>

Tick ==
  /\ now < MaxTime
  /\ \A c \in Active : now - check[c].at < Delay
  /\ now' = now + 1
  /\ UNCHANGED <<kind, limit, keys, check, asked, granted, passed, orderly>>

Next == \/ \E c \in Checks : Begin(c) \/ Step(c) \/ Die(c)
        \/ Tick

Spec == Init /\ [][Next]_vars

-----------------------------------------------------------------------------
(* Properties *)

\* How many requests that come one after the other the algorithms let through
\* at worst, in a stretch as long as the window: the end of one fixed window
\* and the beginning of the next, and a check under way while the count
\* expires; what a sliding window holds, a check under way while the list
\* expires, and one whose stamp expired with the list before; a full bucket
\* and its refill.
Burst == CASE kind = "fixed" -> 2 * limit + 1
           [] kind = "sliding" -> limit + 2
           [] kind = "tokenBucket" -> 2 * limit

\* Checks that come one after the other are allowed no more than that,
\* wherever the stretch begins, however long a check takes and whenever the
\* keys expire under it.
SerialQuota ==
  orderly => \A t \in 0..MaxTime :
               Cardinality(During(granted, t, t + Window - 1)) <= Burst

\* Checks that overlap read the count before the others raise it, so that each
\* may let one request too many through; but however many of them open the
\* window together or find it expired, from one time the count is started to
\* the next it lets no more than that through.
OverlapQuota == passed <= limit + Cardinality(Checks) - 1

\* The answer "no" is about to be given to c.
Denial(c) == /\ check[c].pc # "idle" /\ check'[c].pc = "idle"
             /\ granted' = granted

\* Why c may be denied: as many requests as the limit within the window before
\* it (denied ones count), or a token taken so lately that no other has come.
Spent(c) ==
  LET at == check[c].at IN
  IF kind = "tokenBucket"
  THEN \E r \in granted : r[1] <= at /\ (at - r[1]) * limit < Window
  ELSE Cardinality(During(asked, at - Window, at)) > limit

\* No client is denied that has not used its quota: a check is denied only for
\* what the client did within the window, not for an older window's count or
\* for stamps that outlived it, as long as checks run to their end one by one.
DeniedHasSpent ==
  [][\A c \in Checks : (orderly' /\ Denial(c)) => Spent(c)]_vars
=============================================================================
