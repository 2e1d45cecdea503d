------------------------------- MODULE Blocking -------------------------------
(***************************************************************************)
(* Blocking and allowing addresses (IPReputationService).  A block is      *)
(* written in a transaction that holds one connection of the pool while it *)
(* computes the reputation and logs the event on others; transactions on   *)
(* one address wait for its row, and Prisma ends one that lasts too long.  *)
(* The cached reputation these calls clear is the subject of RowCaches.    *)
(***************************************************************************)
EXTENDS Naturals, FiniteSets

CONSTANTS
  Addresses,
  Compressed,  \* IPv6 addresses with ::, which every check takes for masked
  Calls,       \* calls that can be in flight
  Pool,        \* connections of the pool
  Durations,   \* of a block
  MaxTime      \* bound of the clock

ASSUME PoolAssumption ==
  /\ Addresses # {} /\ Compressed \subseteq Addresses
  /\ IsFiniteSet(Calls) /\ Pool \in Nat \ {0}
  /\ Durations \subseteq Nat \ {0} /\ MaxTime \in Nat \ {0}

VARIABLES
  block,    \* expiresAt of the address's IPBlock row, 0 without one
  allow,    \* the addresses with an IPWhitelist row
  call, now,
  promise,  \* ghost: until when a call said the address is blocked
  cleared   \* ghost: addresses a call said are not, since when no block began

vars == <<block, allow, call, now, promise, cleared>>

Pcs  == {"idle", "waiting", "open", "upserted", "logged", "committed",
         "allow", "check", "unblock", "deleting", "deleted", "disallow"}
Rest == [pc |-> "idle", ip |-> CHOOSE a \in Addresses : TRUE, until |-> 0,
         met |-> FALSE]

Busy(c)   == call[c].pc # "idle"
Holding   == {c \in Calls : call[c].pc \in {"open", "upserted", "logged", "deleting"}}
Free      == Pool - Cardinality(Holding)
Locked(a) == \E c \in Calls : call[c].ip = a /\ call[c].pc \in {"upserted", "logged"}

\* (Mutant) the log's transaction reads through a second connection in turn.
CanGoNested(c) ==
  /\ call[c].pc \in {"waiting", "allow", "check", "unblock", "disallow"} => Free > 0
  /\ call[c].pc = "upserted" => Free > 1
  /\ call[c].pc = "open" => ~Locked(call[c].ip)
  /\ call[c].pc = "deleting" => ~(Locked(call[c].ip) /\ block[call[c].ip] # 0)

\* What a call waits for where it stands: a connection for its next statement,
\* or the end of the transaction that has written its address's row.  An upsert
\* waits for it always; deleteMany does not see a row that is being inserted.
CanGo(c) ==
  /\ call[c].pc \in {"waiting", "upserted", "allow", "check", "unblock", "disallow"}
       => Free > 0
  /\ call[c].pc = "open" => ~Locked(call[c].ip)
  /\ call[c].pc = "deleting" => ~(Locked(call[c].ip) /\ block[call[c].ip] # 0)

\* isIPBlocked and getBlockInfo, which ask the database every time.
IsIPBlocked(a)  == a \notin Compressed /\ block[a] >= now
GetBlockInfo(a) == IF a \in Compressed \/ block[a] < now THEN 0 ELSE block[a]

CallTypes == [pc : Pcs, ip : Addresses, until : Nat, met : BOOLEAN]

TypeOK ==
  /\ block \in [Addresses -> Nat] /\ allow \subseteq Addresses
  /\ call \in [Calls -> CallTypes]
  /\ Cardinality(Holding) <= Pool
  /\ \A c, d \in Calls : c # d /\ call[c].ip = call[d].ip
       => ~({call[c].pc, call[d].pc} \subseteq {"upserted", "logged"})
  /\ now \in 1..MaxTime
  /\ promise \in [Addresses -> Nat] /\ cleared \subseteq Addresses

-----------------------------------------------------------------------------
\* A call on an address begins; it and those on the same address have met.
Begin(c, a, pc, until) ==
  LET others == {d \in Calls : Busy(d) /\ call[d].ip = a} IN
  call' = [d \in Calls |->
    IF d = c THEN [pc |-> pc, ip |-> a, until |-> until, met |-> others # {}]
    ELSE IF d \in others THEN [call[d] EXCEPT !.met = TRUE] ELSE call[d]]

Goto(c, from, to) == call[c].pc = from /\ call' = [call EXCEPT ![c].pc = to]
Finish(c, from)   == call[c].pc = from /\ call' = [call EXCEPT ![c] = Rest]

Ghosts == <<promise, cleared>>

BlockIP(c) ==
  /\ ~Busy(c)
  /\ \E a \in Addresses, d \in Durations : /\ Begin(c, a, "waiting", now + d)
                                           /\ cleared' = cleared \ {a}
  /\ UNCHANGED <<block, allow, now, promise>>

\* $transaction takes a connection.
OpenTransaction(c) == /\ CanGo(c) /\ Goto(c, "waiting", "open")
                      /\ UNCHANGED <<block, allow, now, Ghosts>>

UpsertBlock(c) == /\ CanGo(c) /\ Goto(c, "open", "upserted")
                  /\ UNCHANGED <<block, allow, now, Ghosts>>

\* getReputation and logEvent, outside the transaction, on other connections.
LogBlock(c) == /\ CanGo(c) /\ Goto(c, "upserted", "logged")
               /\ UNCHANGED <<block, allow, now, Ghosts>>

\* Ghost: the later of two blocks may end the earlier one sooner.
CommitBlock(c) ==
  /\ Goto(c, "logged", "committed")
  /\ block' = [block EXCEPT ![call[c].ip] = call[c].until]
  /\ promise' = [promise EXCEPT ![call[c].ip] =
                   IF @ < call[c].until THEN @ ELSE call[c].until]
  /\ UNCHANGED <<allow, now, cleared>>

\* The cache is cleared and the caller told.
AnswerBlock(c) ==
  /\ Finish(c, "committed")
  /\ promise' = IF call[c].met THEN promise
                ELSE [promise EXCEPT ![call[c].ip] = call[c].until]
  /\ UNCHANGED <<block, allow, now, cleared>>

-----------------------------------------------------------------------------
Withdraw(c, pc) ==
  /\ ~Busy(c)
  /\ \E a \in Addresses : /\ Begin(c, a, pc, 0)
                          /\ promise' = [promise EXCEPT ![a] = 0]
  /\ UNCHANGED <<block, allow, now, cleared>>

UnblockIP(c)   == Withdraw(c, "unblock")
WhitelistIP(c) == Withdraw(c, "allow")

\* (Mutant) the block is left to run out.
AllowOnly(c) == /\ Free > 0 /\ Goto(c, "allow", "deleted")
                /\ allow' = allow \cup {call[c].ip}
                /\ UNCHANGED <<block, now, Ghosts>>

Allow(c) == /\ CanGo(c) /\ Goto(c, "allow", "check")
            /\ allow' = allow \cup {call[c].ip}
            /\ UNCHANGED <<block, now, Ghosts>>

CheckBlocked(c) ==
  /\ CanGo(c)
  /\ \/ IsIPBlocked(call[c].ip) /\ Goto(c, "check", "unblock")
     \/ ~IsIPBlocked(call[c].ip) /\ Goto(c, "check", "deleted")
  /\ UNCHANGED <<block, allow, now, Ghosts>>

StartDelete(c) == /\ CanGo(c) /\ Goto(c, "unblock", "deleting")
                  /\ UNCHANGED <<block, allow, now, Ghosts>>

DeleteBlock(c) ==
  LET a == call[c].ip IN
  /\ CanGo(c) /\ Goto(c, "deleting", "deleted")
  /\ block' = [block EXCEPT ![a] = IF @ >= now THEN 0 ELSE @]
  /\ UNCHANGED <<allow, now, Ghosts>>

AnswerUnblock(c) ==
  /\ Finish(c, "deleted")
  /\ cleared' = IF call[c].met THEN cleared ELSE cleared \cup {call[c].ip}
  /\ UNCHANGED <<block, allow, now, promise>>

RemoveWhitelistIP(c) ==
  /\ ~Busy(c)
  /\ \E a \in Addresses : Begin(c, a, "disallow", 0)
  /\ UNCHANGED <<block, allow, now, Ghosts>>

Disallow(c) == /\ CanGo(c) /\ Finish(c, "disallow")
               /\ allow' = allow \ {call[c].ip}
               /\ UNCHANGED <<block, now, Ghosts>>

-----------------------------------------------------------------------------
\* (Mutant) only the wait for a connection is limited.
TimeOutWaiting(c) ==
  /\ call[c].pc = "waiting" /\ call' = [call EXCEPT ![c] = Rest]
  /\ UNCHANGED <<block, allow, now, Ghosts>>

\* Prisma gives up: no connection in time, or a transaction that lasted too
\* long, which is rolled back; a process that dies does the same.
TimeOut(c) ==
  /\ Busy(c) /\ call' = [call EXCEPT ![c] = Rest]
  /\ UNCHANGED <<block, allow, now, Ghosts>>

\* logEvent finds no connection in time, and says nothing.
LogFails(c) == /\ Goto(c, "upserted", "logged")
               /\ UNCHANGED <<block, allow, now, Ghosts>>

\* (Mutant) a block is deleted a moment before its end.
CleanupEarly ==
  /\ Free > 0
  /\ block' = [a \in Addresses |-> IF block[a] <= now /\ ~Locked(a) THEN 0 ELSE block[a]]
  /\ UNCHANGED <<allow, call, now, Ghosts>>

\* The job deletes what has expired, waiting for what is locked.
Cleanup ==
  /\ Free > 0
  /\ \A a \in Addresses : Locked(a) => block[a] = 0 \/ block[a] >= now
  /\ block' = [a \in Addresses |-> IF block[a] < now THEN 0 ELSE block[a]]
  /\ UNCHANGED <<allow, call, now, Ghosts>>

Tick == now < MaxTime /\ now' = now + 1 /\ UNCHANGED <<block, allow, call, Ghosts>>

-----------------------------------------------------------------------------
Ask(c) == BlockIP(c) \/ UnblockIP(c) \/ WhitelistIP(c) \/ RemoveWhitelistIP(c)

Proceed(c) == \/ OpenTransaction(c) \/ UpsertBlock(c) \/ LogBlock(c)
              \/ CommitBlock(c) \/ AnswerBlock(c)
              \/ Allow(c) \/ CheckBlocked(c) \/ StartDelete(c) \/ DeleteBlock(c)
              \/ AnswerUnblock(c) \/ Disallow(c)

Init == /\ block = [a \in Addresses |-> 0] /\ allow = {}
        /\ call = [c \in Calls |-> Rest] /\ now = 1
        /\ promise = [a \in Addresses |-> 0] /\ cleared = {}

Next == \/ \E c \in Calls : Ask(c) \/ Proceed(c) \/ TimeOut(c) \/ LogFails(c)
        \/ Cleanup \/ Tick

Spec == Init /\ [][Next]_vars

\* A call that can go on does; one that cannot is timed out.
Fairness == \A c \in Calls : WF_vars(Proceed(c)) /\ WF_vars(TimeOut(c))

FairSpec == Spec /\ Fairness

-----------------------------------------------------------------------------
\* Once a call has answered that an address is blocked, every check refuses it
\* until the block ends, unless a call to unblock or to allow it has begun; a
\* block that overlapped another call on the address promises nothing, and the
\* checks pass over compressed addresses whatever they were told.
BlockHolds ==
  \A a \in Addresses \ Compressed : promise[a] >= now => IsIPBlocked(a)

\* Once a call to unblock or to allow an address that met no other call on it
\* has answered, the address is not blocked until a new block begins: allowing
\* it has ended the block that stood.
ClearingHolds == \A a \in cleared : ~IsIPBlocked(a)

\* Calls wait for each other without end only when the open transactions hold
\* every connection, each waiting for one more: with one to spare none waits on
\* another for ever.
Stuck == (\E c \in Calls : Busy(c)) /\ \A c \in Calls : Busy(c) => ~CanGo(c)

StuckNeedsFullPool == Stuck => Cardinality(Holding) = Pool

\* Whatever a call waits for, some transaction that has begun holds it, and will
\* give it back: another one's, unless the pool has a single connection, which
\* a block holds while it waits for one.
WaitsForHolder ==
  \A c \in Calls : Busy(c) /\ ~CanGo(c) => \E d \in Holding : d # c \/ Pool = 1

\* Every call ends, stuck or not: a transaction is timed out while it waits.
EveryCallEnds == \A c \in Calls : Busy(c) ~> ~Busy(c)
=============================================================================
