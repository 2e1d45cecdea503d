---------------------------- MODULE BlockingProofs ----------------------------
(***************************************************************************)
(* That a block holds once answered, and a clearing too, and that calls do *)
(* not all wait for each other while a connection is free, for every       *)
(* number of addresses and calls and every size of the pool.               *)
(***************************************************************************)
EXTENDS Blocking, FiniteSetTheorems, TLAPS

-----------------------------------------------------------------------------
\* What a step does to the calls.

Same(d) == call'[d] = call[d]

LEMMA RestType == Rest \in CallTypes /\ Rest.pc = "idle"
  BY PoolAssumption DEF Rest, CallTypes, Pcs

LEMMA BeginFields ==
  ASSUME TypeOK, NEW c \in Calls, NEW a \in Addresses, NEW pc \in Pcs, NEW until \in Nat,
         Begin(c, a, pc, until)
  PROVE  /\ call' \in [Calls -> CallTypes]
         /\ call'[c].pc = pc /\ call'[c].ip = a /\ call'[c].until = until
         /\ \A d \in Calls \ {c} :
              /\ call'[d].pc = call[d].pc /\ call'[d].ip = call[d].ip
              /\ call'[d].until = call[d].until
              /\ call[d].met => call'[d].met
              /\ Busy(d) /\ call[d].ip = a => call'[d].met /\ call'[c].met
<1> DEFINE others == {d \in Calls : Busy(d) /\ call[d].ip = a}
<1>1. \A d \in Calls : call[d] \in CallTypes
  BY DEF TypeOK
<1>2. /\ call'[c] = [pc |-> pc, ip |-> a, until |-> until, met |-> others # {}]
      /\ call'[c] \in CallTypes
  BY DEF Begin, CallTypes
<1>3. ASSUME NEW d \in Calls \ {c}
      PROVE  /\ call'[d] \in CallTypes
             /\ call'[d].pc = call[d].pc /\ call'[d].ip = call[d].ip
             /\ call'[d].until = call[d].until
             /\ call[d].met => call'[d].met
             /\ d \in others => call'[d].met
  BY <1>1, <1>3 DEF Begin, CallTypes
<1>4. \A d \in Calls : d \in others => call'[c].met
  <2>1. call'[c].met = (others # {})
    BY <1>2
  <2>2. QED
    BY <2>1, Zenon
<1>5. call' \in [Calls -> CallTypes]
  <2>1. \A d \in Calls : call'[d] \in CallTypes
    BY <1>2, <1>3
  <2>2. call' = [d \in Calls |->
                  IF d = c THEN [pc |-> pc, ip |-> a, until |-> until, met |-> others # {}]
                  ELSE IF d \in others THEN [call[d] EXCEPT !.met = TRUE] ELSE call[d]]
    BY DEF Begin
  <2>3. QED
    BY <2>1, <2>2
<1>6. QED
  BY <1>2, <1>3, <1>4, <1>5

LEMMA GotoFields ==
  ASSUME TypeOK, NEW c \in Calls, NEW from, NEW to \in Pcs, Goto(c, from, to)
  PROVE  /\ call' \in [Calls -> CallTypes]
         /\ call[c].pc = from /\ call'[c].pc = to
         /\ call'[c].ip = call[c].ip /\ call'[c].until = call[c].until
         /\ call'[c].met = call[c].met
         /\ \A d \in Calls \ {c} : Same(d)
<1>1. \A d \in Calls : call[d] \in CallTypes
  BY DEF TypeOK
<1>2. [call[c] EXCEPT !.pc = to] \in CallTypes
  BY <1>1 DEF CallTypes
<1>3. QED
  BY <1>1, <1>2 DEF Goto, TypeOK, CallTypes, Same

LEMMA EndFields ==
  ASSUME TypeOK, NEW c \in Calls, call' = [call EXCEPT ![c] = Rest]
  PROVE  /\ call' \in [Calls -> CallTypes] /\ call'[c].pc = "idle"
         /\ \A d \in Calls \ {c} : Same(d)
  BY RestType DEF TypeOK, Same

\* The calls of a step, whatever it is: c begins, goes on or ends.
Begins(c) == \E a \in Addresses, pc \in {"waiting", "unblock", "allow", "disallow"},
                until \in Nat : Begin(c, a, pc, until)
Opens(c) == \/ Goto(c, "waiting", "open") \/ Goto(c, "unblock", "deleting")
Locks(c) == Goto(c, "open", "upserted")
Goes(c)  == \/ Goto(c, "upserted", "logged") \/ Goto(c, "logged", "committed")
            \/ Goto(c, "allow", "check") \/ Goto(c, "check", "unblock")
            \/ Goto(c, "check", "deleted") \/ Goto(c, "deleting", "deleted")
Ends(c)  == call' = [call EXCEPT ![c] = Rest]
Stays    == Cleanup \/ Tick \/ UNCHANGED vars

LEMMA NextCases ==
  ASSUME TypeOK, [Next]_vars
  PROVE  \/ \E c \in Calls : Ask(c)
         \/ \E c \in Calls : Proceed(c)
         \/ \E c \in Calls : TimeOut(c)
         \/ \E c \in Calls : LogFails(c)
         \/ Stays
<1>1. CASE Next
  BY <1>1, Zenon DEF Next, Stays
<1>2. CASE UNCHANGED vars
  BY <1>2, Zenon DEF Stays
<1>3. QED
  BY <1>1, <1>2

LEMMA AskBegins ==
  ASSUME TypeOK, NEW c \in Calls, Ask(c)
  PROVE  ~Busy(c) /\ Begins(c)
<1>1. \A d \in Durations : now + d \in Nat
  BY PoolAssumption DEF TypeOK
<1>2. CASE BlockIP(c)
  BY <1>1, <1>2 DEF BlockIP, Begins
<1>3. CASE UnblockIP(c) \/ WhitelistIP(c)
  BY <1>3 DEF UnblockIP, WhitelistIP, Withdraw, Begins
<1>4. CASE RemoveWhitelistIP(c)
  BY <1>4 DEF RemoveWhitelistIP, Begins
<1>5. QED
  BY <1>2, <1>3, <1>4 DEF Ask

LEMMA ProceedMoves ==
  ASSUME NEW c \in Calls, Proceed(c)
  PROVE  \/ Opens(c) /\ Free > 0
         \/ Locks(c) /\ ~Locked(call[c].ip)
         \/ Goes(c)
         \/ Ends(c)
<1> USE DEF Opens, Locks, Goes, Ends
<1>1. CASE OpenTransaction(c) \/ StartDelete(c)
  BY <1>1 DEF OpenTransaction, StartDelete, CanGo, Goto
<1>2. CASE UpsertBlock(c)
  BY <1>2 DEF UpsertBlock, CanGo, Goto
<1>3. CASE AnswerBlock(c) \/ AnswerUnblock(c) \/ Disallow(c)
  BY <1>3 DEF AnswerBlock, AnswerUnblock, Disallow, Finish
<1>4. QED
  BY <1>1, <1>2, <1>3 DEF Proceed, LogBlock, CommitBlock, Allow, CheckBlocked, DeleteBlock

-----------------------------------------------------------------------------
\* Every step keeps the types, the pool and the locks.

Types == /\ block \in [Addresses -> Nat] /\ allow \subseteq Addresses
         /\ call \in [Calls -> CallTypes] /\ now \in 1..MaxTime
         /\ promise \in [Addresses -> Nat] /\ cleared \subseteq Addresses

InPool == Cardinality(Holding) <= Pool

OneLock == \A c, d \in Calls : c # d /\ call[c].ip = call[d].ip
             => ~({call[c].pc, call[d].pc} \subseteq {"upserted", "logged"})

LEMMA TypeParts == TypeOK <=> Types /\ InPool /\ OneLock
  BY DEF TypeOK, Types, InPool, OneLock

LEMMA HoldingFinite ==
  /\ IsFiniteSet(Holding) /\ Cardinality(Holding) \in Nat
  /\ \A S : S \subseteq Holding => IsFiniteSet(S) /\ Cardinality(S) <= Cardinality(Holding)
<1>1. IsFiniteSet(Holding)
  BY FS_Subset, PoolAssumption DEF Holding
<1>2. QED
  BY <1>1, FS_Subset, FS_CardinalityType

LEMMA Shrinks ==
  ASSUME TypeOK, Holding' \subseteq Holding PROVE InPool'
<1>1. Cardinality(Holding') <= Cardinality(Holding) /\ Cardinality(Holding) \in Nat
  BY HoldingFinite
<1>2. Cardinality(Holding') \in Nat
  BY HoldingFinite, FS_Subset, FS_CardinalityType
<1>3. QED
  BY <1>1, <1>2, PoolAssumption DEF TypeOK, InPool

LEMMA Grows ==
  ASSUME TypeOK, NEW c, Free > 0, Holding' \subseteq Holding \cup {c} PROVE InPool'
<1>1. Cardinality(Holding \cup {c}) <= Cardinality(Holding) + 1 /\ IsFiniteSet(Holding \cup {c})
  BY HoldingFinite, FS_AddElement
<1>2. Cardinality(Holding') <= Cardinality(Holding \cup {c}) /\ IsFiniteSet(Holding')
  BY <1>1, FS_Subset
<1>3. Cardinality(Holding') \in Nat /\ Cardinality(Holding) \in Nat /\ Cardinality(Holding \cup {c}) \in Nat
  BY <1>1, <1>2, HoldingFinite, FS_CardinalityType
<1>4. QED
  BY <1>1, <1>2, <1>3, PoolAssumption DEF Free, InPool

LEMMA PoolAndLocks ==
  ASSUME TypeOK, [Next]_vars
  PROVE  /\ call' \in [Calls -> CallTypes] /\ InPool' /\ OneLock'
<1> DEFINE Good == call' \in [Calls -> CallTypes] /\ InPool' /\ OneLock'
<1> DEFINE Locking(d) == call[d].pc \in {"upserted", "logged"}
<1>0. OneLock /\ Types /\ InPool
  BY TypeParts
<1>1. ASSUME \A d \in Calls : Locking(d)' => Locking(d) /\ call'[d].ip = call[d].ip
      PROVE  OneLock'
  BY <1>0, <1>1 DEF OneLock
<1>2. ASSUME NEW c \in Calls, Ask(c) PROVE Good
  <2>1. PICK a \in Addresses, pc \in {"waiting", "unblock", "allow", "disallow"},
             until \in Nat : Begin(c, a, pc, until)
    BY <1>2, AskBegins DEF Begins
  <2>2. /\ call' \in [Calls -> CallTypes]
        /\ call'[c].pc \in {"waiting", "unblock", "allow", "disallow"}
        /\ \A d \in Calls \ {c} : call'[d].pc = call[d].pc /\ call'[d].ip = call[d].ip
    BY <2>1, BeginFields DEF Pcs
  <2>3. Holding' \subseteq Holding
    BY <2>2 DEF Holding
  <2>4. QED
    BY <1>1, <2>2, <2>3, Shrinks
<1>3. ASSUME NEW c \in Calls, Opens(c), Free > 0 PROVE Good
  <2>1. /\ call' \in [Calls -> CallTypes] /\ call'[c].pc \in {"open", "deleting"}
        /\ \A d \in Calls \ {c} : Same(d)
    BY <1>3, GotoFields DEF Opens, Pcs
  <2>2. Holding' \subseteq Holding \cup {c}
    BY <2>1 DEF Holding, Same
  <2>3. QED
    BY <1>1, <1>3, <2>1, <2>2, Grows DEF Same
<1>4. ASSUME NEW c \in Calls, Locks(c), ~Locked(call[c].ip) PROVE Good
  <2>1. /\ call' \in [Calls -> CallTypes]
        /\ call[c].pc = "open" /\ call'[c].pc = "upserted" /\ call'[c].ip = call[c].ip
        /\ \A d \in Calls \ {c} : Same(d)
    BY <1>4, GotoFields DEF Locks, Pcs
  <2>2. Holding' \subseteq Holding
    BY <2>1 DEF Holding, Same
  <2>3. OneLock'
    BY <1>0, <1>4, <2>1 DEF OneLock, Locked, Same
  <2>4. QED
    BY <2>1, <2>2, <2>3, Shrinks
<1>5. ASSUME NEW c \in Calls, Goes(c) PROVE Good
  <2>1. /\ call' \in [Calls -> CallTypes] /\ call'[c].ip = call[c].ip
        /\ call'[c].pc \in {"logged", "committed", "check", "unblock", "deleted"}
        /\ call'[c].pc = "logged" => call[c].pc = "upserted"
        /\ \A d \in Calls \ {c} : Same(d)
    BY <1>5, GotoFields DEF Goes, Pcs
  <2>2. Holding' \subseteq Holding
    BY <2>1 DEF Holding, Same
  <2>3. QED
    BY <1>1, <2>1, <2>2, Shrinks DEF Same
<1>6. ASSUME NEW c \in Calls, Ends(c) PROVE Good
  <2>1. /\ call' \in [Calls -> CallTypes] /\ call'[c].pc = "idle"
        /\ \A d \in Calls \ {c} : Same(d)
    BY <1>6, EndFields DEF Ends
  <2>2. Holding' \subseteq Holding
    BY <2>1 DEF Holding, Same
  <2>3. QED
    BY <1>1, <2>1, <2>2, Shrinks DEF Same
<1>7. ASSUME call' = call PROVE Good
  BY <1>0, <1>7 DEF Types, InPool, OneLock, Holding
<1>8. CASE \E c \in Calls : Proceed(c)
  BY <1>3, <1>4, <1>5, <1>6, <1>8, ProceedMoves
<1>9. CASE \E c \in Calls : TimeOut(c)
  BY <1>6, <1>9 DEF TimeOut, Ends
<1>10. CASE \E c \in Calls : LogFails(c)
  BY <1>5, <1>10 DEF LogFails, Goes
<1>11. CASE Stays
  BY <1>7, <1>11 DEF Stays, Cleanup, Tick, vars
<1>12. QED
  BY <1>2, <1>8, <1>9, <1>10, <1>11, NextCases

LEMMA TypeStep == TypeOK /\ [Next]_vars => TypeOK'
<1> SUFFICES ASSUME TypeOK, [Next]_vars PROVE TypeOK'
  OBVIOUS
<1> DEFINE Kept == /\ block' \in [Addresses -> Nat] /\ allow' \subseteq Addresses
                   /\ now' \in 1..MaxTime
                   /\ promise' \in [Addresses -> Nat] /\ cleared' \subseteq Addresses
<1>0. /\ block \in [Addresses -> Nat] /\ allow \subseteq Addresses
      /\ now \in 1..MaxTime /\ MaxTime \in Nat
      /\ promise \in [Addresses -> Nat] /\ cleared \subseteq Addresses
      /\ \A c \in Calls : call[c].ip \in Addresses /\ call[c].until \in Nat
  BY PoolAssumption DEF TypeOK, CallTypes
<1>1. ASSUME NEW c \in Calls, Ask(c) PROVE Kept
  BY <1>0, <1>1 DEF Ask, BlockIP, UnblockIP, WhitelistIP, RemoveWhitelistIP, Withdraw, Ghosts
<1>2. ASSUME NEW c \in Calls, CommitBlock(c) \/ AnswerBlock(c) PROVE Kept
  BY <1>0, <1>2 DEF CommitBlock, AnswerBlock
<1>3. ASSUME NEW c \in Calls,
             \/ Allow(c) \/ DeleteBlock(c) \/ AnswerUnblock(c) \/ Disallow(c)
      PROVE Kept
  BY <1>0, <1>3 DEF Allow, DeleteBlock, AnswerUnblock, Disallow, Ghosts
<1>4. ASSUME NEW c \in Calls,
             \/ OpenTransaction(c) \/ UpsertBlock(c) \/ LogBlock(c)
             \/ CheckBlocked(c) \/ StartDelete(c) \/ TimeOut(c) \/ LogFails(c)
      PROVE Kept
  BY <1>0, <1>4 DEF OpenTransaction, UpsertBlock, LogBlock, CheckBlocked, StartDelete,
     TimeOut, LogFails, Ghosts
<1>5. ASSUME Stays PROVE Kept
  <2>1. CASE Cleanup
    BY <1>0, <2>1 DEF Cleanup, Ghosts
  <2>2. CASE Tick
    BY <1>0, <2>2 DEF Tick, Ghosts
  <2>3. CASE UNCHANGED vars
    BY <1>0, <2>3 DEF vars
  <2>4. QED
    BY <1>5, <2>1, <2>2, <2>3 DEF Stays
<1>6. Kept
  BY <1>1, <1>2, <1>3, <1>4, <1>5, NextCases DEF Proceed
<1>7. QED
  BY <1>6, PoolAndLocks DEF TypeOK, InPool, OneLock

-----------------------------------------------------------------------------
\* What the answers given so far are owed.

\* Two calls on one address that are under way have met.
AllMet == \A c, d \in Calls :
  c # d /\ Busy(c) /\ Busy(d) /\ call[c].ip = call[d].ip => call[c].met

Promised == \A a \in Addresses : promise[a] >= now => block[a] >= promise[a]

\* A committed block still stands when nobody else touched the address; while a
\* call withdraws a block nothing is promised; one that has deleted it alone
\* finds it gone.
Owed == \A c \in Calls :
  /\ call[c].pc = "committed" /\ ~call[c].met
       => block[call[c].ip] = call[c].until \/ call[c].until < now
  /\ call[c].pc \in {"allow", "check", "unblock", "deleting", "deleted"}
       => promise[call[c].ip] = 0
  /\ call[c].pc = "deleted" /\ ~call[c].met => ~IsIPBlocked(call[c].ip)

\* No block is under way on an address said to be clear.
Clear == \A a \in cleared :
  /\ ~IsIPBlocked(a)
  /\ \A c \in Calls : call[c].ip = a
       => call[c].pc \notin {"waiting", "open", "upserted", "logged"}

Kept == Promised /\ Owed /\ Clear

LEMMA MetStep == TypeOK /\ AllMet /\ [Next]_vars => AllMet'
<1> SUFFICES ASSUME TypeOK, AllMet, [Next]_vars PROVE AllMet'
  OBVIOUS
<1>1. ASSUME NEW c \in Calls, Ask(c) PROVE AllMet'
  <2>1. PICK a \in Addresses, pc \in {"waiting", "unblock", "allow", "disallow"},
             until \in Nat : Begin(c, a, pc, until)
    BY <1>1, AskBegins DEF Begins
  <2>2. /\ call'[c].ip = a
        /\ \A d \in Calls \ {c} :
              /\ call'[d].pc = call[d].pc /\ call'[d].ip = call[d].ip
              /\ call[d].met => call'[d].met
              /\ Busy(d) /\ call[d].ip = a => call'[d].met /\ call'[c].met
    BY <2>1, BeginFields DEF Pcs
  <2>3. QED
    BY <2>2 DEF AllMet, Busy
<1>2. ASSUME NEW c \in Calls, Opens(c) \/ Locks(c) \/ Goes(c) PROVE AllMet'
  <2>1. /\ Busy(c) /\ call'[c].ip = call[c].ip /\ call'[c].met = call[c].met
        /\ \A d \in Calls \ {c} : Same(d)
    BY <1>2, GotoFields DEF Opens, Locks, Goes, Pcs, Busy
  <2>2. QED
    BY <2>1 DEF AllMet, Busy, Same
<1>3. ASSUME NEW c \in Calls, Ends(c) PROVE AllMet'
  BY <1>3, EndFields DEF Ends, AllMet, Busy, Same
<1>4. CASE \E c \in Calls : Proceed(c)
  BY <1>2, <1>3, <1>4, ProceedMoves
<1>5. CASE \E c \in Calls : TimeOut(c)
  BY <1>3, <1>5 DEF TimeOut, Ends
<1>6. CASE \E c \in Calls : LogFails(c)
  BY <1>2, <1>6 DEF LogFails, Goes
<1>7. CASE Stays
  BY <1>7 DEF Stays, Cleanup, Tick, vars, AllMet, Busy
<1>8. QED
  BY <1>1, <1>4, <1>5, <1>6, <1>7, NextCases

\* Asking promises nothing new, and ends a promise rather than keep it.
LEMMA AskKept ==
  ASSUME TypeOK, Kept, NEW c \in Calls, Ask(c)
  PROVE  Kept'
<1> DEFINE a == call'[c].ip
<1>1. /\ call'[c].ip \in Addresses
      /\ call'[c].pc \in {"waiting", "unblock", "allow", "disallow"}
      /\ \A d \in Calls \ {c} :
           /\ call'[d].pc = call[d].pc /\ call'[d].ip = call[d].ip
           /\ call'[d].until = call[d].until /\ (call[d].met => call'[d].met)
  BY AskBegins, BeginFields DEF Begins, Pcs
<1>2. /\ block' = block /\ now' = now
      /\ \/ promise' = promise
         \/ promise' = [promise EXCEPT ![a] = 0]
      /\ call'[c].pc \in {"unblock", "allow"} => promise' = [promise EXCEPT ![a] = 0]
      /\ cleared' \subseteq cleared
      /\ call'[c].pc = "waiting" => a \notin cleared'
  <2>1. \A d \in Durations : now + d \in Nat
    BY PoolAssumption DEF TypeOK
  <2>2. CASE BlockIP(c)
    <3>1. PICK x \in Addresses, d \in Durations : /\ Begin(c, x, "waiting", now + d)
                                                  /\ cleared' = cleared \ {x}
      BY <2>2 DEF BlockIP
    <3>2. call'[c].ip = x /\ call'[c].pc = "waiting"
      BY <2>1, <3>1, BeginFields DEF Pcs
    <3>3. QED
      BY <2>2, <3>1, <3>2 DEF BlockIP
  <2>3. ASSUME NEW pc \in {"unblock", "allow"}, Withdraw(c, pc)
        PROVE  /\ block' = block /\ now' = now /\ cleared' = cleared
               /\ promise' = [promise EXCEPT ![a] = 0] /\ call'[c].pc = pc
    <3>1. PICK x \in Addresses : /\ Begin(c, x, pc, 0)
                                 /\ promise' = [promise EXCEPT ![x] = 0]
      BY <2>3 DEF Withdraw
    <3>2. call'[c].ip = x /\ call'[c].pc = pc
      BY <3>1, BeginFields DEF Pcs
    <3>3. QED
      BY <2>3, <3>1, <3>2 DEF Withdraw
  <2>4. CASE RemoveWhitelistIP(c)
    BY <2>4, BeginFields DEF RemoveWhitelistIP, Ghosts, Pcs
  <2>5. QED
    BY <2>2, <2>3, <2>4 DEF Ask, UnblockIP, WhitelistIP
<1>3. /\ now \in 1..MaxTime /\ promise \in [Addresses -> Nat]
      /\ \A d \in Calls : call[d].ip \in Addresses
  BY DEF TypeOK, CallTypes
<1>4. \A b \in Addresses : promise'[b] = promise[b] \/ promise'[b] = 0
  BY <1>1, <1>2, <1>3
<1>5. Promised'
  BY <1>2, <1>3, <1>4 DEF Kept, Promised
<1>6. Owed'
  <2>1. ASSUME NEW d \in Calls \ {c}
        PROVE  /\ call'[d].pc = "committed" /\ ~call'[d].met
                    => block'[call'[d].ip] = call'[d].until \/ call'[d].until < now'
               /\ call'[d].pc \in {"allow", "check", "unblock", "deleting", "deleted"}
                    => promise'[call'[d].ip] = 0
               /\ call'[d].pc = "deleted" /\ ~call'[d].met => ~IsIPBlocked(call[d].ip)'
    BY <1>1, <1>2, <1>3, <1>4 DEF Kept, Owed, IsIPBlocked
  <2>2. call'[c].pc \in {"unblock", "allow"} => promise'[call'[c].ip] = 0
    BY <1>1, <1>2, <1>3
  <2>3. QED
    BY <1>1, <2>1, <2>2 DEF Owed
<1>7. Clear'
  BY <1>1, <1>2 DEF Kept, Clear, IsIPBlocked
<1>8. QED
  BY <1>5, <1>6, <1>7 DEF Kept

\* The steps that touch nothing but their own call.
Quiet(c) == \/ OpenTransaction(c) \/ UpsertBlock(c) \/ LogBlock(c) \/ LogFails(c)
            \/ Allow(c) \/ CheckBlocked(c) \/ StartDelete(c) \/ Disallow(c) \/ TimeOut(c)

LEMMA QuietKept ==
  ASSUME TypeOK, Kept, NEW c \in Calls, Quiet(c)
  PROVE  Kept'
<1>1. /\ block' = block /\ now' = now /\ promise' = promise /\ cleared' = cleared
      /\ \A d \in Calls \ {c} : Same(d)
      /\ \/ call'[c].pc = "idle"
         \/ /\ call'[c].ip = call[c].ip /\ call'[c].met = call[c].met
            /\ \/ call[c].pc \in {"waiting", "open", "upserted"}
                  /\ call'[c].pc \in {"open", "upserted", "logged"}
               \/ call[c].pc \in {"allow", "unblock", "check"}
                  /\ call'[c].pc \in {"check", "unblock", "deleting", "deleted"}
                  /\ (call'[c].pc = "deleted" => ~IsIPBlocked(call[c].ip))
  <2> USE DEF Ghosts, Pcs
  <2>1. CASE OpenTransaction(c) \/ UpsertBlock(c)
    BY <2>1, GotoFields DEF OpenTransaction, UpsertBlock
  <2>2. CASE LogBlock(c) \/ LogFails(c)
    BY <2>2, GotoFields DEF LogBlock, LogFails
  <2>3. CASE Allow(c) \/ StartDelete(c)
    BY <2>3, GotoFields DEF Allow, StartDelete
  <2>4. CASE CheckBlocked(c)
    BY <2>4, GotoFields DEF CheckBlocked
  <2>5. CASE Disallow(c) \/ TimeOut(c)
    BY <2>5, EndFields DEF Disallow, Finish, TimeOut
  <2>6. QED
    BY <2>1, <2>2, <2>3, <2>4, <2>5 DEF Quiet
<1>2. Promised'
  BY <1>1 DEF Kept, Promised
<1>3. Owed'
  BY <1>1 DEF Kept, Owed, IsIPBlocked, Same
<1>4. Clear'
  BY <1>1 DEF Kept, Clear, IsIPBlocked, Same
<1>5. QED
  BY <1>2, <1>3, <1>4 DEF Kept

LEMMA CommitKept ==
  ASSUME TypeOK, AllMet, Kept, NEW c \in Calls, CommitBlock(c)
  PROVE  Kept'
<1> DEFINE a == call[c].ip
<1>1. /\ call[c].pc = "logged" /\ call'[c].pc = "committed"
      /\ call'[c].ip = a /\ call'[c].until = call[c].until
      /\ \A d \in Calls \ {c} : Same(d)
  BY GotoFields DEF CommitBlock, Pcs
<1>2. /\ a \in Addresses /\ call[c].until \in Nat /\ now \in 1..MaxTime
      /\ block \in [Addresses -> Nat] /\ promise \in [Addresses -> Nat]
      /\ \A d \in Calls : call[d].ip \in Addresses
  BY DEF TypeOK, CallTypes
<1>3. /\ now' = now /\ cleared' = cleared
      /\ block'[a] = call[c].until
      /\ \A b \in Addresses \ {a} : block'[b] = block[b] /\ promise'[b] = promise[b]
      /\ promise'[a] <= call[c].until /\ promise'[a] \in Nat
      /\ promise[a] = 0 => promise'[a] = 0
  BY <1>2 DEF CommitBlock
<1>4. Promised'
  BY <1>2, <1>3 DEF Kept, Promised
<1>5. ASSUME NEW d \in Calls \ {c}, Busy(d), call[d].ip = a PROVE call[d].met
  BY <1>1, <1>5 DEF AllMet, Busy
<1>6. Owed'
  BY <1>1, <1>2, <1>3, <1>5 DEF Kept, Owed, IsIPBlocked, Same, Busy
<1>7. Clear'
  <2>1. a \notin cleared
    BY <1>1 DEF Kept, Clear
  <2>2. cleared \subseteq Addresses
    BY DEF TypeOK
  <2>3. QED
    BY <1>1, <1>3, <2>1, <2>2 DEF Kept, Clear, IsIPBlocked, Same
<1>8. QED
  BY <1>4, <1>6, <1>7 DEF Kept

LEMMA AnswerBlockKept ==
  ASSUME TypeOK, AllMet, Kept, NEW c \in Calls, AnswerBlock(c)
  PROVE  Kept'
<1> DEFINE a == call[c].ip
<1>1. /\ call[c].pc = "committed" /\ call'[c].pc = "idle"
      /\ \A d \in Calls \ {c} : Same(d)
  BY EndFields DEF AnswerBlock, Finish
<1>2. /\ a \in Addresses /\ call[c].until \in Nat /\ now \in 1..MaxTime
      /\ block \in [Addresses -> Nat] /\ promise \in [Addresses -> Nat]
      /\ \A d \in Calls : call[d].ip \in Addresses
  BY DEF TypeOK, CallTypes
<1>3. /\ now' = now /\ cleared' = cleared /\ block' = block
      /\ call[c].met => promise' = promise
      /\ ~call[c].met => promise' = [promise EXCEPT ![a] = call[c].until]
  BY DEF AnswerBlock
<1>4. ~call[c].met => block[a] = call[c].until \/ call[c].until < now
  BY <1>1 DEF Kept, Owed
<1>5. Promised'
  BY <1>2, <1>3, <1>4 DEF Kept, Promised
<1>6. ASSUME NEW d \in Calls \ {c}, Busy(d), call[d].ip = a PROVE call[c].met
  BY <1>1, <1>6 DEF AllMet, Busy
<1>7. \A d \in Calls \ {c} : Busy(d) => promise'[call[d].ip] = promise[call[d].ip]
  BY <1>2, <1>3, <1>6
<1>8. Owed'
  BY <1>1, <1>3, <1>7 DEF Kept, Owed, IsIPBlocked, Same, Busy
<1>9. Clear'
  BY <1>1, <1>3 DEF Kept, Clear, IsIPBlocked, Same
<1>10. QED
  BY <1>5, <1>8, <1>9 DEF Kept

LEMMA DeleteKept ==
  ASSUME TypeOK, AllMet, Kept, NEW c \in Calls, DeleteBlock(c)
  PROVE  Kept'
<1> DEFINE a == call[c].ip
<1>1. /\ call[c].pc = "deleting" /\ call'[c].pc = "deleted"
      /\ call'[c].ip = a /\ \A d \in Calls \ {c} : Same(d)
  BY GotoFields DEF DeleteBlock, Pcs
<1>2. /\ a \in Addresses /\ now \in 1..MaxTime
      /\ block \in [Addresses -> Nat] /\ promise \in [Addresses -> Nat]
      /\ \A d \in Calls : call[d].ip \in Addresses
  BY DEF TypeOK, CallTypes
<1>3. /\ now' = now /\ cleared' = cleared /\ promise' = promise
      /\ block'[a] = (IF block[a] >= now THEN 0 ELSE block[a])
      /\ \A b \in Addresses \ {a} : block'[b] = block[b]
  BY <1>2 DEF DeleteBlock, Ghosts
<1>4. promise[a] = 0
  BY <1>1 DEF Kept, Owed
<1>5. Promised'
  BY <1>2, <1>3, <1>4 DEF Kept, Promised
<1>6. ASSUME NEW d \in Calls \ {c}, Busy(d), call[d].ip = a PROVE call[d].met
  BY <1>1, <1>6 DEF AllMet, Busy
<1>7. ~IsIPBlocked(a)'
  BY <1>1, <1>2, <1>3 DEF IsIPBlocked
<1>8. Owed'
  BY <1>1, <1>2, <1>3, <1>4, <1>6, <1>7 DEF Kept, Owed, IsIPBlocked, Same, Busy
<1>9. Clear'
  <2>1. cleared \subseteq Addresses
    BY DEF TypeOK
  <2>2. \A b \in cleared : ~IsIPBlocked(b)'
    BY <1>3, <1>7, <2>1 DEF Kept, Clear, IsIPBlocked
  <2>3. QED
    BY <1>1, <1>3, <2>2 DEF Kept, Clear, Same
<1>10. QED
  BY <1>5, <1>8, <1>9 DEF Kept

LEMMA AnswerUnblockKept ==
  ASSUME TypeOK, AllMet, Kept, NEW c \in Calls, AnswerUnblock(c)
  PROVE  Kept'
<1> DEFINE a == call[c].ip
<1>1. /\ call[c].pc = "deleted" /\ call'[c].pc = "idle"
      /\ \A d \in Calls \ {c} : Same(d)
  BY EndFields DEF AnswerUnblock, Finish
<1>2. /\ now' = now /\ block' = block /\ promise' = promise
      /\ cleared' = IF call[c].met THEN cleared ELSE cleared \cup {a}
  BY DEF AnswerUnblock
<1>3. Promised'
  BY <1>2 DEF Kept, Promised
<1>4. Owed'
  BY <1>1, <1>2 DEF Kept, Owed, IsIPBlocked, Same
<1>5. ASSUME ~call[c].met
      PROVE  /\ ~IsIPBlocked(a)
             /\ \A d \in Calls : call[d].ip = a /\ d # c => call[d].pc = "idle"
  BY <1>1, <1>5 DEF Kept, Owed, AllMet, Busy
<1>6. Clear'
  BY <1>1, <1>2, <1>5 DEF Kept, Clear, IsIPBlocked, Same
<1>7. QED
  BY <1>3, <1>4, <1>6 DEF Kept

LEMMA StaysKept ==
  ASSUME TypeOK, Kept, Stays
  PROVE  Kept'
<1>1. /\ now \in 1..MaxTime /\ block \in [Addresses -> Nat]
      /\ promise \in [Addresses -> Nat] /\ cleared \subseteq Addresses
      /\ \A d \in Calls : call[d].ip \in Addresses /\ call[d].until \in Nat
  BY DEF TypeOK, CallTypes
<1>2. /\ call' = call /\ promise' = promise /\ cleared' = cleared
      /\ now' = now \/ now' = now + 1
      /\ \A a \in Addresses : block'[a] = block[a] \/ (block[a] < now /\ block'[a] = 0)
  BY <1>1 DEF Stays, Cleanup, Tick, vars, Ghosts
<1>3. \A a \in Addresses : ~IsIPBlocked(a) => ~IsIPBlocked(a)'
  BY <1>1, <1>2 DEF IsIPBlocked
<1>4. Promised'
  BY <1>1, <1>2 DEF Kept, Promised
<1>5. Owed'
  BY <1>1, <1>2, <1>3 DEF Kept, Owed
<1>6. Clear'
  BY <1>1, <1>2, <1>3 DEF Kept, Clear
<1>7. QED
  BY <1>4, <1>5, <1>6 DEF Kept

LEMMA KeptStep == TypeOK /\ AllMet /\ Kept /\ [Next]_vars => Kept'
  BY NextCases, AskKept, QuietKept, CommitKept, AnswerBlockKept, DeleteKept,
     AnswerUnblockKept, StaysKept DEF Proceed, Quiet

IInv == TypeOK /\ AllMet /\ Kept

LEMMA InitIInv == Init => IInv
<1> SUFFICES ASSUME Init PROVE IInv
  OBVIOUS
<1>1. \A c \in Calls : call[c] = Rest /\ call[c].pc = "idle"
  BY RestType DEF Init
<1>2. Holding = {} /\ Cardinality(Holding) = 0
  BY <1>1, FS_EmptySet DEF Holding
<1>3. TypeOK
  BY <1>1, <1>2, RestType, PoolAssumption DEF Init, TypeOK
<1>4. AllMet /\ Kept
  BY <1>1, PoolAssumption DEF Init, AllMet, Busy, Kept, Promised, Owed, Clear
<1>5. QED
  BY <1>3, <1>4 DEF IInv

LEMMA Inductive == Spec => []IInv
<1>1. IInv /\ [Next]_vars => IInv'
  BY TypeStep, MetStep, KeptStep DEF IInv
<1>2. QED
  BY <1>1, InitIInv, PTL DEF Spec

\* The variables keep their types, the open transactions fit the pool, and two
\* never hold one address's row.
THEOREM TypeCorrect == Spec => []TypeOK
<1>1. IInv => TypeOK
  BY DEF IInv
<1>2. QED
  BY <1>1, Inductive, PTL

\* What blockIP answered holds in every later check, for as long as the block
\* lasts and nobody asks to end it (ip-reputation.service.ts:336, 371).
THEOREM Blocks == Spec => []BlockHolds
<1>1. IInv => BlockHolds
  BY DEF IInv, TypeOK, Kept, Promised, BlockHolds, IsIPBlocked
<1>2. QED
  BY <1>1, Inductive, PTL

\* What unblockIP or whitelistIP answered holds until a block is asked for
\* (ip-reputation.service.ts:408, 470).
THEOREM Clears == Spec => []ClearingHolds
<1>1. IInv => ClearingHolds
  BY DEF IInv, Kept, Clear, ClearingHolds
<1>2. QED
  BY <1>1, Inductive, PTL

-----------------------------------------------------------------------------
\* While a connection is free the calls under way do not all wait for each
\* other: who holds a row goes on (ip-reputation.service.ts:316, 358).
THEOREM NotAllWait == Spec => []StuckNeedsFullPool
<1>1. IInv => StuckNeedsFullPool
  <2> SUFFICES ASSUME IInv, NEW c \in Calls, Busy(c), Cardinality(Holding) # Pool
               PROVE  \E d \in Calls : Busy(d) /\ CanGo(d)
    BY DEF StuckNeedsFullPool, Stuck
  <2>1. Free > 0
    BY TypeParts, HoldingFinite, PoolAssumption DEF IInv, InPool, Free
  <2>2. call[c].pc \in Pcs
    BY DEF IInv, TypeOK, CallTypes
  <2>3. CASE Locked(call[c].ip)
    <3>1. PICK d \in Calls : call[d].pc \in {"upserted", "logged"}
      BY <2>3 DEF Locked
    <3>2. QED
      BY <2>1, <3>1 DEF Busy, CanGo
  <2>4. CASE ~Locked(call[c].ip)
    BY <2>1, <2>2, <2>4 DEF CanGo, Pcs
  <2>5. QED
    BY <2>3, <2>4
<1>2. QED
  BY <1>1, Inductive, PTL

\* No call waits for what nobody has, nor, given a second connection, for
\* itself: what it waits for comes back when a transaction ends, one way or
\* another (ip-reputation.service.ts:316).
THEOREM HeldByAnother == Spec => []WaitsForHolder
<1>1. IInv => WaitsForHolder
  <2> SUFFICES ASSUME IInv, NEW c \in Calls, Busy(c), ~CanGo(c)
               PROVE  \E d \in Holding : d # c \/ Pool = 1
    BY DEF WaitsForHolder
  <2>1. CASE Locked(call[c].ip) /\ call[c].pc \in {"open", "deleting"}
    BY <2>1 DEF Locked, Holding
  <2>2. CASE ~(Free > 0)
    <3>1. Cardinality(Holding) = Pool /\ Pool \in Nat \ {0}
      BY <2>2, TypeParts, HoldingFinite, PoolAssumption DEF IInv, InPool, Free
    <3>2. Cardinality({}) = 0 /\ Cardinality({c}) = 1 /\ IsFiniteSet({c})
      BY FS_EmptySet, FS_Singleton
    <3>3. Holding \subseteq {c} => Cardinality(Holding) <= 1
      BY <3>2, FS_Subset
    <3>4. CASE Pool = 1
      BY <3>1, <3>2, <3>4
    <3>5. CASE Pool # 1
      BY <3>1, <3>3, <3>5
    <3>6. QED
      BY <3>4, <3>5
  <2>3. QED
    BY <2>1, <2>2 DEF CanGo
<1>2. QED
  BY <1>1, Inductive, PTL
=============================================================================
