--------------------------- MODULE SecurityMonitor ---------------------------
(***************************************************************************)
(* The security monitor: it counts the events of the stream per type and   *)
(* user or address over a sliding window, raises an alert when a count     *)
(* passes its threshold and posts the alert to a webhook, trying again     *)
(* twice.  Everything it knows is in the memory of one process.            *)
(***************************************************************************)
EXTENDS Naturals, FiniteSets

CONSTANTS
  Keys,        \* "type:user" and "type:address" of the types it aggregates
  Limit,       \* the threshold of a key's type
  Window,      \* windowMinutes
  MaxBuckets,  \* limitBuckets
  MaxRetries,  \* of a post
  MaxClock, MaxEvents, MaxRestarts   \* bounds

ASSUME MonitorAssumption ==
  /\ Limit \in [Keys -> Nat] /\ Window \in Nat /\ MaxBuckets \in Nat \ {0}
  /\ MaxRetries \in Nat /\ MaxClock \in Nat /\ MaxEvents \in Nat /\ MaxRestarts \in Nat

VARIABLES
  times,     \* the Map: the stamps in a key's bucket
  place,     \* its order: the event that brought the key in, 0 if it is not there
  alerts,    \* the posts under way: key and attempts made
  lost,      \* keys of alerts given up after the last attempt
  clock, events, restarts,
  since,     \* ghost: stamps of a key's events since its last alert
  forgot     \* ghost: keys with events in the window that were trimmed or lost
             \* since their last alert

monitorVars == <<times, place, alerts, lost, clock, events, restarts, since, forgot>>

\* A time in a bucket; the number of its event tells equal times apart.
Stamps == [id : 1..MaxEvents, at : 0..MaxClock]

Recent(stamps) == {s \in stamps : s.at + Window >= clock}
Present == {k \in Keys : place[k] # 0}

MonitorTypeOK ==
  /\ times \in [Keys -> SUBSET Stamps] /\ place \in [Keys -> 0..events]
  /\ \A k \in Keys : Cardinality(times[k]) <= Limit[k]
  /\ Cardinality(Present) <= MaxBuckets
  /\ alerts \subseteq [id : 1..MaxEvents, key : Keys, tries : 0..MaxRetries]
  /\ lost \subseteq Keys /\ clock \in 0..MaxClock /\ events \in 0..MaxEvents
  /\ restarts \in 0..MaxRestarts
  /\ since \in [Keys -> SUBSET Stamps] /\ forgot \subseteq Keys

-----------------------------------------------------------------------------
\* Map.set keeps the place of a key it knows.
Set(k) == [place EXCEPT ![k] = IF @ = 0 THEN events + 1 ELSE @]

\* (Mutant) one entry too many is kept.
LimitBucketsLate(order) ==
  {k \in Keys : order[k] # 0
                /\ Cardinality({q \in Keys : order[q] > order[k]}) <= MaxBuckets}

\* Of the entries over the limit the keys that came first are dropped: a key
\* stays if fewer than MaxBuckets came after it.
LimitBuckets(order) ==
  {k \in Keys : order[k] # 0
                /\ Cardinality({q \in Keys : order[q] > order[k]}) < MaxBuckets}

\* (Mutant) the times of the last alert stay in the bucket.
OverLimitKept(k, recent) == [over |-> Cardinality(recent) > Limit[k], rest |-> recent]

\* evaluateThreshold: over the limit, an alert and an empty bucket.
OverLimit(k, recent) ==
  LET over == Cardinality(recent) > Limit[k]
  IN  [over |-> over, rest |-> IF over THEN {} ELSE recent]

\* An event with an integrity hash and a key; the handler is synchronous.
HandleEvent(k) ==
  LET stamp  == [id |-> events + 1, at |-> clock]
      judged == OverLimit(k, Recent(times[k] \cup {stamp}))
      held   == [times EXCEPT ![k] = judged.rest]
      kept   == LimitBuckets(Set(k))
  IN
  /\ events < MaxEvents /\ events' = events + 1
  /\ times' = [q \in Keys |-> IF q \in kept THEN held[q] ELSE {}]
  /\ place' = [q \in Keys |-> IF q \in kept THEN Set(k)[q] ELSE 0]
  /\ alerts' = alerts \cup
       IF judged.over THEN {[id |-> events + 1, key |-> k, tries |-> 0]} ELSE {}
  /\ since' = [since EXCEPT ![k] = IF judged.over THEN {} ELSE @ \cup {stamp}]
  /\ forgot' = (IF judged.over THEN forgot \ {k} ELSE forgot)
                 \cup {q \in Keys \ kept : Recent(held[q]) # {}}
  /\ UNCHANGED <<lost, clock, restarts>>

Prune(kept) ==
  /\ times' = [k \in Keys |-> IF k \in kept THEN Recent(times[k]) ELSE {}]
  /\ place' = [k \in Keys |-> IF k \in kept THEN place[k] ELSE 0]
  /\ UNCHANGED <<alerts, lost, clock, events, restarts, since, forgot>>

\* (Mutant) an entry goes when its first time is too old.
PruneOldEntriesByFirst ==
  Prune({k \in Keys : times[k] # {} /\ Recent(times[k]) = times[k]})

\* pruneOldEntries: old times go, and the entries that are left with none.
PruneOldEntries == Prune({k \in Keys : Recent(times[k]) # {}})

-----------------------------------------------------------------------------
\* postWithRetry.  A post that was received may fail all the same.  axios is
\* given no timeout: nothing says that a post ends at all, so none is fair.
PostSucceeds(a) ==
  /\ a \in alerts /\ alerts' = alerts \ {a}
  /\ UNCHANGED <<times, place, lost, clock, events, restarts, since, forgot>>

\* (Mutant) after the last attempt the count starts again.
PostFailsAgain(a) ==
  /\ a \in alerts
  /\ alerts' = (alerts \ {a})
                 \cup {[a EXCEPT !.tries = IF @ < MaxRetries THEN @ + 1 ELSE 0]}
  /\ UNCHANGED <<times, place, lost, clock, events, restarts, since, forgot>>

PostFails(a) ==
  /\ a \in alerts
  /\ \/ /\ a.tries < MaxRetries
        /\ alerts' = (alerts \ {a}) \cup {[a EXCEPT !.tries = @ + 1]}
        /\ UNCHANGED lost
     \/ /\ a.tries = MaxRetries
        /\ alerts' = alerts \ {a} /\ lost' = lost \cup {a.key}
  /\ UNCHANGED <<times, place, clock, events, restarts, since, forgot>>

\* The process restarts with nothing in its memory.
Restart ==
  /\ restarts < MaxRestarts /\ restarts' = restarts + 1
  /\ times' = [k \in Keys |-> {}] /\ place' = [k \in Keys |-> 0] /\ alerts' = {}
  /\ forgot' = forgot \cup {k \in Keys : Recent(times[k]) # {}}
  /\ UNCHANGED <<lost, clock, events, since>>

Advance ==
  /\ clock < MaxClock /\ clock' = clock + 1
  /\ UNCHANGED <<times, place, alerts, lost, events, restarts, since, forgot>>

Post(a) == PostSucceeds(a) \/ PostFails(a)

MonitorInit ==
  /\ times = [k \in Keys |-> {}] /\ place = [k \in Keys |-> 0]
  /\ alerts = {} /\ lost = {} /\ clock = 0 /\ events = 0 /\ restarts = 0
  /\ since = [k \in Keys |-> {}] /\ forgot = {}

MonitorNext ==
  \/ \E k \in Keys : HandleEvent(k)
  \/ PruneOldEntries \/ Restart \/ Advance
  \/ \E a \in alerts : Post(a)

MonitorSpec == MonitorInit /\ [][MonitorNext]_monitorVars

-----------------------------------------------------------------------------
InWindow(k) == Cardinality(Recent(since[k]))

\* More events of a key within a window than its threshold allows have raised
\* an alert, whatever was pruned in between, unless since the key's last alert
\* some of its events were trimmed while in the window, with a key that was
\* among those that came first, or lost with the process.  Such a key is exempt
\* until its next alert.
NoMissedAlert == \A k \in Keys \ forgot : InWindow(k) <= Limit[k]

\* Every alert stands for more events than the threshold, all within the window
\* and none of them part of an earlier alert.
AlertsAreEarned ==
  [][\A k \in Keys : HandleEvent(k) /\ alerts' # alerts
       => InWindow(k) + 1 > Limit[k]]_monitorVars

UnderWay(i) == \E a \in alerts : a.id = i

\* The attempts to post an alert can only run out: every step that keeps it under
\* way and is about it counts one attempt more, of the MaxRetries + 1 there are,
\* and an alert that was delivered, given up or lost with the process is never
\* posted again.  That it settles is not promised: its post may never end.
AttemptsRunOut ==
  /\ [][\A a \in alerts, b \in alerts' :
           a.id = b.id => b = a \/ b.tries > a.tries]_monitorVars
  /\ \A i \in 1..MaxEvents :
       [](events >= i /\ ~UnderWay(i) => []~UnderWay(i))

-----------------------------------------------------------------------------
(* The invariant behind the properties; EventStreamProofs shows it inductive *)

\* A key's bucket holds what counts: every event since its last alert that is
\* in the window, unless it was forgotten, and none from before that alert.
BucketInv ==
  /\ \A k \in Keys : times[k] \subseteq since[k]
  /\ \A k \in Keys \ forgot : Recent(since[k]) \subseteq times[k]

\* Buckets and the Map are finite, and two keys never came in together.
CountInv ==
  /\ \A k \in Keys : /\ IsFiniteSet(since[k])
                     /\ \A s \in since[k] : s.id <= events /\ s.at <= clock
                     /\ place[k] = 0 => times[k] = {}
  /\ IsFiniteSet(Present)
  /\ \A k, q \in Present : place[k] = place[q] => k = q

MonitorInv == MonitorTypeOK /\ BucketInv /\ CountInv

\* An alert bears the number of the event that raised it, and it alone.
AlertInv == /\ \A a \in alerts : a.id <= events
            /\ \A a, b \in alerts : a.id = b.id => a = b
=============================================================================
