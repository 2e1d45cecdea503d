------------------------------ MODULE CachedRow ------------------------------
(***************************************************************************)
(* What a cache in front of a database row promises its readers: an answer *)
(* is the row as it is, or as it was not more than `bound` ago; an answer  *)
(* put together from several queries counts as its oldest part.  It says   *)
(* nothing of keys, time-to-live or invalidation.                          *)
(***************************************************************************)
EXTENDS Naturals

CONSTANTS
  MaxRow,   \* bound of the versions of the row
  Cap       \* ages are not told apart beyond this

VARIABLES
  row,     \* the committed version of the row
  age,     \* how long ago each version was replaced
  lag,     \* how long ago the last answer given had been replaced
  bound    \* the promise; it never changes

vars == <<row, age, lag, bound>>

Versions == 0..MaxRow

Lag(v) == IF v = row THEN 0 ELSE age[v]

Init == /\ row = 0
        /\ age = [v \in Versions |-> 0]
        /\ lag = 0
        /\ bound \in Nat

\* A writer commits a new version.
Write == /\ row < MaxRow
         /\ row' = row + 1
         /\ UNCHANGED <<age, lag, bound>>

\* A reader is answered.
Answer == /\ \E v \in 0..row : Lag(v) <= bound /\ lag' = Lag(v)
          /\ UNCHANGED <<row, age, bound>>

\* Replaced versions grow older.
Older(a) == IF a < Cap THEN a + 1 ELSE a

Tick == /\ age' = [v \in Versions |-> IF v < row THEN Older(age[v]) ELSE 0]
        /\ UNCHANGED <<row, lag, bound>>

Next == Write \/ Answer \/ Tick

Spec == Init /\ [][Next]_vars
=============================================================================
