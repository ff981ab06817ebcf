--------------------------- MODULE BreakerPolicy ---------------------------
(***************************************************************************)
(* What a circuit breaker promises its users, without its states, its      *)
(* clock or its concurrent callers: whether calls are let through depends  *)
(* only on how many results in a row were failures.  The breaker of        *)
(* internal/breaker is shown to implement this in module Breaker.          *)
(***************************************************************************)
EXTENDS Naturals

CONSTANTS Limit,      \* consecutive failures that stop the traffic
          StreakCap   \* the streak is counted up to this bound

VARIABLES streak,     \* failures since the last success
          admitting   \* whether a new call is let through

policyVars == <<streak, admitting>>

Init == streak = 0 /\ admitting = TRUE

\* One success, even a late one, clears the streak and lets calls through.
Succeed == streak' = 0 /\ admitting' = TRUE

\* A failure stops the traffic exactly when the streak is at the limit.
Fail ==
  /\ streak' = IF streak < StreakCap THEN streak + 1 ELSE streak
  /\ admitting' = (streak' < Limit)

\* After a pause a stopped breaker lets calls through again, on trial: the
\* streak stays, so the next failure stops the traffic at once.
Retry ==
  /\ ~admitting
  /\ admitting' = TRUE
  /\ UNCHANGED streak

Next == Succeed \/ Fail \/ Retry

Spec == Init /\ [][Next]_policyVars
=============================================================================
