------------------------------ MODULE Breaker ------------------------------
(***************************************************************************)
(* The circuit breaker of labs/3-2/internal/breaker/breaker.go.  Breaker.Do *)
(* takes the lock twice, before and after the call it wraps, and the call   *)
(* runs unlocked: each locked part is one action here, so that calls begun  *)
(* in one state of the breaker return in another.                           *)
(*                                                                         *)
(* Time is counted in ticks since openedAt and saturates one tick past the  *)
(* cooldown, where the code no longer tells ages apart.  The failure count  *)
(* saturates at FailureCap, which is at least the threshold: the code only  *)
(* compares the count with the threshold.                                   *)
(***************************************************************************)
EXTENDS Integers

CONSTANTS Callers,           \* goroutines that use the breaker
          FailureThreshold,  \* first argument of New
          CooldownTicks,     \* second argument of New
          FailureCap         \* bound of the failure count

\* New replaces non-positive arguments by 5 failures and 2 s (2 ticks).
Threshold == IF FailureThreshold <= 0 THEN 5 ELSE FailureThreshold
Cooldown == IF CooldownTicks <= 0 THEN 2 ELSE CooldownTicks

ASSUME BreakerAssumption ==
  /\ FailureThreshold \in Int
  /\ CooldownTicks \in Int
  /\ FailureCap \in Nat
  /\ FailureCap >= Threshold

VARIABLES state,     \* Closed, Open or HalfOpen
          failures,  \* failures since the last success
          age,       \* time.Since(openedAt), in ticks
          pc         \* where each caller is in Do

vars == <<state, failures, age, pc>>

State == {"Closed", "Open", "HalfOpen"}

\* b.failures++, saturating.
OneMore(n) == IF n < FailureCap THEN n + 1 ELSE n

Init ==
  /\ state = "Closed"
  /\ failures = 0
  /\ age = Cooldown + 1      \* openedAt is the zero time
  /\ pc = [c \in Callers |-> "idle"]

-----------------------------------------------------------------------------
(* Do before fn, under the lock.                                           *)

\* Closed and HalfOpen have no case in the switch: the call goes through.
Admit(c) ==
  /\ pc[c] = "idle"
  /\ state # "Open"
  /\ pc' = [pc EXCEPT ![c] = "calling"]
  /\ UNCHANGED <<state, failures, age>>

\* Open for longer than the cooldown: this call is the probe.
Probe(c) ==
  /\ pc[c] = "idle"
  /\ state = "Open"
  /\ age > Cooldown
  /\ state' = "HalfOpen"
  /\ pc' = [pc EXCEPT ![c] = "calling"]
  /\ UNCHANGED <<failures, age>>

\* Slip: a rejected caller refreshes openedAt.
RejectRefreshing(c) ==
  /\ pc[c] = "idle"
  /\ state = "Open"
  /\ age <= Cooldown
  /\ age' = 0
  /\ UNCHANGED <<state, failures, pc>>

\* Open: ErrOpen, and nothing changes.
Reject(c) ==
  /\ pc[c] = "idle"
  /\ state = "Open"
  /\ age <= Cooldown
  /\ UNCHANGED vars

(* Do after fn, under the lock.                                            *)

\* Slip: the threshold is compared with > instead of >=.
FailureOffByOne(c) ==
  /\ pc[c] = "calling"
  /\ pc' = [pc EXCEPT ![c] = "idle"]
  /\ failures' = OneMore(failures)
  /\ IF state = "HalfOpen" \/ failures' > Threshold
       THEN state' = "Open" /\ age' = 0
       ELSE UNCHANGED <<state, age>>

Failure(c) ==
  /\ pc[c] = "calling"
  /\ pc' = [pc EXCEPT ![c] = "idle"]
  /\ failures' = OneMore(failures)
  /\ IF state = "HalfOpen" \/ failures' >= Threshold
       THEN state' = "Open" /\ age' = 0
       ELSE UNCHANGED <<state, age>>

\* Slip: a success takes one failure off the count instead of clearing it.
SuccessDecrementing(c) ==
  /\ pc[c] = "calling"
  /\ pc' = [pc EXCEPT ![c] = "idle"]
  /\ failures' = failures - 1
  /\ state' = "Closed"
  /\ UNCHANGED age

\* Slip: a success clears the count and forgets to close the breaker.
SuccessNotClosing(c) ==
  /\ pc[c] = "calling"
  /\ pc' = [pc EXCEPT ![c] = "idle"]
  /\ failures' = 0
  /\ UNCHANGED <<state, age>>

Success(c) ==
  /\ pc[c] = "calling"
  /\ pc' = [pc EXCEPT ![c] = "idle"]
  /\ failures' = 0
  /\ state' = "Closed"
  /\ UNCHANGED age

Tick ==
  /\ age <= Cooldown
  /\ age' = age + 1
  /\ UNCHANGED <<state, failures, pc>>

Attempt(c) == Admit(c) \/ Probe(c) \/ Reject(c)
Finish(c) == Failure(c) \/ Success(c)

Next == Tick \/ \E c \in Callers : Attempt(c) \/ Finish(c)

Spec == Init /\ [][Next]_vars

\* The clock advances, fn returns (the gateway's HTTP client has a timeout)
\* and traffic goes on: the callers keep trying.
Fairness ==
  /\ WF_vars(Tick)
  /\ \A c \in Callers : WF_vars(Attempt(c)) /\ WF_vars(Finish(c))

FairSpec == Spec /\ Fairness

-----------------------------------------------------------------------------
\* Types of the state.
TypeOK ==
  /\ state \in State
  /\ failures \in 0..FailureCap
  /\ age \in 0..(Cooldown + 1)
  /\ pc \in [Callers -> {"idle", "calling"}]

\* The breaker is closed exactly while its failure count is below the
\* threshold, whatever the order in which concurrent calls return.  Hence a
\* failed probe would trip it by its count alone (breaker.go:73).
ClosedBelowThreshold == (state = "Closed") <=> (failures < Threshold)

\* A half-open breaker always has a call in flight, whose result takes it out
\* of that state: it is never left waiting for a probe that already returned.
HalfOpenHasProbe == state = "HalfOpen" => \E c \in Callers : pc[c] = "calling"

\* An open breaker that is still being tried leaves Open: late failures push
\* openedAt forward (breaker.go:75), but only as often as calls were in flight.
RecoversWhenTried == state = "Open" ~> state # "Open"

\* The breaker is the policy "calls go through unless the last results were
\* Threshold failures in a row", with its pause.
Policy == INSTANCE BreakerPolicy
            WITH Limit <- Threshold, StreakCap <- FailureCap,
                 streak <- failures, admitting <- (state # "Open")
ImplementsPolicy == Policy!Spec

\* The comment of New says that the breaker "stays open for `cooldown` before
\* allowing a probe": it leaves Open only when the cooldown has passed.
StaysOpenForCooldown ==
  [][state = "Open" /\ state' # "Open" => age > Cooldown]_vars
=============================================================================
