--------------------------- MODULE BreakerProofs ---------------------------
(***************************************************************************)
(* What holds of the breaker for every set of callers, every threshold and  *)
(* every cooldown.                                                          *)
(***************************************************************************)
EXTENDS Breaker, TLAPS

\* The defaults of New make the threshold and the cooldown positive.
LEMMA Defaults ==
  /\ Threshold \in Nat \ {0}
  /\ Cooldown \in Nat \ {0}
  /\ FailureCap \in Nat
  /\ FailureCap >= Threshold
  BY BreakerAssumption DEF Threshold, Cooldown

\* Every reachable state of the breaker is well typed: the counters stay in
\* their ranges whatever the callers do.
THEOREM TypeCorrect == Spec => []TypeOK
<1> USE Defaults DEF TypeOK, State
<1>1. Init => TypeOK
  BY DEF Init
<1>2. TypeOK /\ [Next]_vars => TypeOK'
  <2> SUFFICES ASSUME TypeOK, [Next]_vars
               PROVE  TypeOK'
    OBVIOUS
  <2>1. CASE Tick
    BY <2>1 DEF Tick
  <2>2. ASSUME NEW c \in Callers, Attempt(c)
        PROVE  TypeOK'
    BY <2>2 DEF Attempt, Admit, Probe, Reject, vars
  <2>3. ASSUME NEW c \in Callers, Failure(c)
        PROVE  TypeOK'
    <3>1. failures' \in 0..FailureCap
      BY <2>3 DEF Failure, OneMore
    <3>2. pc' \in [Callers -> {"idle", "calling"}]
      BY <2>3 DEF Failure
    <3>3. state' \in {"Closed", "Open", "HalfOpen"} /\ age' \in 0..(Cooldown + 1)
      BY <2>3 DEF Failure
    <3> QED
      BY <3>1, <3>2, <3>3
  <2>4. ASSUME NEW c \in Callers, Success(c)
        PROVE  TypeOK'
    BY <2>4 DEF Success
  <2>5. CASE UNCHANGED vars
    BY <2>5 DEF vars
  <2> QED
    BY <2>1, <2>2, <2>3, <2>4, <2>5 DEF Next, Finish
<1> QED
  BY <1>1, <1>2, PTL DEF Spec

-----------------------------------------------------------------------------
\* The breaker is closed exactly while it has seen fewer failures in a row
\* than the threshold: the state is a function of the count and the clock.
THEOREM ClosedIffBelow == Spec => []ClosedBelowThreshold
<1> USE Defaults DEF ClosedBelowThreshold
<1>1. Init => ClosedBelowThreshold
  BY DEF Init
<1>2. TypeOK /\ ClosedBelowThreshold /\ [Next]_vars => ClosedBelowThreshold'
  <2> SUFFICES ASSUME TypeOK, ClosedBelowThreshold, [Next]_vars
               PROVE  ClosedBelowThreshold'
    OBVIOUS
  <2> USE DEF TypeOK, State
  <2>1. CASE Tick
    BY <2>1 DEF Tick
  <2>2. ASSUME NEW c \in Callers, Attempt(c)
        PROVE  ClosedBelowThreshold'
    BY <2>2 DEF Attempt, Admit, Probe, Reject, vars
  <2>3. ASSUME NEW c \in Callers, Failure(c)
        PROVE  ClosedBelowThreshold'
    \* The count only grows, and the breaker trips if it is at the threshold.
    <3>1. failures' >= failures /\ failures' \in Nat
      BY <2>3 DEF Failure, OneMore
    <3>2. CASE failures' >= Threshold
      BY <2>3, <3>1, <3>2 DEF Failure
    <3>3. CASE failures' < Threshold
      \* Then the count was below too, so the breaker was not half-open.
      BY <2>3, <3>1, <3>3 DEF Failure
    <3> QED
      BY <3>1, <3>2, <3>3
  <2>4. ASSUME NEW c \in Callers, Success(c)
        PROVE  ClosedBelowThreshold'
    BY <2>4 DEF Success
  <2>5. CASE UNCHANGED vars
    BY <2>5 DEF vars
  <2> QED
    BY <2>1, <2>2, <2>3, <2>4, <2>5 DEF Next, Finish
<1> QED
  BY <1>1, <1>2, TypeCorrect, PTL DEF Spec

-----------------------------------------------------------------------------
\* A half-open breaker has a call in flight that will settle it.
THEOREM ProbeInFlight == Spec => []HalfOpenHasProbe
<1> USE DEF HalfOpenHasProbe
<1>1. Init => HalfOpenHasProbe
  BY DEF Init
<1>2. TypeOK /\ ClosedBelowThreshold /\ HalfOpenHasProbe /\ [Next]_vars
        => HalfOpenHasProbe'
  <2> SUFFICES ASSUME TypeOK, HalfOpenHasProbe, [Next]_vars, state' = "HalfOpen"
               PROVE  \E d \in Callers : pc'[d] = "calling"
    OBVIOUS
  <2> USE DEF TypeOK, State
  <2>1. CASE Tick
    BY <2>1 DEF Tick
  <2>2. ASSUME NEW c \in Callers, Attempt(c)
        PROVE  \E d \in Callers : pc'[d] = "calling"
    BY <2>2 DEF Attempt, Admit, Probe, Reject, vars
  <2>3. ASSUME NEW c \in Callers, Finish(c)
        PROVE  FALSE
    \* A result always leaves HalfOpen: Open after a failure, else Closed.
    BY <2>3 DEF Finish, Failure, Success
  <2>4. CASE UNCHANGED vars
    BY <2>4 DEF vars
  <2> QED
    BY <2>1, <2>2, <2>3, <2>4 DEF Next
<1> QED
  BY <1>1, <1>2, TypeCorrect, ClosedIffBelow, PTL DEF Spec

-----------------------------------------------------------------------------
\* The breaker implements the policy that looks only at the number of failures
\* in a row: neither the states nor the order of late results show through.
THEOREM PolicyImplemented == Spec => ImplementsPolicy
<1> USE Defaults
<1>1. Init => Policy!Init
  BY DEF Init, Policy!Init
<1>2. TypeOK /\ ClosedBelowThreshold /\ ClosedBelowThreshold' /\ [Next]_vars
        => [Policy!Next]_(Policy!policyVars)
  <2> SUFFICES ASSUME TypeOK, ClosedBelowThreshold, ClosedBelowThreshold',
                      [Next]_vars
               PROVE  [Policy!Next]_(Policy!policyVars)
    OBVIOUS
  <2> USE DEF TypeOK, State, ClosedBelowThreshold, Policy!policyVars
  <2>1. CASE Tick
    BY <2>1 DEF Tick
  <2>2. ASSUME NEW c \in Callers, Admit(c) \/ Reject(c)
        PROVE  UNCHANGED Policy!policyVars
    BY <2>2 DEF Admit, Reject, vars
  <2>3. ASSUME NEW c \in Callers, Probe(c)
        PROVE  Policy!Retry
    BY <2>3 DEF Probe, Policy!Retry
  <2>4. ASSUME NEW c \in Callers, Failure(c)
        PROVE  Policy!Fail
    <3>1. failures' = IF failures < FailureCap THEN failures + 1 ELSE failures
      BY <2>4 DEF Failure, OneMore
    <3>2. (state' # "Open") = (failures' < Threshold)
      BY <2>4, <3>1 DEF Failure
    <3> QED
      BY <3>1, <3>2 DEF Policy!Fail
  <2>5. ASSUME NEW c \in Callers, Success(c)
        PROVE  Policy!Succeed
    BY <2>5 DEF Success, Policy!Succeed
  <2>6. CASE UNCHANGED vars
    BY <2>6 DEF vars
  <2> QED
    BY <2>1, <2>2, <2>3, <2>4, <2>5, <2>6 DEF Next, Attempt, Finish, Policy!Next
<1> QED
  BY <1>1, <1>2, TypeCorrect, ClosedIffBelow, PTL
     DEF Spec, ImplementsPolicy, Policy!Spec
=============================================================================
