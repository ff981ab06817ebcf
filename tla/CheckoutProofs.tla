---------------------------- MODULE CheckoutProofs ----------------------------
(***************************************************************************)
(* What holds of the load generator, checkout and payments for any number  *)
(* of requests and any length of the task list.                            *)
(***************************************************************************)
EXTENDS Checkout, FiniteSetTheorems, TLAPS

-----------------------------------------------------------------------------
(* The runs of the fault injection *)

\* A POST is under way only in its phase, and each is applied at most once: one
\* that may still come was neither answered nor applied.
PostInv ==
    /\ post # "no" => phase \in {"set", "reset"}
    /\ post = "sent" => phase \notin applied
    /\ post = "applied" => phase \in applied
    /\ acked \subseteq applied /\ stray \cap applied = {}
    /\ phase = "set" => stray = {} /\ (post # "applied" => applied = {})
    /\ phase \in {"set", "drive", "gather"} => "reset" \notin stray \union applied
    /\ phase = "reset" => /\ "reset" \notin stray
                          /\ post # "applied" => "reset" \notin applied

\* Once the baseline took effect it stays, unless the fault comes after it.
BaselineInv ==
    /\ "reset" \in applied => (faulty <=> overtaken /\ profile)
    /\ overtaken => "reset" \in applied /\ "set" \notin acked
    /\ lateError => overtaken /\ profile

\* Whoever waits is in the list of tasks, until all of them have been counted or
\* the run has been interrupted.
TaskInv ==
    /\ \A r \in Requests : client[r] = "waiting" => r \in tasks
    /\ phase = "set" => \A r \in Requests : client[r] = "unsent"
    /\ ~interrupted => \A r \in Requests : client[r] # "cancelled"
    /\ ~interrupted /\ phase \in {"reset", "done"}
         => \A r \in Requests : client[r] # "waiting"

Inv == PostInv /\ BaselineInv /\ TaskInv /\ SuccessIsCharged

-----------------------------------------------------------------------------

\* Every part of the three programs is in one of its states.  The gauge and the
\* counters are left to MetricsMatchRequests, which says why the gauge is not
\* lowered below zero.
StateOK ==
    /\ profile \in BOOLEAN /\ phase \in {"set", "drive", "gather", "reset", "done"}
    /\ post \in {"no", "sent", "applied"} /\ acked \subseteq {"set", "reset"}
    /\ tasks \subseteq Requests
    /\ client \in [Requests -> {"unsent", "waiting", "cancelled"} \union Classes]
    /\ interrupted \in BOOLEAN
    /\ server \in [Requests -> {"none", "inside"} \union Classes]
    /\ faulty \in BOOLEAN /\ stray \subseteq {"set", "reset"}
    /\ applied \subseteq {"set", "reset"}
    /\ overtaken \in BOOLEAN /\ lateError \in BOOLEAN
    /\ charge \in [Requests -> {"none", "sleeping", "ok", "error"}]

LEMMA StateStep == StateOK /\ PostInv /\ [Next]_vars => StateOK'
<1> SUFFICES ASSUME StateOK, PostInv, [Next]_vars PROVE StateOK'
  OBVIOUS
<1>1. CASE ApplyInjection \/ AdminInject \/ AdminInjectLate
  <2>1. CASE PostInjection
    BY <2>1 DEF PostInjection, checkout, payments, stub, StateOK, Classes
  <2>2. CASE AdminInject
    <3>1. phase \in {"set", "reset"}
      BY <2>2 DEF AdminInject, PostInv
    <3>2. /\ faulty' \in BOOLEAN /\ overtaken' \in BOOLEAN
          /\ applied' \subseteq {"set", "reset"}
      BY <2>2, <3>1 DEF AdminInject, TakesEffect, Payload, StateOK
    <3> QED BY <2>2, <3>2 DEF AdminInject, checkout, StateOK
  <2>3. CASE Acknowledged
    <3>1. phase' \in {"drive", "done"}
      BY <2>3 DEF Acknowledged, NextPhase
    <3>2. acked' \subseteq {"set", "reset"}
      BY <2>3 DEF Acknowledged, PostInv, StateOK
    <3> QED BY <2>3, <3>1, <3>2 DEF Acknowledged, checkout, payments, stub, StateOK
  <2>4. CASE NotAcknowledged
    <3>1. stray' \subseteq {"set", "reset"}
      BY <2>4 DEF NotAcknowledged, GiveUpPost, PostInv, StateOK
    <3> QED BY <2>4, <3>1
            DEF NotAcknowledged, GiveUpPost, checkout, stub, NextPhase, StateOK
  <2>5. CASE AdminInjectLate
    <3>1. PICK p \in stray : TakesEffect(p) /\ stray' = stray \ {p}
      BY <2>5 DEF AdminInjectLate
    <3>2. /\ faulty' \in BOOLEAN /\ overtaken' \in BOOLEAN
          /\ applied' \subseteq {"set", "reset"} /\ stray' \subseteq {"set", "reset"}
      BY <3>1 DEF TakesEffect, Payload, StateOK
    <3> QED BY <2>5, <3>2 DEF AdminInjectLate, checkout, generator, StateOK
  <2> QED BY <1>1, <2>1, <2>2, <2>3, <2>4, <2>5 DEF ApplyInjection
<1>2. CASE Deadline \/ Gather
  <2>1. tasks' \subseteq Requests
    BY <1>2 DEF Deadline, Gather, Reap, StateOK
  <2> QED BY <1>2, <2>1 DEF Deadline, Gather, checkout, payments, stub, StateOK, Classes
<1>3. CASE Interrupt \/ Killed \/ CancelLeft
  <2>1. \A rs : Cancel(rs)
          => client' \in [Requests -> {"unsent", "waiting", "cancelled"} \union Classes]
    BY DEF Cancel, StateOK
  <2>2. CASE Interrupt
    BY <2>1, <2>2 DEF Interrupt, checkout, payments, stub, StateOK
  <2>3. CASE Killed
    <3>1. stray' \subseteq {"set", "reset"}
      BY <2>3 DEF Killed, GiveUpPost, PostInv, StateOK
    <3> QED BY <2>1, <2>3, <3>1 DEF Killed, GiveUpPost, checkout, stub, StateOK
  <2>4. CASE CancelLeft
    BY <2>1, <2>4 DEF CancelLeft, checkout, payments, stub, StateOK
  <2> QED BY <1>3, <2>2, <2>3, <2>4
<1>4. ASSUME NEW r \in Requests, Fire(r) PROVE StateOK'
  <2>1. tasks' \subseteq Requests
    BY <1>4 DEF Fire, Reap, StateOK, Classes
  <2> QED BY <1>4, <2>1 DEF Fire, checkout, payments, stub, StateOK, Classes
<1>5. ASSUME NEW r \in Requests, FireOne(r) PROVE StateOK'
  BY <1>5 DEF FireOne, Receive, ClientFails, checkout, payments, stub, StateOK, Classes
<1>6. ASSUME NEW r \in Requests, Enter(r) PROVE StateOK'
  BY <1>6 DEF Enter, generator, payments, stub, StateOK, Classes
<1>7. ASSUME NEW r \in Requests, Handler(r) PROVE StateOK'
  BY <1>7 DEF Handler, Answers, Fails, Leave, generator, payments, stub, StateOK, Classes
<1>8. ASSUME NEW r \in Requests, ChargeBegins(r) PROVE StateOK'
  BY <1>8 DEF ChargeBegins, generator, checkout, stub, StateOK, Classes
<1>9. ASSUME NEW r \in Requests, NEW o \in {"ok", "error"}, ChargeEnds(r, o) PROVE StateOK'
  BY <1>9 DEF ChargeEnds, generator, checkout, stub, StateOK, Classes
<1>10. CASE UNCHANGED vars
  BY <1>10 DEF vars, generator, checkout, payments, stub, StateOK, Classes
<1> QED BY <1>1, <1>2, <1>3, <1>4, <1>5, <1>6, <1>7, <1>8, <1>9, <1>10 DEF Next, Ended

\* The invariants of the fault injection are inductive: only the POSTs of the
\* generator, its interruptions and the end of a charge touch them.
LEMMA FaultStep ==
    StateOK /\ PostInv /\ BaselineInv /\ [Next]_vars => (PostInv /\ BaselineInv)'
<1> SUFFICES ASSUME StateOK, PostInv, BaselineInv, [Next]_vars
             PROVE  PostInv' /\ BaselineInv'
  OBVIOUS
<1>1. CASE PostInjection
  BY <1>1 DEF PostInjection, checkout, payments, stub, PostInv, BaselineInv
<1>2. CASE AdminInject
  <2>1. phase \in {"set", "reset"} /\ phase \notin applied
    BY <1>2 DEF AdminInject, PostInv
  <2>2. CASE phase = "set"
    BY <1>2, <2>2 DEF AdminInject, TakesEffect, Payload, PostInv, BaselineInv
  <2>3. CASE phase = "reset"
    BY <1>2, <2>1, <2>3 DEF AdminInject, TakesEffect, Payload, PostInv, BaselineInv
  <2> QED BY <2>1, <2>2, <2>3
<1>3. CASE Acknowledged
  <2>1. CASE phase = "set"
    BY <1>3, <2>1 DEF Acknowledged, payments, stub, NextPhase, PostInv, BaselineInv
  <2>2. CASE phase = "reset"
    BY <1>3, <2>2 DEF Acknowledged, payments, stub, NextPhase, PostInv, BaselineInv
  <2> QED BY <1>3, <2>1, <2>2 DEF Acknowledged, PostInv
<1>4. CASE NotAcknowledged
  <2>1. CASE phase = "set"
    BY <1>4, <2>1 DEF NotAcknowledged, GiveUpPost, stub, NextPhase, PostInv, BaselineInv
  <2>2. CASE phase = "reset"
    BY <1>4, <2>2 DEF NotAcknowledged, GiveUpPost, stub, NextPhase, PostInv, BaselineInv
  <2> QED BY <1>4, <2>1, <2>2 DEF NotAcknowledged, PostInv
<1>5. CASE AdminInjectLate
  <2>1. PICK p \in stray : TakesEffect(p) /\ stray' = stray \ {p}
    BY <1>5 DEF AdminInjectLate
  <2>2. p \notin applied /\ p \notin acked /\ p \in {"set", "reset"} /\ phase # "set"
    BY DEF PostInv, StateOK
  <2>3. UNCHANGED <<phase, post, acked, profile, lateError>>
    BY <1>5 DEF AdminInjectLate, generator
  <2>4. post = "sent" => phase # p
    BY <2>2 DEF PostInv
  <2>5. PostInv'
    BY <2>1, <2>2, <2>3, <2>4 DEF TakesEffect, PostInv
  <2>6. CASE p = "set"
    BY <2>1, <2>2, <2>3, <2>5, <2>6 DEF TakesEffect, Payload, StateOK, BaselineInv
  <2>7. CASE p = "reset"
    BY <2>1, <2>2, <2>3, <2>5, <2>7 DEF TakesEffect, Payload, StateOK, BaselineInv
  <2> QED BY <2>2, <2>6, <2>7
<1>6. CASE Deadline \/ Gather \/ Interrupt
  BY <1>6 DEF Deadline, Gather, Interrupt, payments, stub, PostInv, BaselineInv
<1>7. CASE Killed
  BY <1>7 DEF Killed, GiveUpPost, stub, PostInv, BaselineInv
<1>8. ASSUME NEW r \in Requests, NEW o \in {"ok", "error"}, ChargeEnds(r, o)
      PROVE  PostInv' /\ BaselineInv'
  BY <1>8 DEF ChargeEnds, generator, stub, StateOK, PostInv, BaselineInv
<1>9. CASE UNCHANGED <<profile, phase, post, acked, stub, stray, lateError>>
  BY <1>9 DEF stub, PostInv, BaselineInv
<1>10. ASSUME NEW r \in Requests,
              Fire(r) \/ FireOne(r) \/ Enter(r) \/ Handler(r) \/ ChargeBegins(r)
       PROVE  UNCHANGED <<profile, phase, post, acked, stub, stray, lateError>>
  BY <1>10 DEF Fire, FireOne, Receive, ClientFails, Enter, Handler, Answers, Fails, Leave,
               ChargeBegins, generator, payments
<1>11. CancelLeft \/ UNCHANGED vars
         => UNCHANGED <<profile, phase, post, acked, stub, stray, lateError>>
  BY DEF CancelLeft, vars, generator, payments
<1> QED BY <1>1, <1>2, <1>3, <1>4, <1>5, <1>6, <1>7, <1>8, <1>9, <1>10, <1>11
        DEF Next, Ended, ApplyInjection

\* Nobody waits outside the list of tasks, and nobody at all after the gather of a
\* run that was not interrupted.
LEMMA TaskStep == StateOK /\ PostInv /\ TaskInv /\ [Next]_vars => TaskInv'
<1> SUFFICES ASSUME StateOK, PostInv, TaskInv, [Next]_vars PROVE TaskInv'
  OBVIOUS
<1>1. CASE PostInjection \/ Acknowledged \/ NotAcknowledged
  <2>1. /\ client' = client /\ tasks' = tasks /\ interrupted' = interrupted
        /\ (phase \in {"set", "reset"}) /\ phase' \in {phase, NextPhase}
    BY <1>1 DEF PostInjection, Acknowledged, NotAcknowledged, PostInv
  <2> QED BY <2>1 DEF TaskInv, NextPhase
<1>2. CASE Deadline
  BY <1>2 DEF Deadline, Reap, Counted, TaskInv, Classes
<1>3. CASE Gather
  <2>1. \A r \in Requests : client[r] # "waiting"
    BY <1>3 DEF Gather, Counted, TaskInv, Classes
  <2> QED BY <1>3, <2>1 DEF Gather, TaskInv
<1>4. CASE Interrupt \/ Killed \/ CancelLeft
  <2>1. \A rs : Cancel(rs) => \A r \in Requests : client'[r] = "waiting" => client[r] = "waiting"
    BY DEF Cancel
  <2>2. CASE Interrupt \/ Killed
    BY <2>1, <2>2 DEF Interrupt, Killed, TaskInv
  <2>3. CASE CancelLeft
    BY <2>1, <2>3 DEF CancelLeft, TaskInv
  <2> QED BY <1>4, <2>2, <2>3
<1>5. ASSUME NEW r \in Requests, Fire(r) PROVE TaskInv'
  <2>1. \A t \in Requests : client'[t] = "waiting" => t \in tasks'
    BY <1>5 DEF Fire, Reap, Counted, StateOK, TaskInv, Classes
  <2> QED BY <1>5, <2>1 DEF Fire, StateOK, TaskInv
<1>6. ASSUME NEW r \in Requests, FireOne(r) PROVE TaskInv'
  BY <1>6 DEF FireOne, Receive, ClientFails, StateOK, TaskInv, Classes
<1>7. CASE UNCHANGED <<phase, tasks, client, interrupted>>
  BY <1>7 DEF TaskInv
<1>8. ASSUME NEW r \in Requests, Enter(r) \/ Handler(r) \/ ChargeBegins(r)
      PROVE  UNCHANGED <<phase, tasks, client, interrupted>>
  BY <1>8 DEF Enter, Handler, Answers, Fails, Leave, ChargeBegins, generator
<1>9. ASSUME NEW r \in Requests, NEW o \in {"ok", "error"}, ChargeEnds(r, o)
      PROVE  UNCHANGED <<phase, tasks, client, interrupted>>
  BY <1>9 DEF ChargeEnds, generator
<1>10. AdminInject \/ AdminInjectLate \/ UNCHANGED vars
         => UNCHANGED <<phase, tasks, client, interrupted>>
  BY DEF AdminInject, AdminInjectLate, vars, generator
<1> QED BY <1>1, <1>2, <1>3, <1>4, <1>5, <1>6, <1>7, <1>8, <1>9, <1>10
        DEF Next, Ended, ApplyInjection

\* Verdicts are passed on upwards and never taken back.
LEMMA VerdictStep == StateOK /\ SuccessIsCharged /\ [Next]_vars => SuccessIsCharged'
<1> SUFFICES ASSUME StateOK, SuccessIsCharged, [Next]_vars PROVE SuccessIsCharged'
  OBVIOUS
<1>1. ASSUME NEW r \in Requests, Fire(r) \/ FireOne(r) PROVE SuccessIsCharged'
  BY <1>1 DEF Fire, FireOne, Receive, ClientFails, checkout, payments, StateOK,
              SuccessIsCharged, Classes
<1>2. ASSUME NEW r \in Requests, Enter(r) PROVE SuccessIsCharged'
  BY <1>2 DEF Enter, generator, payments, StateOK, SuccessIsCharged, Classes
<1>3. ASSUME NEW r \in Requests, Handler(r) PROVE SuccessIsCharged'
  BY <1>3 DEF Handler, Answers, Fails, Leave, generator, payments, StateOK,
              SuccessIsCharged, Classes
<1>4. ASSUME NEW r \in Requests, ChargeBegins(r) PROVE SuccessIsCharged'
  BY <1>4 DEF ChargeBegins, generator, checkout, StateOK, SuccessIsCharged
<1>5. ASSUME NEW r \in Requests, NEW o \in {"ok", "error"}, ChargeEnds(r, o)
      PROVE  SuccessIsCharged'
  BY <1>5 DEF ChargeEnds, generator, checkout, StateOK, SuccessIsCharged
<1>6. CASE UNCHANGED <<client, server, charge>>
  BY <1>6 DEF SuccessIsCharged
<1>7. ApplyInjection \/ AdminInject \/ AdminInjectLate \/ Deadline \/ Gather \/ UNCHANGED vars
        => UNCHANGED <<client, server, charge>>
  BY DEF ApplyInjection, PostInjection, Acknowledged, NotAcknowledged, GiveUpPost,
         AdminInject, AdminInjectLate, Deadline, Gather, vars, generator, checkout, payments
<1>8. CASE Interrupt \/ Killed \/ CancelLeft
  <2>1. UNCHANGED <<server, charge>>
    BY <1>8 DEF Interrupt, Killed, GiveUpPost, CancelLeft, checkout, payments
  <2>2. \A r \in Requests : client'[r] = "2xx" => client[r] = "2xx"
    BY <1>8 DEF Interrupt, Killed, CancelLeft, Cancel
  <2> QED BY <2>1, <2>2 DEF SuccessIsCharged
<1> QED BY <1>1, <1>2, <1>3, <1>4, <1>5, <1>6, <1>7, <1>8 DEF Next, Ended

LEMMA InitOK == Init => StateOK /\ Inv
BY DEF Init, StateOK, Classes, Inv, PostInv, BaselineInv, TaskInv, SuccessIsCharged

LEMMA Invariant == Spec => [](StateOK /\ Inv)
<1>1. StateOK /\ Inv /\ [Next]_vars => Inv'
  BY FaultStep, TaskStep, VerdictStep DEF Inv
<1>2. StateOK /\ Inv /\ [Next]_vars => StateOK'
  BY StateStep DEF Inv
<1> QED BY <1>1, <1>2, InitOK, PTL DEF Spec

\* A success is a success all the way down, for any number of requests.
THEOREM SuccessesAgree == Spec => []SuccessIsCharged
<1>1. Inv => SuccessIsCharged
  BY DEF Inv
<1> QED BY <1>1, Invariant, PTL

\* In a run that was not interrupted every request has been counted when the
\* baseline is posted.  In any run no charge fails once the baseline took effect,
\* unless the POST of the fault, given up by its caller, took effect after it.
THEOREM FaultIsBounded == Spec => []FaultEndsWithRun
<1>1. Inv => FaultEndsWithRun
  BY DEF Inv, TaskInv, BaselineInv, FaultEndsWithRun
<1> QED BY <1>1, Invariant, PTL

-----------------------------------------------------------------------------
(* The gauge and the counters of checkout *)

\* Counts are natural numbers.
LEMMA CountType == \A f, s : In(f, s) \in Nat
<1> TAKE f, s
<1>1. IsFiniteSet(Requests) /\ {r \in Requests : f[r] = s} \in SUBSET Requests
  BY CheckoutAssumption
<1>2. IsFiniteSet({r \in Requests : f[r] = s})
  BY <1>1, FS_Subset
<1> QED BY <1>2, FS_CardinalityType DEF In

\* The states of server; Moved says that one request went from state a to state b.
ServerStates == {"none", "inside"} \union Classes

Moved(f, g, a, b) ==
    \A s \in ServerStates : In(g, s) = IF s = b THEN In(f, s) + 1
                                      ELSE IF s = a THEN In(f, s) - 1 ELSE In(f, s)

\* One count falls, one rises.
LEMMA CountMove ==
    ASSUME NEW f, NEW g, NEW r \in Requests, NEW v,
           f \in [Requests -> ServerStates], g = [f EXCEPT ![r] = v], f[r] # v
    PROVE  Moved(f, g, f[r], v)
<1> SUFFICES ASSUME NEW s \in ServerStates
             PROVE  In(g, s) = IF s = v THEN In(f, s) + 1
                               ELSE IF s = f[r] THEN In(f, s) - 1 ELSE In(f, s)
  BY DEF Moved
<1> DEFINE Before == {t \in Requests : f[t] = s}
           After  == {t \in Requests : g[t] = s}
<1>1. IsFiniteSet(Before)
  <2>1. Before \in SUBSET Requests
    OBVIOUS
  <2> QED BY <2>1, CheckoutAssumption, FS_Subset
<1>2. CASE s = v
  <2>1. After = Before \cup {r} /\ r \notin Before
    BY <1>2
  <2>2. Cardinality(After) = Cardinality(Before) + 1
    BY <1>1, <2>1, FS_AddElement
  <2> QED BY <1>2, <2>2 DEF In
<1>3. CASE s # v /\ s = f[r]
  <2>1. After = Before \ {r} /\ r \in Before
    BY <1>3
  <2>2. Cardinality(After) = Cardinality(Before) - 1
    BY <1>1, <2>1, FS_RemoveElement
  <2> QED BY <1>3, <2>2 DEF In
<1>4. CASE s # v /\ s # f[r]
  <2>1. After = Before
    BY <1>4
  <2> QED BY <1>4, <2>1 DEF In
<1> QED BY <1>2, <1>3, <1>4

\* Only the first and the last lines of the middleware touch gauge and counters.
LEMMA GaugeStep == StateOK /\ total \in [Classes -> Nat] /\ MetricsMatchRequests /\ [Next]_vars
                     => (total \in [Classes -> Nat] /\ MetricsMatchRequests)'
<1> SUFFICES ASSUME StateOK, total \in [Classes -> Nat], MetricsMatchRequests, [Next]_vars
             PROVE  total' \in [Classes -> Nat] /\ MetricsMatchRequests'
  OBVIOUS
<1>0. server \in [Requests -> ServerStates]
  BY DEF StateOK, ServerStates
<1>1. ASSUME NEW r \in Requests, Enter(r)
      PROVE  total' \in [Classes -> Nat] /\ MetricsMatchRequests'
  <2>1. Moved(server, server', "none", "inside")
    <3>1. server[r] = "none" /\ server' = [server EXCEPT ![r] = "inside"]
      BY <1>1 DEF Enter
    <3>2. Moved(server, server', server[r], "inside")
      BY <3>1, <1>0, CountMove
    <3> QED BY <3>1, <3>2
  <2>2. inflight' = In(server', "inside")
    BY <1>1, <2>1 DEF Enter, Moved, ServerStates, MetricsMatchRequests
  <2>3. \A c \in Classes : total'[c] = In(server', c)
    BY <1>1, <2>1 DEF Enter, Moved, ServerStates, Classes, MetricsMatchRequests
  <2> QED BY <1>1, <2>2, <2>3 DEF Enter, MetricsMatchRequests
<1>2. ASSUME NEW r \in Requests, NEW class \in Classes, Leave(r, class)
      PROVE  total' \in [Classes -> Nat] /\ MetricsMatchRequests'
  <2>1. Moved(server, server', "inside", class)
    <3>1. server[r] = "inside" /\ server' = [server EXCEPT ![r] = class]
      BY <1>2 DEF Leave
    <3>2. class # "inside"
      BY DEF Classes
    <3>3. Moved(server, server', server[r], class)
      BY <3>1, <3>2, <1>0, CountMove
    <3> QED BY <3>1, <3>3
  <2>2. server[r] = "inside" /\ class # "inside"
    BY <1>2 DEF Leave, Classes
  <2>3. inflight' = In(server', "inside")
    BY <1>2, <2>1, <2>2 DEF Leave, Moved, ServerStates, MetricsMatchRequests
  <2>4. \A c \in Classes : total'[c] = In(server', c)
    BY <1>2, <2>1, <2>2 DEF Leave, Moved, ServerStates, Classes, MetricsMatchRequests
  <2>5. total' \in [Classes -> Nat]
    BY <1>2 DEF Leave
  <2> QED BY <2>3, <2>4, <2>5 DEF MetricsMatchRequests
<1>3. CASE UNCHANGED checkout
  BY <1>3 DEF checkout, MetricsMatchRequests, In
<1>4. ASSUME NEW r \in Requests, Handler(r)
      PROVE  Leave(r, "2xx") \/ Leave(r, "5xx")
  BY <1>4 DEF Handler, Answers, Fails
<1>5. ASSUME NEW r \in Requests, Fire(r) \/ FireOne(r) \/ ChargeBegins(r)
      PROVE  UNCHANGED checkout
  BY <1>5 DEF Fire, FireOne, Receive, ClientFails, ChargeBegins
<1>6. ASSUME NEW r \in Requests, NEW o \in {"ok", "error"}, ChargeEnds(r, o)
      PROVE  UNCHANGED checkout
  BY <1>6 DEF ChargeEnds
<1>7. ApplyInjection \/ AdminInject \/ AdminInjectLate \/ Deadline \/ Gather
        \/ Interrupt \/ Killed \/ CancelLeft \/ UNCHANGED vars => UNCHANGED checkout
  BY DEF ApplyInjection, PostInjection, Acknowledged, NotAcknowledged, AdminInject,
         AdminInjectLate, Deadline, Gather, Interrupt, Killed, CancelLeft, vars
<1>8. "2xx" \in Classes /\ "5xx" \in Classes
  BY DEF Classes
<1> QED BY <1>1, <1>2, <1>3, <1>4, <1>5, <1>6, <1>7, <1>8 DEF Next, Ended

LEMMA InitGauge == Init => total \in [Classes -> Nat] /\ MetricsMatchRequests
<1> SUFFICES ASSUME Init PROVE total \in [Classes -> Nat] /\ MetricsMatchRequests
  OBVIOUS
<1>1. \A s \in {"inside"} \union Classes : {r \in Requests : server[r] = s} = {}
  BY DEF Init, Classes
<1>2. \A s \in {"inside"} \union Classes : In(server, s) = 0
  BY <1>1, FS_EmptySet DEF In
<1> QED BY <1>2 DEF Init, MetricsMatchRequests

\* Gauge and counters match the requests, for any finite set of them.
THEOREM GaugeIsRight == Spec => []MetricsMatchRequests
<1>1. Init => StateOK /\ PostInv /\ total \in [Classes -> Nat] /\ MetricsMatchRequests
  BY InitOK, InitGauge DEF Inv
<1>2. StateOK /\ Inv /\ total \in [Classes -> Nat] /\ MetricsMatchRequests /\ [Next]_vars
        => (total \in [Classes -> Nat] /\ MetricsMatchRequests)'
  BY GaugeStep
<1> QED BY <1>1, <1>2, Invariant, PTL DEF Spec

\* The types, the gauge among them: it counts requests and so is never negative.
THEOREM TypeCorrect == Spec => []TypeOK
<1>1. StateOK /\ MetricsMatchRequests /\ total \in [Classes -> Nat] => TypeOK
  BY CountType DEF StateOK, MetricsMatchRequests, TypeOK
<1>2. Init => StateOK /\ PostInv /\ total \in [Classes -> Nat] /\ MetricsMatchRequests
  BY InitOK, InitGauge DEF Inv
<1>3. StateOK /\ Inv /\ total \in [Classes -> Nat] /\ MetricsMatchRequests /\ [Next]_vars
        => (total \in [Classes -> Nat] /\ MetricsMatchRequests)'
  BY GaugeStep
<1> QED BY <1>1, <1>2, <1>3, Invariant, PTL DEF Spec

=============================================================================
