------------------------------- MODULE Checkout -------------------------------
(***************************************************************************)
(* Lab 2-2 (labs/2-2-red-use-sli-slo-alert-quality): one run of the load   *)
(* generator against the checkout service, which charges each request at   *)
(* the payments stub.  The run switches the stub's fault injection on and  *)
(* off.  Messages between the three are lost or late, both callers have    *)
(* timeouts, and the run may be interrupted or killed.                     *)
(*                                                                         *)
(* checkout/main.py, payments/main.py and loadgen/main.py are asyncio      *)
(* programs: an action is what runs between two awaits.                    *)
(***************************************************************************)
EXTENDS Integers, FiniteSets

CONSTANTS
    Requests,   \* the requests a run has time for
    ReapAbove   \* int(rps * 5): with more tasks than this the done ones are dropped

ASSUME CheckoutAssumption == IsFiniteSet(Requests) /\ ReapAbove \in Nat

VARIABLES
    \* the load generator
    profile,    \* whether the profile injects failures
    phase,      \* run_profile: "set", "drive", "gather", "reset" or "done"
    post,       \* its POST /admin/inject: "no", "sent" or "applied"
    acked,      \* the phases whose POST was answered
    tasks,      \* the requests in the list of tasks
    client,     \* fire_one: "unsent", "waiting", "cancelled" or the class counted
    interrupted,\* history: Ctrl-C, or the process was killed
    \* the checkout service
    server,     \* red_middleware: "none", "inside" or the status class counted
    inflight,   \* inflight_requests
    total,      \* http_requests_total by status class
    \* the payments stub
    faulty,     \* fail_ratio > 0
    stray,      \* the phases whose POST was given up and is still on its way
    applied,    \* history: the phases whose POST has taken effect
    overtaken,  \* history: that of "set" took effect after that of "reset"
    charge,     \* POST /charge: "none", "sleeping", "ok" or "error"
    lateError   \* history: a charge has failed after that of "reset" took effect

generator == <<profile, phase, post, acked, tasks, client, interrupted>>
checkout  == <<server, inflight, total>>
stub      == <<faulty, applied, overtaken>>
payments  == <<stub, stray, charge, lateError>>
vars == <<generator, checkout, payments>>

\* The stub answers 200 or 500, and fire_one counts a 504 or a 599 of its own: the
\* branch of the handler for a rejected charge (4xx) is never taken.
Classes == {"2xx", "5xx"}

Init ==
    /\ profile \in BOOLEAN /\ phase = "set" /\ post = "no" /\ acked = {}
    /\ tasks = {} /\ client = [r \in Requests |-> "unsent"] /\ interrupted = FALSE
    /\ server = [r \in Requests |-> "none"]
    /\ inflight = 0 /\ total = [c \in Classes |-> 0]
    /\ faulty \in BOOLEAN /\ stray = {} /\ applied = {} /\ overtaken = FALSE
    /\ charge = [r \in Requests |-> "none"] /\ lateError = FALSE

-----------------------------------------------------------------------------
(* loadgen: apply_payments_injection, at the start and at the end of a run *)

\* What is posted in a phase: the profile's fault, or the baseline.
Payload(p) == p = "set" /\ profile

NextPhase == IF phase = "set" THEN "drive" ELSE "done"

PostInjection ==
    /\ phase \in {"set", "reset"} /\ post = "no"
    /\ post' = "sent"
    /\ UNCHANGED <<profile, phase, acked, tasks, client, interrupted, checkout,
                   payments>>

\* admin_inject in the payments stub.
TakesEffect(p) ==
    /\ faulty' = Payload(p) /\ applied' = applied \union {p}
    /\ overtaken' = (overtaken \/ (p = "set" /\ "reset" \in applied))

AdminInject ==
    /\ post = "sent"
    /\ post' = "applied" /\ TakesEffect(phase)
    /\ UNCHANGED <<profile, phase, acked, tasks, client, interrupted, checkout, stray,
                   charge, lateError>>

Acknowledged ==
    /\ post = "applied"
    /\ post' = "no" /\ acked' = acked \union {phase} /\ phase' = NextPhase
    /\ UNCHANGED <<profile, tasks, client, interrupted, checkout, payments>>

\* The caller stops waiting for its POST.  It may have been applied, may be lost,
\* or may reach the stub later.
GiveUpPost ==
    /\ post' = "no"
    /\ \/ UNCHANGED stray
       \/ post = "sent" /\ stray' = stray \union {phase}
    /\ UNCHANGED <<stub, charge, lateError>>

\* Slip: a POST that fails is repeated until it succeeds.
NotAcknowledgedRepeating ==
    /\ post \in {"sent", "applied"}
    /\ GiveUpPost
    /\ UNCHANGED <<profile, phase, acked, tasks, client, interrupted, checkout>>

\* A timeout or an error is only logged.
NotAcknowledged ==
    /\ post \in {"sent", "applied"}
    /\ GiveUpPost /\ phase' = NextPhase
    /\ UNCHANGED <<profile, acked, tasks, client, interrupted, checkout>>

AdminInjectLate ==
    \E p \in stray :
        /\ TakesEffect(p) /\ stray' = stray \ {p}
        /\ UNCHANGED <<generator, checkout, charge, lateError>>

-----------------------------------------------------------------------------
(* loadgen: the requests *)

Counted(r) == client[r] \in Classes

Reap(ts) ==
    IF Cardinality(ts) > ReapAbove THEN {t \in ts : ~Counted(t)} ELSE ts

\* After the sleep of one round of the loop the list is reaped, if it is long; the
\* next round appends a new task.
Fire(r) ==
    /\ phase = "drive" /\ client[r] = "unsent"
    /\ client' = [client EXCEPT ![r] = "waiting"]
    /\ tasks' = Reap(tasks) \union {r}
    /\ UNCHANGED <<profile, phase, post, acked, interrupted, checkout, payments>>

\* The deadline, at any time.
Deadline ==
    /\ phase = "drive"
    /\ phase' = "gather" /\ tasks' = Reap(tasks)
    /\ UNCHANGED <<profile, post, acked, client, interrupted, checkout, payments>>

\* run_profile awaits its tasks, and goes to its finally block.
Gather ==
    /\ phase = "gather" /\ \A t \in tasks : Counted(t)
    /\ phase' = "reset"
    /\ UNCHANGED <<profile, post, acked, tasks, client, interrupted, checkout,
                   payments>>

\* Those of the requests that wait are cancelled, and not counted.
Cancel(rs) ==
    client' = [r \in Requests |-> IF r \in rs /\ client[r] = "waiting" THEN "cancelled"
                                  ELSE client[r]]

\* Ctrl-C cancels run_profile, which goes to its finally block: from the sleep of
\* the loop with the tasks running on, from the gather with all of them cancelled.
Interrupt ==
    /\ phase \in {"drive", "gather"}
    /\ phase' = "reset" /\ interrupted' = TRUE
    /\ Cancel(IF phase = "gather" THEN tasks ELSE {})
    /\ UNCHANGED <<profile, post, acked, tasks, checkout, payments>>

\* Ctrl-C while a POST to the stub is awaited, a second one, or any other end of the
\* process: there is no finally block any more.
Killed ==
    /\ phase # "done"
    /\ phase' = "done" /\ interrupted' = TRUE
    /\ GiveUpPost /\ Cancel(Requests)
    /\ UNCHANGED <<profile, acked, tasks, checkout>>

\* run_profile is over: asyncio.run cancels the tasks that are left.
CancelLeft ==
    /\ phase = "done" /\ \E r \in Requests : client[r] = "waiting"
    /\ Cancel(Requests)
    /\ UNCHANGED <<profile, phase, post, acked, tasks, interrupted, checkout, payments>>

\* fire_one has the response and counts it.
Receive(r) ==
    /\ client[r] = "waiting" /\ server[r] \in Classes
    /\ client' = [client EXCEPT ![r] = server[r]]
    /\ UNCHANGED <<profile, phase, post, acked, tasks, interrupted, checkout, payments>>

\* Its timeout of 5 s is counted as a 504, another HTTPError as a 599.
ClientFails(r) ==
    /\ client[r] = "waiting"
    /\ client' = [client EXCEPT ![r] = "5xx"]
    /\ UNCHANGED <<profile, phase, post, acked, tasks, interrupted, checkout, payments>>

-----------------------------------------------------------------------------
(* checkout: red_middleware around the handler checkout *)

\* The request may arrive after the client has given up.
Enter(r) ==
    /\ client[r] # "unsent" /\ server[r] = "none"
    /\ server' = [server EXCEPT ![r] = "inside"]
    /\ inflight' = inflight + 1
    /\ UNCHANGED <<generator, total, payments>>

\* Slip: the finally block became an else block.
LeaveUncounted(r, class) ==
    /\ server[r] = "inside"
    /\ server' = [server EXCEPT ![r] = class]
    /\ inflight' = IF class = "2xx" THEN inflight - 1 ELSE inflight
    /\ total' = [total EXCEPT ![class] = @ + 1]
    /\ UNCHANGED <<generator, payments>>

\* Slip: the except block lowers the gauge, and the finally block again.
LeaveTwice(r, class) ==
    /\ server[r] = "inside"
    /\ server' = [server EXCEPT ![r] = class]
    /\ inflight' = IF class = "2xx" THEN inflight - 1 ELSE inflight - 2
    /\ total' = [total EXCEPT ![class] = @ + 1]
    /\ UNCHANGED <<generator, payments>>

\* The finally block of red_middleware, which has no await, and the response.
Leave(r, class) ==
    /\ server[r] = "inside"
    /\ server' = [server EXCEPT ![r] = class]
    /\ inflight' = inflight - 1
    /\ total' = [total EXCEPT ![class] = @ + 1]
    /\ UNCHANGED <<generator, payments>>

\* Slip: the status of the response of payments is not looked at.
AnswersAnyCharge(r) == charge[r] \in {"ok", "error"} /\ Leave(r, "2xx")

Answers(r) == charge[r] = "ok" /\ Leave(r, "2xx")

\* payments failed, or timed out (2 s), or was unreachable, or the handler raised.
Fails(r) == Leave(r, "5xx")

-----------------------------------------------------------------------------
(* payments: charge *)

\* The delay is drawn and the handler sleeps; by then checkout may have given up.
ChargeBegins(r) ==
    /\ server[r] # "none" /\ charge[r] = "none"
    /\ charge' = [charge EXCEPT ![r] = "sleeping"]
    /\ UNCHANGED <<generator, checkout, stub, stray, lateError>>

\* Slip: the ratio is the one that was set when the charge began.
ChargeEndsAsBegun(r, outcome) ==
    /\ charge[r] = "sleeping"
    /\ outcome = "error" => profile
    /\ charge' = [charge EXCEPT ![r] = outcome]
    /\ lateError' = (lateError \/ (outcome = "error" /\ "reset" \in applied))
    /\ UNCHANGED <<generator, checkout, stub, stray>>

\* fail_ratio is read after the sleep; with a ratio of 0 no draw is below it.
ChargeEnds(r, outcome) ==
    /\ charge[r] = "sleeping"
    /\ outcome = "error" => faulty
    /\ charge' = [charge EXCEPT ![r] = outcome]
    /\ lateError' = (lateError \/ (outcome = "error" /\ "reset" \in applied))
    /\ UNCHANGED <<generator, checkout, stub, stray>>

-----------------------------------------------------------------------------

ApplyInjection == PostInjection \/ Acknowledged \/ NotAcknowledged

FireOne(r) == Receive(r) \/ ClientFails(r)

Handler(r) == Answers(r) \/ Fails(r)

Ended == phase = "done" /\ UNCHANGED vars

Next ==
    \/ ApplyInjection \/ AdminInject \/ AdminInjectLate
    \/ Deadline \/ Gather \/ Interrupt \/ Killed \/ CancelLeft
    \/ \E r \in Requests :
          \/ Fire(r) \/ FireOne(r) \/ Enter(r) \/ Handler(r) \/ ChargeBegins(r)
          \/ \E o \in {"ok", "error"} : ChargeEnds(r, o)
    \/ Ended

Spec == Init /\ [][Next]_vars

\* The generator runs, its clock reaches the deadline, and both callers have
\* timeouts.  These are for each read, so an answer that trickles in without end is
\* assumed away; nothing else is assumed of the payments stub or of the network.
FairSpec ==
    /\ Spec
    /\ WF_vars(ApplyInjection) /\ WF_vars(Deadline) /\ WF_vars(Gather)
    /\ \A r \in Requests : WF_vars(FireOne(r)) /\ WF_vars(Handler(r))

-----------------------------------------------------------------------------
(* Properties *)

\* Every part of the three programs is in one of its states.
TypeOK ==
    /\ profile \in BOOLEAN /\ phase \in {"set", "drive", "gather", "reset", "done"}
    /\ post \in {"no", "sent", "applied"} /\ acked \subseteq {"set", "reset"}
    /\ tasks \subseteq Requests
    /\ client \in [Requests -> {"unsent", "waiting", "cancelled"} \union Classes]
    /\ interrupted \in BOOLEAN
    /\ server \in [Requests -> {"none", "inside"} \union Classes]
    /\ inflight \in Nat /\ total \in [Classes -> Nat]
    /\ faulty \in BOOLEAN /\ stray \subseteq {"set", "reset"}
    /\ applied \subseteq {"set", "reset"}
    /\ overtaken \in BOOLEAN /\ lateError \in BOOLEAN
    /\ charge \in [Requests -> {"none", "sleeping", "ok", "error"}]

In(f, s) == Cardinality({r \in Requests : f[r] = s})

\* The gauge of checkout is the number of requests inside the middleware, and
\* each that left is counted once under the class it was answered with, also if
\* nobody waits for the answer any more (checkout/main.py:86-112).
MetricsMatchRequests ==
    /\ inflight = In(server, "inside")
    /\ \A c \in Classes : total[c] = In(server, c)

\* A success is a success all the way down: the generator counts a 2xx only for
\* a request that checkout counts as 2xx, and that one was charged; a failed
\* charge is an error in both of their counts (checkout/main.py:148-165,
\* loadgen/main.py:131-140).
SuccessIsCharged ==
    \A r \in Requests :
        /\ client[r] = "2xx" => server[r] = "2xx"
        /\ server[r] = "2xx" => charge[r] = "ok"

\* The fault is time-bounded (loadgen/main.py:5-6).  When the baseline is posted,
\* every request of a run that was not interrupted has been counted, reaped or not
\* (181-183).  And once the baseline took effect, answered or not, in a run that
\* was interrupted or not, no charge fails any more, not even one that began while
\* the fault was on and whose caller gave up long ago (payments/main.py:135-138),
\* unless the POST of the fault was given up and overtaken by that of the baseline.
FaultEndsWithRun ==
    /\ ~interrupted /\ phase \in {"reset", "done"}
         => \A r \in Requests : client[r] \notin {"waiting", "cancelled"}
    /\ lateError => overtaken /\ profile /\ "set" \notin acked

\* The run ends and checkout comes to rest, even if the payments stub never
\* answers (loadgen/main.py:129, checkout/main.py:131).
ComesToRest == <>[](phase = "done" /\ inflight = 0)

=============================================================================
