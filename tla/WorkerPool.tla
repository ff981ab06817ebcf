------------------------------ MODULE WorkerPool ------------------------------
(***************************************************************************)
(* The benchmark of lab 1-1 (labs/1-1-latency-throughput-scaling-laws/     *)
(* simulator): the main thread offers the requests of three conditions,    *)
(* one after the other, to a thread pool with an optional bound, and the   *)
(* worker threads serve them meanwhile.                                    *)
(*                                                                         *)
(* Requests differ in nothing but their place in the queue, so they are    *)
(* counted.  Time is left out: how far the workers get between two offers  *)
(* is open, whatever the inter-arrival time is.                            *)
(***************************************************************************)
EXTENDS Integers, Sequences

CONSTANTS
    WorkerCounts,   \* values of workers in config.yaml
    Totals,         \* values of total_requests
    Multipliers,    \* values of saturated_multiplier
    Limits,         \* values of max_queue_size that bound the queue
    Unbounded       \* max_queue_size: null

ASSUME PoolAssumption ==
    /\ WorkerCounts \subseteq Nat \ {0}
    /\ Totals \subseteq Nat
    /\ Multipliers \subseteq Nat
    /\ Limits \subseteq Nat
    /\ Unbounded \notin Nat

VARIABLES
    config,     \* what run_benchmark loaded
    cond,       \* the condition being run; 4 when the report is printed
    phase,      \* the main thread: "start", "offer" or "collect"
    offered,    \* requests of this condition offered so far
    queued,     \* requests in the executor's work queue
    running,    \* worker threads inside _handle_request
    finished,   \* futures that are done and not yet collected
    active,     \* active_count
    recorded,   \* len(collector._latencies)
    rejected,   \* collector._rejected
    results     \* the summaries of the conditions that are over

executor  == <<queued, running, finished>>
collector == <<recorded, rejected>>
vars == <<config, cond, phase, offered, executor, active, collector, results>>

Serial == 1
Saturated == 3

generate_serial    == config.total
generate_parallel  == config.total
generate_saturated == config.total * config.multiplier

\* The number of requests and of workers of condition c.
Requests(c) == <<generate_serial, generate_parallel, generate_saturated>>[c]
Workers(c)  == IF c = Serial THEN 1 ELSE config.workers

Bounded == config.limit # Unbounded
max_capacity == Workers(cond) + config.limit

load_config == [workers : WorkerCounts, total : Totals, multiplier : Multipliers,
                limit : Limits \union {Unbounded}]

\* Slip: one collector is used for all the conditions.
SharedCollector ==
    /\ queued' = 0 /\ running' = 0 /\ finished' = 0
    /\ active' = 0 /\ UNCHANGED collector

\* An idle executor and an empty collector.
FreshPool ==
    /\ queued' = 0 /\ running' = 0 /\ finished' = 0
    /\ active' = 0 /\ recorded' = 0 /\ rejected' = 0

Init ==
    /\ config \in load_config
    /\ cond = Serial /\ phase = "start" /\ offered = 0
    /\ queued = 0 /\ running = 0 /\ finished = 0
    /\ active = 0 /\ recorded = 0 /\ rejected = 0
    /\ results = <<>>

-----------------------------------------------------------------------------
(* The main thread *)

\* _run_condition builds a pool and a collector of its own.
StartCondition ==
    /\ cond <= Saturated /\ phase = "start"
    /\ phase' = "offer" /\ offered' = 0
    /\ FreshPool
    /\ UNCHANGED <<config, cond, results>>

\* Slip: the bound is compared with <= instead of <.
SubmitOffByOne ==
    /\ phase = "offer" /\ offered < Requests(cond)
    /\ Bounded => active <= max_capacity
    /\ offered' = offered + 1
    /\ queued' = queued + 1
    /\ active' = IF Bounded THEN active + 1 ELSE active
    /\ UNCHANGED <<config, cond, phase, running, finished, collector, results>>

\* pool.submit puts the request into the work queue, which has no bound.  Only
\* the main thread touches active_count, so its test and its increment are one
\* step; it is not kept when the queue is unbounded.
Submit ==
    /\ phase = "offer" /\ offered < Requests(cond)
    /\ Bounded => active < max_capacity
    /\ offered' = offered + 1
    /\ queued' = queued + 1
    /\ active' = IF Bounded THEN active + 1 ELSE active
    /\ UNCHANGED <<config, cond, phase, running, finished, collector, results>>

Reject ==
    /\ phase = "offer" /\ offered < Requests(cond)
    /\ Bounded /\ active >= max_capacity
    /\ offered' = offered + 1
    /\ rejected' = rejected + 1
    /\ UNCHANGED <<config, cond, phase, executor, active, recorded, results>>

AllOffered ==
    /\ phase = "offer" /\ offered = Requests(cond)
    /\ phase' = "collect"
    /\ UNCHANGED <<config, cond, offered, executor, active, collector, results>>

\* One round of the as_completed loop, with record_times.
Collect ==
    /\ phase = "collect" /\ finished > 0
    /\ finished' = finished - 1
    /\ recorded' = recorded + 1
    /\ active' = IF Bounded THEN active - 1 ELSE active
    /\ UNCHANGED <<config, cond, phase, offered, queued, running, rejected, results>>

summary == [count |-> recorded, rejected |-> rejected]

\* Slip: rejected requests are waited for as well.
EndAwaitingAll ==
    /\ phase = "collect" /\ recorded = offered
    /\ results' = Append(results, summary)
    /\ cond' = cond + 1 /\ phase' = "start"
    /\ UNCHANGED <<config, offered, executor, active, collector>>

\* Every future has been yielded: the with block joins the idle workers and
\* the summary goes to the results.
EndCondition ==
    /\ phase = "collect" /\ queued + running + finished = 0
    /\ results' = Append(results, summary)
    /\ cond' = cond + 1 /\ phase' = "start"
    /\ UNCHANGED <<config, offered, executor, active, collector>>

-----------------------------------------------------------------------------
(* The worker threads of the executor *)

Take ==
    /\ queued > 0 /\ running < Workers(cond)
    /\ queued' = queued - 1 /\ running' = running + 1
    /\ UNCHANGED <<config, cond, phase, offered, finished, active, collector, results>>

Finish ==
    /\ running > 0
    /\ running' = running - 1 /\ finished' = finished + 1
    /\ UNCHANGED <<config, cond, phase, offered, queued, active, collector, results>>

-----------------------------------------------------------------------------

Main ==
    \/ StartCondition \/ Submit \/ Reject \/ AllOffered \/ Collect \/ EndCondition

\* Once the report is printed the program stops.
Next == Main \/ Take \/ Finish

Spec == Init /\ [][Next]_vars

\* The main thread runs, a thread that waits for work gets some, a sleep ends.
FairSpec == Spec /\ WF_vars(Main) /\ WF_vars(Take) /\ WF_vars(Finish)

-----------------------------------------------------------------------------
(* Properties *)

\* The counts of executor and collector never go below zero, and there are as
\* many results as conditions that are over.
TypeOK ==
    /\ config \in load_config
    /\ cond \in 1..Saturated + 1 /\ phase \in {"start", "offer", "collect"}
    /\ offered \in Nat /\ active \in Nat
    /\ queued \in Nat /\ running \in 0..config.workers /\ finished \in Nat
    /\ recorded \in Nat /\ rejected \in Nat
    /\ results \in Seq([count : Nat, rejected : Nat]) /\ Len(results) = cond - 1

\* With max_queue_size set, the executor never holds more than workers +
\* max_queue_size requests, however late active_count is lowered
\* (worker_pool.py:76-82).
InSystemBounded ==
    Bounded /\ phase # "start" => queued + running <= max_capacity

\* What load shedding drops out of n offered requests.
Shed(n, c) ==
    IF Bounded /\ n > Workers(c) + config.limit THEN n - (Workers(c) + config.limit)
    ELSE 0

\* Every request of a condition is reported once, as served or as rejected, and
\* the rejected ones are those beyond the capacity at the start, no matter how
\* many the workers served meanwhile (worker_pool.py:125-146): neither a request
\* of another condition nor the schedule shows in the report.
ReportsAddUp ==
    \A c \in 1..Len(results) :
        /\ results[c].count + results[c].rejected = Requests(c)
        /\ results[c].rejected = Shed(Requests(c), c)

\* The benchmark comes to its report: the as_completed loop does not wait for
\* requests that were rejected, and no future is left behind (87, 141).
BenchmarkEnds == <>(cond > Saturated)

\* "requests are rejected when queue is full" (worker_pool.py:61 and 106).
\* Violated: the count is lowered only after the last offer, so that requests
\* are rejected with an empty queue and idle workers.
RejectsOnlyWhenFull ==
    [][rejected' > rejected => queued >= config.limit]_vars

=============================================================================
