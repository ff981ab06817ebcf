------------------------------- MODULE CqrsPool -------------------------------
(***************************************************************************)
(* The benchmark of lab 1-2 (labs/1-2-workload-characterization-           *)
(* bottleneck-analysis/simulator): a paced mix of reads and writes is      *)
(* offered to one thread pool or, with replica_lag_ms > 0, to a pool for   *)
(* writes and a replica pool for reads.                                    *)
(*                                                                         *)
(* A request is its kind.  Time is left out, except for what the report    *)
(* says of the two resources, which depends on ratios only: a fraction is  *)
(* in percent, a service time in any unit.                                 *)
(***************************************************************************)
EXTENDS Integers, Sequences, FiniteSets

CONSTANTS
    WorkerCounts,    \* values of workers in config.yaml
    IoWorkerCounts,  \* values of io_workers
    Totals,          \* values of total_requests
    ReadPercents,    \* values of read_fraction
    ServiceTime,     \* service_time_ms
    WriteTime,       \* write_service_time_ms
    Lags             \* values of replica_lag_ms

ASSUME CqrsAssumption ==
    /\ WorkerCounts \subseteq Nat \ {0} /\ IoWorkerCounts \subseteq Nat \ {0}
    /\ Totals \subseteq Nat /\ Lags \subseteq Nat
    /\ ReadPercents \subseteq 0..100
    /\ ServiceTime \in Nat \ {0} /\ WriteTime \in Nat \ {0}

Kinds == {"read", "write"}
Pools == {"primary", "replica"}

load_config == [workers : WorkerCounts, io_workers : IoWorkerCounts, total : Totals,
                read_percent : ReadPercents, lag : Lags, known_pattern : BOOLEAN]

VARIABLES
    config,     \* what run_benchmark loaded
    phase,      \* "load", "offer", "collect", "done", or "failed"
    requests,   \* the kinds of the generated requests
    arrivals,   \* how many inter-arrival times there are
    offered,    \* how many requests have been submitted
    gaps,       \* how many inter-arrival times the main thread has slept
    queue,      \* per executor, the work queue
    running,    \* per executor and kind, the threads in _handle_request
    finished,   \* per kind, the futures that are done and not yet collected
    recorded    \* per kind, the latencies in the collector

vars == <<config, phase, requests, arrivals, offered, gaps, queue, running,
          finished, recorded>>

NoneOf == [k \in Kinds |-> 0]

Init ==
    /\ config \in load_config
    /\ phase = "load" /\ requests = <<>> /\ arrivals = 0
    /\ offered = 0 /\ gaps = 0
    /\ queue = [p \in Pools |-> <<>>]
    /\ running = [p \in Pools |-> NoneOf]
    /\ finished = NoneOf /\ recorded = NoneOf

-----------------------------------------------------------------------------
(* workload.py *)

\* random.random() is in [0, 1): a fraction of 0 or of 1 leaves no choice.
generate_requests ==
    {s \in [1..config.total -> Kinds] :
        /\ config.read_percent = 0 => \A i \in 1..config.total : s[i] = "write"
        /\ config.read_percent = 100 => \A i \in 1..config.total : s[i] = "read"}

\* One interval less than there are requests.
generate_arrivals == IF config.total <= 1 THEN 0 ELSE config.total - 1

\* An unknown pattern raises ValueError, once it is looked at.
BadPattern == config.total > 1 /\ ~config.known_pattern

route_request(kind, cqrs_enabled) ==
    IF cqrs_enabled /\ kind = "read" THEN "replica" ELSE "primary"

-----------------------------------------------------------------------------
(* The main thread *)

\* run_benchmark up to pool.run; every interval is recorded in the collector.
Generate ==
    /\ phase = "load"
    /\ IF BadPattern
       THEN phase' = "failed" /\ UNCHANGED <<requests, arrivals>>
       ELSE /\ phase' = "offer"
            /\ requests' \in generate_requests
            /\ arrivals' = generate_arrivals
    /\ UNCHANGED <<config, offered, gaps, queue, running, finished, recorded>>

\* Slip: the main thread sleeps after the last request as well.
PauseAfterEach == offered + 1 <= config.total

\* The i-th request (from 0) is followed by a sleep if there is an i-th interval.
Pause == offered < arrivals

\* The loop of _run_shared and of _run_cqrs.
Submit ==
    LET kind == requests[offered + 1]
        target == route_request(kind, config.lag > 0)
    IN  /\ phase = "offer" /\ offered < Len(requests)
        /\ queue' = [queue EXCEPT ![target] = Append(@, kind)]
        /\ offered' = offered + 1
        /\ gaps' = IF Pause THEN gaps + 1 ELSE gaps
        /\ UNCHANGED <<config, phase, requests, arrivals, running, finished, recorded>>

AllOffered ==
    /\ phase = "offer" /\ offered = Len(requests)
    /\ phase' = "collect"
    /\ UNCHANGED <<config, requests, arrivals, offered, gaps, queue, running,
                   finished, recorded>>

\* Slip: record is called without the type of the request.
CollectAsRead(kind) ==
    /\ phase = "collect" /\ finished[kind] > 0
    /\ finished' = [finished EXCEPT ![kind] = @ - 1]
    /\ recorded' = [recorded EXCEPT !["read"] = @ + 1]
    /\ UNCHANGED <<config, phase, requests, arrivals, offered, gaps, queue, running>>

\* One round of the as_completed loop, with MetricsCollector.record.
Collect(kind) ==
    /\ phase = "collect" /\ finished[kind] > 0
    /\ finished' = [finished EXCEPT ![kind] = @ - 1]
    /\ recorded' = [recorded EXCEPT ![kind] = @ + 1]
    /\ UNCHANGED <<config, phase, requests, arrivals, offered, gaps, queue, running>>

\* Every future has been yielded; the with block joins the idle workers.
Report ==
    /\ phase = "collect"
    /\ \A p \in Pools : queue[p] = <<>> /\ running[p] = NoneOf
    /\ finished = NoneOf
    /\ phase' = "done"
    /\ UNCHANGED <<config, requests, arrivals, offered, gaps, queue, running,
                   finished, recorded>>

-----------------------------------------------------------------------------
(* The worker threads: config.workers of them per executor *)

Take(p) ==
    /\ queue[p] # <<>>
    /\ running[p]["read"] + running[p]["write"] < config.workers
    /\ queue' = [queue EXCEPT ![p] = Tail(@)]
    /\ running' = [running EXCEPT ![p][Head(queue[p])] = @ + 1]
    /\ UNCHANGED <<config, phase, requests, arrivals, offered, gaps, finished, recorded>>

\* _handle_request returns the type it was given.
Finish(p, kind) ==
    /\ running[p][kind] > 0
    /\ running' = [running EXCEPT ![p][kind] = @ - 1]
    /\ finished' = [finished EXCEPT ![kind] = @ + 1]
    /\ UNCHANGED <<config, phase, requests, arrivals, offered, gaps, queue, recorded>>

-----------------------------------------------------------------------------

Main == Generate \/ Submit \/ AllOffered \/ Report \/ \E k \in Kinds : Collect(k)

Worker(p) == Take(p) \/ \E k \in Kinds : Finish(p, k)

Ended == phase \in {"done", "failed"} /\ UNCHANGED vars

Next == Main \/ Ended \/ \E p \in Pools : Worker(p)

Spec == Init /\ [][Next]_vars

-----------------------------------------------------------------------------
(* The two resources *)

\* rps_io < rps_conn in _compute_mean_interval, with the denominators multiplied
\* out: the I/O subsystem hits the target utilisation first.
PacedByIO ==
    LET write_percent == 100 - config.read_percent
        avg_svc == config.read_percent * ServiceTime
                   + write_percent * WriteTime
    IN  /\ write_percent > 0
        /\ config.io_workers * avg_svc
             < config.workers * WriteTime * write_percent

count == recorded["read"] + recorded["write"]

\* Slip: the two utilisations are compared per request, not per worker.
BottleneckPerRequest ==
    IF recorded["write"] * WriteTime
         >= recorded["read"] * ServiceTime + recorded["write"] * WriteTime
    THEN "io_subsystem" ELSE "connection_pool"

\* io_util >= conn_util in summary, with rps and the denominators multiplied out.
bottleneck_resource ==
    IF /\ count > 0
       /\ recorded["write"] * WriteTime * config.workers
            >= (recorded["read"] * ServiceTime
                + recorded["write"] * WriteTime) * config.io_workers
    THEN "io_subsystem" ELSE "connection_pool"

-----------------------------------------------------------------------------
(* Properties *)

\* The counts of executors and collector are natural numbers, the intervals
\* slept are intervals there are.
TypeOK ==
    /\ config \in load_config
    /\ phase \in {"load", "offer", "collect", "done", "failed"}
    /\ requests \in Seq(Kinds) /\ arrivals \in Nat
    /\ offered \in 0..Len(requests) /\ gaps \in 0..arrivals
    /\ queue \in [Pools -> Seq(Kinds)]
    /\ running \in [Pools -> [Kinds -> Nat]]
    /\ finished \in [Kinds -> Nat] /\ recorded \in [Kinds -> Nat]

\* "reads and writes scale independently and no longer contend for the same
\* workers" (worker_pool.py:128): with a replica a request that waits has only
\* requests of its own kind before it and in the workers of its executor.
IndependentKinds ==
    config.lag > 0 =>
        \A p \in Pools, i \in 1..config.total, k \in Kinds :
            i <= Len(queue[p]) /\ k # queue[p][i] =>
                /\ running[p][k] = 0
                /\ \A j \in 1..Len(queue[p]) : queue[p][j] # k

NumberOf(k) == Cardinality({i \in 1..Len(requests) : requests[i] = k})

\* The report counts every generated request once and as what it is, and every
\* interval it describes has been waited for (runner.py:104-121): whatever the
\* two executors did first, and whatever the order of the futures.
ReportMatchesWorkload ==
    phase = "done" =>
        /\ \A k \in Kinds : recorded[k] = NumberOf(k)
        /\ count = config.total
        /\ gaps = arrivals

\* The runner paces the arrivals for the resource that saturates first
\* (runner.py:49-61), the collector names a bottleneck from what it observed
\* (metrics.py:165-175): they agree unless the mix came out differently, that is
\* with fewer writes than configured when the I/O is to be the bottleneck, with
\* more writes when it is not.
BottleneckFollowsPacing ==
    phase = "done" /\ count > 0 =>
        LET drawn == recorded["write"] * 100
            meant == count * (100 - config.read_percent)
        IN  /\ PacedByIO /\ drawn >= meant => bottleneck_resource = "io_subsystem"
            /\ bottleneck_resource = "io_subsystem" /\ drawn <= meant =>
                 \/ PacedByIO
                 \/ config.io_workers * (config.read_percent * ServiceTime
                       + (100 - config.read_percent) * WriteTime)
                    = config.workers * WriteTime * (100 - config.read_percent)

=============================================================================
