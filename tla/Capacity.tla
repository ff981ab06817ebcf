------------------------------- MODULE Capacity -------------------------------
(***************************************************************************)
(* The capacity calculator of lab 1-3 (labs/1-3-capacity-estimation-back-  *)
(* of-envelope/simulator): run_benchmark validates a configuration and     *)
(* derives from it the load, the storage, the number of nodes and the      *)
(* monthly cost.  Then it plans a sample of requests, reads that hit or    *)
(* miss the cache and writes, lets a pool of threads serve them, and       *)
(* reports what their common collector has counted.                        *)
(*                                                                         *)
(* The code computes in floating point.  Here a fraction is in tenths, and *)
(* a quantity is an integer in the unit its definition names.  A rounding  *)
(* error that adds a node can be seen in the ceiling in derive_capacity,   *)
(* and is a choice there.  That int() of the float product in              *)
(* derive_workload may also yield one request a day less than the exact    *)
(* product is left out, and so is how long a sampled request sleeps, and   *)
(* its latency: it decides the order in which requests end, which is any.  *)
(***************************************************************************)
EXTENDS Integers, Sequences, FiniteSets

CONSTANTS
    \* values of the knobs in config.yaml, valid or not
    DailyUsers,     \* dau
    Sessions,       \* sessions_per_user * requests_per_session, in tenths
    ReadRatios,     \* read_write_ratio
    Bursts,         \* burst_factor
    Hits,           \* cache_hit_ratio, in tenths
    Replicas,       \* replication_factor
    NodeRates,      \* instance_qps_capacity
    HotParts,       \* hot_data_fraction, in tenths
    Buffers,        \* target_buffer_pct, in tenths of 100
    ColdPrices,     \* cold_tier_cost_multiplier, in tenths
    \* fixed ones
    Amplification,  \* write_amplification, in tenths
    IndexOverhead,  \* index_overhead, in tenths
    NodePrice,      \* cost_per_node_per_month_usd, as the number of payloads a
                    \* day whose retention on the hot tier costs as much
    SecondsPerDay,  \* SECONDS_PER_DAY
    SampleRequests, \* sample_requests
    SampleWorkers   \* sample_workers

ASSUME CapacityAssumption ==
    /\ \A S \in {DailyUsers, Sessions, ReadRatios, Bursts, Hits, Replicas, NodeRates,
                 HotParts, Buffers, ColdPrices} : S \subseteq Nat
    /\ Amplification \in Nat /\ Amplification >= 10
    /\ {IndexOverhead, NodePrice} \subseteq Nat /\ {SecondsPerDay, SampleRequests, SampleWorkers} \subseteq Nat \ {0}

VARIABLES
    phase,     \* "load", "derive", "sample", "done", or "failed"
    config,    \* what load_config read
    workload, storage, capacity, cost,  \* the profiles, once they are derived
    plan,      \* what the collector is told of each sampled request
    taken,     \* how many of them the pool has begun
    asleep,    \* those being served
    collector, \* MetricsCollector
    latency    \* the summary in the report

profiles == <<workload, storage, capacity, cost>>
sample == <<plan, taken, asleep, collector>>
vars == <<phase, config, profiles, sample, latency>>

NotDerived == [derived |-> FALSE]

load_config ==
    [dau : DailyUsers, sessions : Sessions, read_ratio : ReadRatios, burst : Bursts,
     hit : Hits, rf : Replicas, node_rate : NodeRates, hot : HotParts,
     buffer : Buffers, cold_price : ColdPrices]

\* _validate: the knobs that may be out of range here.
Valid(c) ==
    /\ c.dau > 0 /\ c.sessions > 0 /\ c.burst >= 1 /\ c.hit \in 0..10
    /\ c.rf >= 1 /\ c.node_rate > 0 /\ c.hot \in 1..10 /\ c.buffer \in 0..9

Init ==
    /\ phase = "load" /\ config \in load_config
    /\ workload = NotDerived /\ storage = NotDerived
    /\ capacity = NotDerived /\ cost = 0
    /\ plan = <<>> /\ taken = 0 /\ asleep = {}
    /\ collector = [count |-> 0, hits |-> 0, misses |-> 0] /\ latency = NotDerived

-----------------------------------------------------------------------------
(* workload.py, storage.py, capacity.py, cost.py *)

\* Requests come in as many parts, one of which is written and the others read.
Parts(c) == c.read_ratio + 1

\* Per day; avg_write in parts of a request, what reaches the storage at the
\* peak in tenths of such a part.  int() cuts off: a few users who come less than
\* once a day make no request at all.
derive_workload(c) ==
    LET daily == (c.dau * c.sessions) \div 10
        peak == daily * c.burst
    IN  [daily |-> daily, avg_write |-> daily,
         storage_read |-> peak * c.read_ratio * (10 - c.hit),
         storage_write |-> peak * Amplification]

\* In payloads a day, kept for the retention, 100 * Parts(c) to the unit; the
\* two tiers in tenths of it.
derive_storage(c, w) ==
    LET daily_raw == w.avg_write * (10 + IndexOverhead) * Amplification
        total == daily_raw * c.rf
    IN  [total |-> total, hot |-> total * c.hot, cold |-> total * (10 - c.hot)]

Larger(a, b) == IF a > b THEN a ELSE b

\* What a node may carry with the buffer, in the unit of storage_read.
NodeLoad(c) == Parts(c) * SecondsPerDay * c.node_rate * (10 - c.buffer)

\* Slip: the quotient is cut off.
CutOff(c, qps, up) == qps \div NodeLoad(c)

\* math.ceil of a quotient of floats: when the exact one is an integer, the
\* rounding may be upwards, and the ceiling one more.
nodes_for_storage(c, qps, up) ==
    LET exact == qps % NodeLoad(c) = 0
    IN  qps \div NodeLoad(c) + (IF ~exact \/ (up /\ qps > 0) THEN 1 ELSE 0)

\* provisioned is per second.
derive_capacity(c, w, up) ==
    LET qps == w.storage_read + w.storage_write
        nodes == Larger(nodes_for_storage(c, qps, up), c.rf)
    IN  [nodes |-> nodes, provisioned |-> nodes * c.node_rate, storage_qps |-> qps]

\* Slip: the multiplier of the cold tier is applied to the hot one.
derive_cost_swapped(c, s, k) ==
    k.nodes * NodePrice * Parts(c) * 10000 + s.hot * c.cold_price + s.cold * 10

\* monthly_total_usd in the unit of storage, times 100.
derive_cost(c, s, k) ==
    k.nodes * NodePrice * Parts(c) * 10000 + s.hot * 10 + s.cold * c.cold_price

-----------------------------------------------------------------------------
(* service.py, cache.py, metrics.py *)

\* A random number in [0, 1) is below the share of the writes: without traffic
\* the share is 0, without reads it is 1.
Kinds(c, w) ==
    IF w.daily = 0 THEN {"read"}
    ELSE IF c.read_ratio = 0 THEN {"write"} ELSE {"read", "write"}

\* is_hit: one below the hit ratio.
CacheAnswers(c) ==
    (IF c.hit > 0 THEN {"hit"} ELSE {}) \union (IF c.hit < 10 THEN {"miss"} ELSE {})

\* hit_recorded in _service_time_seconds: nothing is recorded of a write.
Recorded(c, kind) == IF kind = "read" THEN CacheAnswers(c) ELSE {"none"}

Plans(c, w) ==
    [1..SampleRequests -> UNION {Recorded(c, kind) : kind \in Kinds(c, w)}]

\* A thread of the pool takes the next item of the plan and sleeps.
Take ==
    /\ phase = "sample"
    /\ taken < SampleRequests /\ Cardinality(asleep) < SampleWorkers
    /\ taken' = taken + 1 /\ asleep' = asleep \union {taken'}
    /\ UNCHANGED <<phase, config, profiles, plan, collector, latency>>

\* The collector with one more request; its methods hold its lock.
record(told) ==
    [count  |-> collector.count + 1,
     hits   |-> collector.hits + (IF told = "hit" THEN 1 ELSE 0),
     misses |-> collector.misses + (IF told = "miss" THEN 1 ELSE 0)]

\* It wakes up and records the item.
Handle(item) ==
    /\ item \in asleep
    /\ asleep' = asleep \ {item} /\ collector' = record(plan[item])
    /\ UNCHANGED <<phase, config, profiles, plan, taken, latency>>

\* The observed hit rate is in tenths.
summary ==
    LET decisions == collector.hits + collector.misses
    IN  [count |-> collector.count, reads |-> decisions,
         hit_rate |-> IF decisions > 0 THEN (10 * collector.hits) \div decisions ELSE 0]

\* Slip: only the result of the last item is waited for.
FinishAfterLast ==
    /\ phase = "sample"
    /\ taken = SampleRequests /\ SampleRequests \notin asleep
    /\ latency' = summary /\ phase' = "done"
    /\ UNCHANGED <<config, profiles, sample>>

\* The pool has served the plan, and the report is complete.
Finish ==
    /\ phase = "sample"
    /\ taken = SampleRequests /\ asleep = {}
    /\ latency' = summary /\ phase' = "done"
    /\ UNCHANGED <<config, profiles, sample>>

-----------------------------------------------------------------------------
(* run_benchmark *)

Load ==
    /\ phase = "load"
    /\ phase' = IF Valid(config) THEN "derive" ELSE "failed"
    /\ UNCHANGED <<config, profiles, sample, latency>>

Derive ==
    /\ phase = "derive"
    /\ workload' = derive_workload(config)
    /\ storage' = derive_storage(config, workload')
    /\ \E up \in BOOLEAN : capacity' = derive_capacity(config, workload', up)
    /\ cost' = derive_cost(config, storage', capacity')
    /\ plan' \in Plans(config, workload')
    /\ phase' = "sample"
    /\ UNCHANGED <<config, taken, asleep, collector, latency>>

Ended == phase \in {"done", "failed"} /\ UNCHANGED vars

Next == Load \/ Derive \/ Take \/ (\E item \in asleep : Handle(item)) \/ Finish \/ Ended

Spec == Init /\ [][Next]_vars

-----------------------------------------------------------------------------
(* Properties *)

\* The load of the storage fits into so many tenths of what n nodes can do.
CarriesWithin(n, tenths) ==
    capacity.storage_qps <= n * config.node_rate * SecondsPerDay * Parts(config) * tenths

\* "Headroom at peak ... (target: >= ...)" (runner.py:143): whatever the cache,
\* the amplification, the split and the rounding make of the load, the nodes
\* leave the buffer free at the peak, there is one for every replica, and none
\* is in excess but for the replicas or for one that a rounding error adds.
PlanMeetsTargets ==
    phase = "done" =>
        /\ CarriesWithin(capacity.nodes, 10 - config.buffer)
        /\ capacity.nodes >= config.rf
        /\ capacity.nodes > config.rf =>
              ~CarriesWithin(capacity.nodes - 2, 10 - config.buffer)

\* What "should lower" the bill: more cache, fewer replicas, larger nodes at the
\* same price, less on the hot tier if the cold one is not dearer.
Cheaper(c) ==
    {[c EXCEPT !.hit = h] : h \in {h \in Hits : h > c.hit}}
    \union {[c EXCEPT !.rf = n] : n \in {n \in Replicas : n < c.rf}}
    \union {[c EXCEPT !.node_rate = q] : q \in {q \in NodeRates : q > c.node_rate}}
    \union {[c EXCEPT !.hot = p] : p \in {p \in HotParts : p < c.hot /\ c.cold_price <= 10}}

\* The bill of a configuration whose quotient is rounded the same way.
monthly_total(c, up) ==
    LET w == derive_workload(c)
    IN  derive_cost(c, derive_storage(c, w), derive_capacity(c, w, up))

\* "adding caching, reducing RF, or vertical-scaling shows up as a clear
\* directional change" (cost.py:10-12): no such change of a configuration ever
\* raises the bill, and so the cost per 1k QPS, although the nodes, the replicas
\* and both tiers depend on several knobs at once.
KnobsLowerCost ==
    phase = "done" =>
        \A c \in Cheaper(config), up \in BOOLEAN :
            Valid(c) /\ capacity = derive_capacity(config, workload, up) =>
                monthly_total(c, up) <= cost

\* The observed hit rate "should track infra.cache_hit_ratio from the config (a
\* sanity check that the cache simulator is wired correctly)" (metrics.py:4-6):
\* although the threads end in any order, the report has every sampled request
\* and no write as a read; where the ratio, the mix or the lack of traffic leave
\* nothing to chance, it shows exactly what they say.
SampleTracksConfig ==
    phase = "done" =>
        LET c == config
            reads == Cardinality({i \in 1..SampleRequests : plan[i] # "none"})
        IN  /\ latency.count = SampleRequests /\ latency.reads = reads
            /\ (c.hit \in {0, 10} /\ reads > 0 => latency.hit_rate = c.hit)
            /\ (workload.daily = 0 => reads = SampleRequests)
            /\ (workload.daily > 0 /\ c.read_ratio = 0 => reads = 0)

=============================================================================
