---------------------------- MODULE CapacityProofs ----------------------------
(***************************************************************************)
(* What holds of the capacity calculator of lab 1-3 for every value of the *)
(* knobs, every number of sampled requests and of threads.                 *)
(***************************************************************************)
EXTENDS Capacity, FiniteSetTheorems, TLAPS

\* The profiles are what the configuration, which is valid, leads to.
DerivedInv ==
    /\ config \in load_config
    /\ phase \in {"load", "derive", "sample", "done", "failed"}
    /\ phase \in {"derive", "sample", "done"} => Valid(config)
    /\ phase \in {"sample", "done"} =>
          /\ workload = derive_workload(config)
          /\ storage = derive_storage(config, workload)
          /\ \E up \in BOOLEAN : capacity = derive_capacity(config, workload, up)
          /\ cost = derive_cost(config, storage, capacity)
          /\ plan \in Plans(config, workload)

\* The items that a thread has taken and recorded.
Served == (1..taken) \ asleep

ServedAs(told) == {i \in Served : plan[i] = told}

\* Between two critical sections of its lock the collector has what has been
\* served, and the report is written when that is the whole plan.
SampleInv ==
    /\ taken \in 0..SampleRequests /\ asleep \subseteq 1..taken
    /\ collector = [count  |-> Cardinality(Served),
                    hits   |-> Cardinality(ServedAs("hit")),
                    misses |-> Cardinality(ServedAs("miss"))]
    /\ phase \in {"load", "derive"} => taken = 0
    /\ phase = "done" => taken = SampleRequests /\ asleep = {} /\ latency = summary

-----------------------------------------------------------------------------
(* The invariants *)

LEMMA InitHolds == Init => DerivedInv /\ SampleInv
<1> SUFFICES ASSUME Init PROVE DerivedInv /\ SampleInv
  OBVIOUS
<1>1. DerivedInv
  BY DEF Init, DerivedInv
<1>2. Served = {} /\ ServedAs("hit") = {} /\ ServedAs("miss") = {}
  BY DEF Init, Served, ServedAs
<1>3. Cardinality({}) = 0
  BY FS_EmptySet
<1>4. taken \in 0..SampleRequests /\ asleep \subseteq 1..taken
  BY CapacityAssumption DEF Init
<1>5. collector = [count  |-> Cardinality(Served),
                   hits   |-> Cardinality(ServedAs("hit")),
                   misses |-> Cardinality(ServedAs("miss"))]
  BY <1>2, <1>3 DEF Init
<1>6. phase = "load" /\ taken = 0
  BY DEF Init
<1> QED BY <1>1, <1>4, <1>5, <1>6 DEF SampleInv

LEMMA DerivedStep == DerivedInv /\ [Next]_vars => DerivedInv'
<1> SUFFICES ASSUME DerivedInv, [Next]_vars PROVE DerivedInv'
  OBVIOUS
<1>1. CASE Load
  BY <1>1 DEF Load, DerivedInv
<1>2. CASE Derive
  <2>1. /\ phase = "derive" /\ phase' = "sample" /\ config' = config
        /\ workload' = derive_workload(config)
        /\ storage' = derive_storage(config, workload')
        /\ cost' = derive_cost(config, storage', capacity')
        /\ plan' \in Plans(config, workload')
    BY <1>2 DEF Derive
  <2>2. \E up \in BOOLEAN : capacity' = derive_capacity(config, workload', up)
    BY <1>2 DEF Derive
  <2> QED BY <2>1, <2>2 DEF DerivedInv
<1>3. CASE UNCHANGED <<config, profiles, plan>> /\ phase = "sample"
           /\ phase' \in {"sample", "done"}
  BY <1>3 DEF DerivedInv, profiles
<1>4. Take \/ (\E item \in asleep : Handle(item)) \/ Finish
        => /\ UNCHANGED <<config, profiles, plan>>
           /\ phase' = phase \/ (phase = "sample" /\ phase' = "done")
  BY DEF Take, Handle, Finish, sample
<1>5. CASE UNCHANGED <<config, profiles, plan>> /\ phase' = phase
  BY <1>5 DEF DerivedInv, profiles
<1>6. CASE UNCHANGED vars
  BY <1>6, <1>5 DEF vars, sample
<1> QED BY <1>1, <1>2, <1>3, <1>4, <1>5, <1>6 DEF Next, Ended

\* The sets that are counted are finite.
LEMMA ServedFinite ==
    ASSUME SampleInv
    PROVE  /\ taken \in Nat /\ IsFiniteSet(Served)
           /\ \A told : IsFiniteSet(ServedAs(told))
<1>1. taken \in Nat
  BY CapacityAssumption DEF SampleInv
<1>2. IsFiniteSet(1..taken)
  <2>1. 1 \in Int /\ taken \in Int
    BY <1>1
  <2> QED BY <2>1, FS_Interval
<1>3. Served \in SUBSET (1..taken)
  BY DEF Served
<1>4. IsFiniteSet(Served)
  BY <1>2, <1>3, FS_Subset
<1>5. \A told : ServedAs(told) \in SUBSET Served
  BY DEF ServedAs
<1> QED BY <1>1, <1>4, <1>5, FS_Subset

LEMMA SampleStep == DerivedInv /\ SampleInv /\ [Next]_vars => SampleInv'
<1> SUFFICES ASSUME DerivedInv, SampleInv, [Next]_vars PROVE SampleInv'
  OBVIOUS
<1>a. taken \in Nat /\ SampleRequests \in Nat \ {0}
  BY CapacityAssumption DEF SampleInv
<1>1. CASE Load
  <2>1. Served' = Served /\ \A told : ServedAs(told)' = ServedAs(told)
    BY <1>1 DEF Load, sample, Served, ServedAs
  <2> QED BY <1>1, <2>1 DEF Load, sample, SampleInv
<1>2. CASE Derive
  <2>1. /\ phase = "derive" /\ phase' = "sample"
        /\ UNCHANGED <<taken, asleep, collector>>
    BY <1>2 DEF Derive
  <2>2. taken = 0
    BY <2>1 DEF SampleInv
  <2>3. Served = {} /\ Served' = {}
    BY <2>1, <2>2 DEF Served
  <2>4. \A told : ServedAs(told) = {} /\ ServedAs(told)' = {}
    BY <2>3 DEF ServedAs
  <2> QED BY <2>1, <2>3, <2>4 DEF SampleInv
<1>3. CASE Take
  <2>1. /\ phase = "sample" /\ phase' = "sample" /\ taken < SampleRequests
        /\ taken' = taken + 1 /\ asleep' = asleep \cup {taken + 1}
        /\ UNCHANGED <<plan, collector>>
    BY <1>3 DEF Take
  <2>2. Served' = Served
    BY <2>1, <1>a DEF SampleInv, Served
  <2>3. \A told : ServedAs(told)' = ServedAs(told)
    BY <2>1, <2>2 DEF ServedAs
  <2>4. taken' \in 0..SampleRequests /\ asleep' \subseteq 1..taken'
    BY <2>1, <1>a DEF SampleInv
  <2> QED BY <2>1, <2>2, <2>3, <2>4 DEF SampleInv
<1>4. ASSUME NEW item \in asleep, Handle(item) PROVE SampleInv'
  <2>1. /\ asleep' = asleep \ {item} /\ collector' = record(plan[item])
        /\ UNCHANGED <<phase, plan, taken, latency>>
    BY <1>4 DEF Handle
  <2>2. Served' = Served \cup {item} /\ item \notin Served
    BY <2>1 DEF SampleInv, Served
  <2>3. Cardinality(Served') = Cardinality(Served) + 1
    BY <2>2, ServedFinite, FS_AddElement
  <2>4. ASSUME NEW told
        PROVE  Cardinality(ServedAs(told)') =
                 Cardinality(ServedAs(told)) + (IF plan[item] = told THEN 1 ELSE 0)
    <3>1. IsFiniteSet(ServedAs(told)) /\ Cardinality(ServedAs(told)) \in Nat
      BY ServedFinite, FS_CardinalityType
    <3>2. CASE plan[item] = told
      <4>1. ServedAs(told)' = ServedAs(told) \cup {item} /\ item \notin ServedAs(told)
        BY <2>1, <2>2, <3>2 DEF ServedAs
      <4>2. Cardinality(ServedAs(told)') = Cardinality(ServedAs(told)) + 1
        BY <3>1, <4>1, FS_AddElement
      <4> QED BY <3>2, <4>2
    <3>3. CASE plan[item] # told
      <4>1. ServedAs(told)' = ServedAs(told)
        BY <2>1, <2>2, <3>3 DEF ServedAs
      <4> QED BY <3>1, <3>3, <4>1
    <3> QED BY <3>2, <3>3
  <2>5. collector' = [count  |-> Cardinality(Served'),
                      hits   |-> Cardinality(ServedAs("hit")'),
                      misses |-> Cardinality(ServedAs("miss")')]
    BY <2>1, <2>3, <2>4 DEF record, SampleInv
  <2>6. asleep' \subseteq 1..taken' /\ (phase # "done")
    BY <2>1 DEF SampleInv
  <2>7. taken' \in 0..SampleRequests /\ (phase \in {"load", "derive"} => taken' = 0)
    BY <2>1 DEF SampleInv
  <2> QED BY <2>1, <2>5, <2>6, <2>7 DEF SampleInv
<1>5. CASE Finish
  <2>1. /\ phase' = "done" /\ taken = SampleRequests /\ asleep = {}
        /\ latency' = summary
        /\ UNCHANGED <<plan, taken, asleep, collector>>
    BY <1>5 DEF Finish, sample
  <2>2. Served' = Served /\ summary' = summary
    BY <2>1 DEF Served, summary
  <2>3. \A told : ServedAs(told)' = ServedAs(told)
    BY <2>1, <2>2 DEF ServedAs
  <2> QED BY <2>1, <2>2, <2>3 DEF SampleInv
<1>6. CASE UNCHANGED vars
  <2>1. Served' = Served /\ summary' = summary /\ \A told : ServedAs(told)' = ServedAs(told)
    BY <1>6 DEF vars, sample, Served, ServedAs, summary
  <2> QED BY <1>6, <2>1 DEF vars, sample, SampleInv
<1> QED BY <1>1, <1>2, <1>3, <1>4, <1>5, <1>6 DEF Next, Ended

LEMMA Inductive == Spec => [](DerivedInv /\ SampleInv)
BY InitHolds, DerivedStep, SampleStep, PTL DEF Spec

-----------------------------------------------------------------------------
(* The sample *)

\* What the plan may tell the collector.
LEMMA PlanTells ==
    ASSUME NEW c, NEW w, NEW p \in Plans(c, w), NEW i \in 1..SampleRequests
    PROVE  /\ p[i] \in {"hit", "miss", "none"}
           /\ p[i] = "hit" => c.hit > 0
           /\ p[i] = "miss" => c.hit < 10
           /\ w.daily = 0 => p[i] # "none"
           /\ w.daily # 0 /\ c.read_ratio = 0 => p[i] = "none"
<1>1. PICK kind \in Kinds(c, w) : p[i] \in Recorded(c, kind)
  BY DEF Plans
<1>2. kind \in {"read", "write"}
  BY DEF Kinds
<1>3. kind = "read" => p[i] \in CacheAnswers(c)
  BY <1>1 DEF Recorded
<1>4. kind = "write" => p[i] = "none"
  BY <1>1 DEF Recorded
<1>5. w.daily = 0 => kind = "read"
  BY DEF Kinds
<1>6. w.daily # 0 /\ c.read_ratio = 0 => kind = "write"
  BY DEF Kinds
<1>7. p[i] \in CacheAnswers(c) => /\ p[i] \in {"hit", "miss"}
                                  /\ p[i] = "hit" => c.hit > 0
                                  /\ p[i] = "miss" => c.hit < 10
  BY DEF CacheAnswers
<1> QED BY <1>2, <1>3, <1>4, <1>5, <1>6, <1>7

\* The observed hit rate where nothing is left to chance.
LEMMA RateOfHits ==
    ASSUME NEW h \in Nat, h > 0
    PROVE  (10 * h) \div h = 10 /\ (10 * 0) \div h = 0
OBVIOUS

\* For every number of sampled requests and of threads the report has each of
\* them once, no write as a read, and shows the configured ratio where it leaves
\* nothing to chance.
THEOREM SampleComplete == Spec => []SampleTracksConfig
<1>1. DerivedInv /\ SampleInv => SampleTracksConfig
  <2> DEFINE c == config
             All == 1..SampleRequests
             H == {i \in All : plan[i] = "hit"}
             M == {i \in All : plan[i] = "miss"}
             D == {i \in All : plan[i] # "none"}
             reads == Cardinality(D)
  <2> SUFFICES ASSUME DerivedInv, SampleInv, phase = "done"
               PROVE  /\ latency.count = SampleRequests /\ latency.reads = reads
                      /\ (c.hit \in {0, 10} /\ reads > 0 => latency.hit_rate = c.hit)
                      /\ (workload.daily = 0 => reads = SampleRequests)
                      /\ (workload.daily > 0 /\ c.read_ratio = 0 => reads = 0)
    BY DEF SampleTracksConfig
  <2>1. Served = All /\ ServedAs("hit") = H /\ ServedAs("miss") = M
    BY DEF SampleInv, Served, ServedAs
  <2>2. IsFiniteSet(All) /\ IsFiniteSet(H) /\ IsFiniteSet(M)
    BY <2>1, ServedFinite
  <2>3. Cardinality(All) = SampleRequests
    <3>1. 1 \in Int /\ SampleRequests \in Int /\ SampleRequests >= 1
      BY CapacityAssumption
    <3> QED BY <3>1, FS_Interval
  <2>4. /\ collector.count = SampleRequests
        /\ collector.hits = Cardinality(H) /\ collector.misses = Cardinality(M)
    BY <2>1, <2>3 DEF SampleInv
  <2>5. \A i \in All : /\ plan[i] \in {"hit", "miss", "none"}
                       /\ plan[i] = "hit" => c.hit > 0
                       /\ plan[i] = "miss" => c.hit < 10
                       /\ workload.daily = 0 => plan[i] # "none"
                       /\ workload.daily # 0 /\ c.read_ratio = 0 => plan[i] = "none"
    BY PlanTells DEF DerivedInv
  <2>6. D = H \cup M /\ H \cap M = {}
    BY <2>5
  <2>7. workload.daily = 0 => D = All
    BY <2>5
  <2>8. workload.daily # 0 /\ c.read_ratio = 0 => D = {}
    BY <2>5
  <2>9. /\ c.hit = 0 => H = {}
        /\ c.hit = 10 => M = {}
    BY <2>5
  <2> HIDE DEF All, H, M, D
  <2>10. Cardinality(H) \in Nat /\ Cardinality(M) \in Nat /\ Cardinality({}) = 0
    BY <2>2, FS_CardinalityType, FS_EmptySet
  <2>11. reads = Cardinality(H) + Cardinality(M)
    <3>1. Cardinality(H \cup M) = Cardinality(H) + Cardinality(M) - Cardinality(H \cap M)
      BY <2>2, FS_Union
    <3>2. Cardinality(H \cap M) = 0
      BY <2>6, <2>10
    <3>3. Cardinality(D) = Cardinality(H \cup M)
      BY <2>6
    <3> QED BY <3>1, <3>2, <3>3, <2>10
  <2>12. latency = summary
    BY DEF SampleInv
  <2>13. latency.count = SampleRequests /\ latency.reads = reads
    BY <2>4, <2>11, <2>12 DEF summary
  <2>14. ASSUME reads > 0 PROVE latency.hit_rate = (10 * Cardinality(H)) \div reads
    BY <2>4, <2>11, <2>12, <2>14 DEF summary
  <2>15. c.hit = 0 /\ reads > 0 => latency.hit_rate = 0
    <3> SUFFICES ASSUME c.hit = 0, reads > 0 PROVE latency.hit_rate = 0
      OBVIOUS
    <3>1. Cardinality(H) = 0
      BY <2>9, <2>10
    <3>2. reads \in Nat
      BY <2>10, <2>11
    <3> HIDE DEF reads
    <3>3. (10 * 0) \div reads = 0
      BY <3>2, RateOfHits
    <3> QED BY <3>1, <3>3, <2>14
  <2>16. c.hit = 10 /\ reads > 0 => latency.hit_rate = 10
    <3> SUFFICES ASSUME c.hit = 10, reads > 0 PROVE latency.hit_rate = 10
      OBVIOUS
    <3>1. Cardinality(M) = 0
      BY <2>9, <2>10
    <3>2. reads \in Nat /\ reads = Cardinality(H)
      BY <3>1, <2>10, <2>11
    <3> HIDE DEF reads
    <3>3. (10 * reads) \div reads = 10
      BY <3>2, RateOfHits
    <3> QED BY <3>2, <3>3, <2>14
  <2>17. workload.daily = 0 => reads = SampleRequests
    BY <2>3, <2>7
  <2>18. workload.daily > 0 /\ c.read_ratio = 0 => reads = 0
    <3>1. workload.daily > 0 => workload.daily # 0
      BY SMT
    <3> QED BY <2>8, <2>10, <3>1
  <2> QED BY <2>13, <2>15, <2>16, <2>17, <2>18
<1> QED BY <1>1, Inductive, PTL

-----------------------------------------------------------------------------
(* The number of nodes *)

LEMMA KnobsTyped ==
    ASSUME NEW c \in load_config
    PROVE  /\ c.dau \in Nat /\ c.sessions \in Nat /\ c.read_ratio \in Nat
           /\ c.burst \in Nat /\ c.hit \in Nat /\ c.rf \in Nat /\ c.node_rate \in Nat
           /\ c.hot \in Nat /\ c.buffer \in Nat /\ c.cold_price \in Nat
<1>1. /\ DailyUsers \subseteq Nat /\ Sessions \subseteq Nat /\ ReadRatios \subseteq Nat
      /\ Bursts \subseteq Nat /\ Hits \subseteq Nat /\ Replicas \subseteq Nat
      /\ NodeRates \subseteq Nat /\ HotParts \subseteq Nat /\ Buffers \subseteq Nat
      /\ ColdPrices \subseteq Nat
  BY CapacityAssumption
<1> QED BY <1>1 DEF load_config

LEMMA TimesNat ==
    ASSUME NEW a \in Nat, NEW b \in Nat
    PROVE  a * b \in Nat /\ a + b \in Nat
OBVIOUS

LEMMA TimesMonotone ==
    ASSUME NEW a \in Nat, NEW b \in Nat, NEW c \in Nat, a <= b
    PROVE  c * a <= c * b /\ a * c <= b * c
OBVIOUS

\* The quotient that is cut off, and what it leaves.
LEMMA Quotient ==
    ASSUME NEW q \in Nat, NEW n \in Nat \ {0}
    PROVE  /\ q \div n \in Nat /\ q % n \in 0..(n - 1)
           /\ q = n * (q \div n) + (q % n)
OBVIOUS

\* The ceiling in derive_capacity, with the load of a node as a parameter.
Ceiling(q, n, up) == q \div n + (IF q % n # 0 \/ (up /\ q > 0) THEN 1 ELSE 0)

\* What the ceiling promises: it is enough, and one less is too little, or, if the
\* rounding went upwards, no more than enough.
LEMMA CeilingBounds ==
    ASSUME NEW q \in Nat, NEW n \in Nat \ {0}, NEW up \in BOOLEAN
    PROVE  LET m == Ceiling(q, n, up)
           IN  /\ m \in Nat /\ q <= m * n
               /\ m > 0 => (m - 1) * n <= q
               /\ m > 0 /\ ~up => (m - 1) * n < q
               /\ up /\ q > 0 => q < m * n
               /\ q = 0 => m = 0
<1> DEFINE d == q \div n
           x == q % n
<1>1. d \in Nat /\ x \in 0..(n - 1) /\ q = n * d + x
  BY Quotient
<1>2. Ceiling(q, n, up) = d + (IF x # 0 \/ (up /\ q > 0) THEN 1 ELSE 0)
  BY DEF Ceiling
<1> HIDE DEF d, x
<1>3. n * d \in Nat /\ d * n = n * d /\ (d + 1) * n = n * d + n /\ (d - 1) * n = n * d - n
  BY <1>1
<1>4. CASE x # 0 \/ (up /\ q > 0)
  <2>1. Ceiling(q, n, up) = d + 1 /\ (d + 1) - 1 = d
    BY <1>1, <1>2, <1>4
  <2>2. q <= (d + 1) * n /\ d * n <= q /\ q < (d + 1) * n
    BY <1>1, <1>3
  <2>3. ~up => d * n < q
    BY <1>1, <1>3, <1>4
  <2>4. q # 0
    BY <1>1, <1>3, <1>4
  <2> QED BY <1>1, <2>1, <2>2, <2>3, <2>4
<1>5. CASE x = 0 /\ ~(up /\ q > 0)
  <2>1. Ceiling(q, n, up) = d
    BY <1>1, <1>2, <1>5
  <2>2. q = d * n
    BY <1>1, <1>3, <1>5
  <2>3. (d - 1) * n < q
    BY <1>1, <1>3, <1>5
  <2>4. q = 0 => d = 0
    BY <1>1, <2>2
  <2> QED BY <1>1, <1>5, <2>1, <2>2, <2>3, <2>4
<1> QED BY <1>4, <1>5

\* A smaller load, or larger nodes, never need more of them.
LEMMA CeilingMonotone ==
    ASSUME NEW q \in Nat, NEW r \in Nat, NEW n \in Nat \ {0}, NEW m \in Nat \ {0},
           NEW up \in BOOLEAN, r <= q, n <= m
    PROVE  Ceiling(r, m, up) <= Ceiling(q, n, up)
<1> DEFINE a == Ceiling(r, m, up)
           b == Ceiling(q, n, up)
<1>1. /\ a \in Nat /\ (a > 0 => (a - 1) * m <= r) /\ (a > 0 /\ ~up => (a - 1) * m < r)
      /\ (r = 0 => a = 0)
  BY CeilingBounds
<1>2. b \in Nat /\ q <= b * n /\ (up /\ q > 0 => q < b * n)
  BY CeilingBounds
<1> HIDE DEF a, b
<1> SUFFICES ASSUME a > b PROVE FALSE
  BY <1>1, <1>2 DEF a, b
<1>3. a - 1 \in Nat /\ b <= a - 1 /\ r > 0
  BY <1>1, <1>2
<1>4. b * n <= (a - 1) * n /\ (a - 1) * n <= (a - 1) * m
  BY <1>2, <1>3, TimesMonotone
<1>5. b * n \in Nat /\ (a - 1) * n \in Nat /\ (a - 1) * m \in Nat
  BY <1>2, <1>3, TimesNat
<1>6. b * n <= (a - 1) * m
  BY <1>4, <1>5
<1>7. CASE up
  BY <1>1, <1>2, <1>3, <1>5, <1>6, <1>7
<1>8. CASE ~up
  BY <1>1, <1>2, <1>3, <1>5, <1>6, <1>8
<1> QED BY <1>7, <1>8

\* The knobs of a valid configuration as the derivations use them.
LEMMA ValidTyped ==
    ASSUME NEW c \in load_config, Valid(c)
    PROVE  /\ 10 - c.hit \in Nat /\ 10 - c.hot \in Nat /\ 10 - c.buffer \in Nat \ {0}
           /\ Parts(c) \in Nat \ {0} /\ c.node_rate \in Nat \ {0} /\ c.rf \in Nat \ {0}
           /\ NodeLoad(c) \in Nat \ {0}
<1>1. /\ 10 - c.hit \in Nat /\ 10 - c.hot \in Nat /\ 10 - c.buffer \in Nat \ {0}
      /\ c.node_rate \in Nat \ {0} /\ c.rf \in Nat \ {0}
  BY KnobsTyped DEF Valid
<1>2. Parts(c) \in Nat \ {0}
  BY KnobsTyped DEF Parts
<1>3. SecondsPerDay \in Nat \ {0}
  BY CapacityAssumption
<1>4. \A a, b \in Nat \ {0} : a * b \in Nat \ {0}
  OBVIOUS
<1>5. Parts(c) * SecondsPerDay \in Nat \ {0}
  BY <1>2, <1>3, <1>4
<1>6. Parts(c) * SecondsPerDay * c.node_rate \in Nat \ {0}
  BY <1>1, <1>4, <1>5
<1>7. NodeLoad(c) \in Nat \ {0}
  BY <1>1, <1>4, <1>6 DEF NodeLoad
<1> QED BY <1>1, <1>2, <1>7

LEMMA WorkloadTyped ==
    ASSUME NEW c \in load_config, Valid(c)
    PROVE  /\ derive_workload(c).daily \in Nat /\ derive_workload(c).avg_write \in Nat
           /\ derive_workload(c).storage_read \in Nat
           /\ derive_workload(c).storage_write \in Nat
<1> DEFINE daily == (c.dau * c.sessions) \div 10
           peak == daily * c.burst
<1>1. daily \in Nat
  <2>1. c.dau * c.sessions \in Nat
    BY KnobsTyped, TimesNat
  <2> QED BY <2>1, Quotient
<1> HIDE DEF daily
<1>2. peak \in Nat
  BY <1>1, KnobsTyped, TimesNat
<1> HIDE DEF peak
<1>3. peak * c.read_ratio \in Nat
  BY <1>2, KnobsTyped, TimesNat
<1>4. peak * c.read_ratio * (10 - c.hit) \in Nat
  BY <1>3, ValidTyped, TimesNat
<1>5. peak * Amplification \in Nat
  BY <1>2, CapacityAssumption, TimesNat
<1>6. derive_workload(c) = [daily |-> daily, avg_write |-> daily,
                            storage_read |-> peak * c.read_ratio * (10 - c.hit),
                            storage_write |-> peak * Amplification]
  BY DEF derive_workload, daily, peak
<1> QED BY <1>1, <1>4, <1>5, <1>6

\* The node count of a load is its ceiling, or one node for every replica.
LEMMA CapacityNodes ==
    ASSUME NEW c, NEW w, NEW up \in BOOLEAN
    PROVE  LET q == w.storage_read + w.storage_write
           IN  /\ derive_capacity(c, w, up).storage_qps = q
               /\ derive_capacity(c, w, up).nodes = Larger(Ceiling(q, NodeLoad(c), up), c.rf)
<1> DEFINE q == w.storage_read + w.storage_write
<1>1. nodes_for_storage(c, q, up) = Ceiling(q, NodeLoad(c), up)
  BY DEF nodes_for_storage, Ceiling
<1>2. /\ derive_capacity(c, w, up).storage_qps = q
      /\ derive_capacity(c, w, up).nodes = Larger(nodes_for_storage(c, q, up), c.rf)
  BY DEF derive_capacity
<1> QED BY <1>1, <1>2

\* Whatever the cache, the amplification, the split and the rounding make of the
\* load: the nodes leave the buffer free at the peak, there is one for every
\* replica, and at most one is in excess.  For every value of the knobs.
THEOREM TargetsMet == Spec => []PlanMeetsTargets
<1>1. DerivedInv => PlanMeetsTargets
  <2> SUFFICES ASSUME DerivedInv, phase = "done"
               PROVE  /\ CarriesWithin(capacity.nodes, 10 - config.buffer)
                      /\ capacity.nodes >= config.rf
                      /\ capacity.nodes > config.rf =>
                            ~CarriesWithin(capacity.nodes - 2, 10 - config.buffer)
    BY DEF PlanMeetsTargets
  <2> DEFINE q == workload.storage_read + workload.storage_write
             n == NodeLoad(config)
             k == capacity.nodes
             rf == config.rf
  <2>1. config \in load_config /\ Valid(config) /\ workload = derive_workload(config)
    BY DEF DerivedInv
  <2>2. PICK up \in BOOLEAN : capacity = derive_capacity(config, workload, up)
    BY DEF DerivedInv
  <2>3. q \in Nat
    BY <2>1, WorkloadTyped, TimesNat
  <2>4. n \in Nat \ {0} /\ rf \in Nat
    BY <2>1, ValidTyped
  <2> DEFINE m == Ceiling(q, n, up)
  <2>5. k = Larger(m, rf) /\ capacity.storage_qps = q
    BY <2>2, CapacityNodes
  <2>6. ASSUME NEW j \in Int
        PROVE  CarriesWithin(j, 10 - config.buffer) <=> q <= j * n
    <3>1. /\ config.node_rate \in Int /\ SecondsPerDay \in Int /\ Parts(config) \in Int
          /\ 10 - config.buffer \in Int
      BY <2>1, ValidTyped, CapacityAssumption
    <3>2. j * config.node_rate * SecondsPerDay * Parts(config) * (10 - config.buffer)
            = j * (Parts(config) * SecondsPerDay * config.node_rate * (10 - config.buffer))
      BY <3>1
    <3> QED BY <3>2, <2>5 DEF CarriesWithin, NodeLoad
  <2> HIDE DEF q, n, rf
  <2>7. m \in Nat /\ q <= m * n /\ (m > 0 => (m - 1) * n <= q)
    BY <2>3, <2>4, CeilingBounds
  <2> HIDE DEF m, k
  <2>8. k \in Nat /\ m <= k /\ rf <= k /\ (k > rf => k = m)
    BY <2>4, <2>5, <2>7 DEF Larger
  <2>9. q <= k * n
    <3>1. m * n <= k * n /\ m * n \in Nat /\ k * n \in Nat
      BY <2>4, <2>7, <2>8, TimesMonotone, TimesNat
    <3> QED BY <3>1, <2>3, <2>7
  <2>10. ASSUME k > rf PROVE ~(q <= (k - 2) * n)
    <3>1. k = m /\ m > 0
      BY <2>4, <2>8, <2>10
    <3>2. (m - 2) * n = (m - 1) * n - n /\ (m - 1) * n \in Int
      BY <2>4, <2>7
    <3> QED BY <3>1, <3>2, <2>3, <2>4, <2>7
  <2>11. k \in Int /\ k - 2 \in Int
    BY <2>8
  <2> QED BY <2>6, <2>8, <2>9, <2>10, <2>11 DEF k, rf
<1> QED BY <1>1, Inductive, PTL

-----------------------------------------------------------------------------
(* The bill *)

\* c differs from a by any of the changes that should lower the bill.
Improves(a, c) ==
    /\ \A knob \in {"dau", "sessions", "read_ratio", "burst", "buffer", "cold_price"} :
          c[knob] = a[knob]
    /\ c.hit >= a.hit /\ c.rf <= a.rf /\ c.node_rate >= a.node_rate
    /\ c.hot = a.hot \/ (c.hot <= a.hot /\ a.cold_price <= 10)

LEMMA ImprovesFields ==
    ASSUME NEW a, NEW c, Improves(a, c)
    PROVE  /\ c.dau = a.dau /\ c.sessions = a.sessions /\ c.read_ratio = a.read_ratio
           /\ c.burst = a.burst /\ c.buffer = a.buffer /\ c.cold_price = a.cold_price
           /\ c.hit >= a.hit /\ c.rf <= a.rf /\ c.node_rate >= a.node_rate
           /\ c.hot = a.hot \/ (c.hot <= a.hot /\ a.cold_price <= 10)
BY DEF Improves

\* What reaches the storage is no more, and no more is written.
LEMMA LoadNoLarger ==
    ASSUME NEW a \in load_config, NEW c \in load_config, Valid(a), Valid(c), Improves(a, c)
    PROVE  LET v == derive_workload(a)
               w == derive_workload(c)
           IN  /\ w.avg_write = v.avg_write
               /\ w.storage_read + w.storage_write <= v.storage_read + v.storage_write
<1> DEFINE peak(k) == ((k.dau * k.sessions) \div 10) * k.burst
           reads(k) == peak(k) * k.read_ratio
           v == derive_workload(a)
           w == derive_workload(c)
<1>1. /\ v.avg_write = (a.dau * a.sessions) \div 10
      /\ w.avg_write = (c.dau * c.sessions) \div 10
      /\ v.storage_read = reads(a) * (10 - a.hit) /\ w.storage_read = reads(c) * (10 - c.hit)
      /\ v.storage_write = peak(a) * Amplification
      /\ w.storage_write = peak(c) * Amplification
  BY DEF derive_workload
<1>2. w.avg_write = v.avg_write /\ peak(c) = peak(a) /\ reads(c) = reads(a)
  BY <1>1, ImprovesFields
<1>3. reads(a) \in Nat
  <2>1. a.dau * a.sessions \in Nat
    BY KnobsTyped, TimesNat
  <2>2. (a.dau * a.sessions) \div 10 \in Nat
    BY <2>1, Quotient
  <2>3. peak(a) \in Nat
    BY <2>2, KnobsTyped, TimesNat
  <2> QED BY <2>3, KnobsTyped, TimesNat
<1>4. 10 - c.hit \in Nat /\ 10 - a.hit \in Nat /\ 10 - c.hit <= 10 - a.hit
  <2>1. c.hit \in Nat /\ a.hit \in Nat /\ c.hit >= a.hit
    BY KnobsTyped, ImprovesFields
  <2> QED BY <2>1, ValidTyped
<1> HIDE DEF reads, peak
<1>5. reads(a) * (10 - c.hit) <= reads(a) * (10 - a.hit)
  BY <1>3, <1>4, TimesMonotone
<1>6. w.storage_read <= v.storage_read /\ w.storage_write = v.storage_write
  BY <1>1, <1>2, <1>5
<1>7. /\ w.storage_read \in Nat /\ v.storage_read \in Nat
      /\ w.storage_write \in Nat /\ v.storage_write \in Nat
  BY WorkloadTyped
<1> HIDE DEF v, w
<1>8. w.storage_read + w.storage_write <= v.storage_read + v.storage_write
  BY <1>6, <1>7
<1> QED BY <1>2, <1>8 DEF v, w

\* A node carries no less.
LEMMA NodeNoSmaller ==
    ASSUME NEW a \in load_config, NEW c \in load_config, Valid(a), Valid(c), Improves(a, c)
    PROVE  NodeLoad(a) <= NodeLoad(c)
<1> DEFINE f == Parts(a) * SecondsPerDay
           b == 10 - a.buffer
<1>1. Parts(a) \in Nat /\ SecondsPerDay \in Nat /\ b \in Nat
      /\ a.node_rate \in Nat /\ c.node_rate \in Nat
  BY ValidTyped, CapacityAssumption
<1>2. f \in Nat
  BY <1>1, TimesNat
<1>3. NodeLoad(a) = f * a.node_rate * b /\ NodeLoad(c) = f * c.node_rate * b
  BY ImprovesFields DEF NodeLoad, Parts
<1> HIDE DEF f, b
<1>4. f * a.node_rate <= f * c.node_rate
  BY <1>1, <1>2, ImprovesFields, TimesMonotone
<1>5. f * a.node_rate \in Nat /\ f * c.node_rate \in Nat
  BY <1>1, <1>2, TimesNat
<1>6. f * a.node_rate * b <= f * c.node_rate * b
  BY <1>1, <1>4, <1>5, TimesMonotone
<1> QED BY <1>3, <1>6

LEMMA NodesNoMore ==
    ASSUME NEW a \in load_config, NEW c \in load_config, NEW up \in BOOLEAN,
           Valid(a), Valid(c), Improves(a, c)
    PROVE  LET j == derive_capacity(a, derive_workload(a), up).nodes
               k == derive_capacity(c, derive_workload(c), up).nodes
           IN  j \in Nat /\ k \in Nat /\ k <= j
<1> DEFINE v == derive_workload(a)
           w == derive_workload(c)
           q == v.storage_read + v.storage_write
           r == w.storage_read + w.storage_write
           j == derive_capacity(a, v, up).nodes
           k == derive_capacity(c, w, up).nodes
           x == Ceiling(q, NodeLoad(a), up)
           y == Ceiling(r, NodeLoad(c), up)
<1>1. q \in Nat /\ r \in Nat /\ r <= q
  BY LoadNoLarger, WorkloadTyped, TimesNat
<1>2. NodeLoad(a) \in Nat \ {0} /\ NodeLoad(c) \in Nat \ {0} /\ NodeLoad(a) <= NodeLoad(c)
  BY ValidTyped, NodeNoSmaller
<1>3. j = Larger(x, a.rf) /\ k = Larger(y, c.rf)
  BY CapacityNodes
<1> HIDE DEF q, r
<1>4. x \in Nat /\ y \in Nat /\ y <= x
  BY <1>1, <1>2, CeilingBounds, CeilingMonotone
<1> HIDE DEF x, y, j, k
<1>5. a.rf \in Nat /\ c.rf \in Nat /\ c.rf <= a.rf
  BY KnobsTyped, ImprovesFields
<1>6. j \in Nat /\ k \in Nat /\ k <= j
  BY <1>3, <1>4, <1>5 DEF Larger
<1> QED BY <1>6 DEF j, k, v, w

\* What the two tiers cost.
StorageCost(c) ==
    LET s == derive_storage(c, derive_workload(c))
    IN  s.hot * 10 + s.cold * c.cold_price

LEMMA TiersTyped ==
    ASSUME NEW c \in load_config, Valid(c)
    PROVE  LET s == derive_storage(c, derive_workload(c))
           IN  s.hot * 10 \in Nat /\ s.cold * c.cold_price \in Nat
<1> DEFINE raw == derive_workload(c).avg_write * (10 + IndexOverhead) * Amplification
           total == raw * c.rf
<1>1. /\ 10 + IndexOverhead \in Nat /\ Amplification \in Nat /\ c.rf \in Nat
      /\ derive_workload(c).avg_write \in Nat
  BY CapacityAssumption, KnobsTyped, WorkloadTyped
<1>2. raw \in Nat
  <2>1. derive_workload(c).avg_write * (10 + IndexOverhead) \in Nat
    BY <1>1, TimesNat
  <2> QED BY <1>1, <2>1, TimesNat
<1>3. /\ derive_storage(c, derive_workload(c)).hot = total * c.hot
      /\ derive_storage(c, derive_workload(c)).cold = total * (10 - c.hot)
  BY DEF derive_storage
<1> HIDE DEF raw
<1>4. total \in Nat /\ c.hot \in Nat /\ 10 - c.hot \in Nat /\ c.cold_price \in Nat
  BY <1>1, <1>2, KnobsTyped, ValidTyped, TimesNat
<1> HIDE DEF total
<1>5. total * c.hot \in Nat /\ total * (10 - c.hot) \in Nat
  BY <1>4, TimesNat
<1>6. total * c.hot * 10 \in Nat /\ total * (10 - c.hot) * c.cold_price \in Nat
  BY <1>4, <1>5, TimesNat
<1> QED BY <1>3, <1>6

LEMMA StorageNoDearer ==
    ASSUME NEW a \in load_config, NEW c \in load_config, Valid(a), Valid(c), Improves(a, c)
    PROVE  /\ StorageCost(a) \in Nat /\ StorageCost(c) \in Nat
           /\ StorageCost(c) <= StorageCost(a)
<1> DEFINE raw(k) == derive_workload(k).avg_write * (10 + IndexOverhead) * Amplification
           total(k) == raw(k) * k.rf
           mix(k) == k.hot * 10 + (10 - k.hot) * k.cold_price
<1>1. raw(a) \in Nat /\ raw(c) = raw(a)
  <2>1. 10 + IndexOverhead \in Nat /\ Amplification \in Nat
    BY CapacityAssumption
  <2>2. derive_workload(a).avg_write \in Nat
    BY WorkloadTyped
  <2>3. derive_workload(a).avg_write * (10 + IndexOverhead) \in Nat
    BY <2>1, <2>2, TimesNat
  <2>4. raw(a) \in Nat
    BY <2>1, <2>3, TimesNat
  <2>5. derive_workload(c).avg_write = derive_workload(a).avg_write
    BY LoadNoLarger
  <2> QED BY <2>4, <2>5
<1>2. a.rf \in Nat /\ c.rf \in Nat /\ c.rf <= a.rf
  BY KnobsTyped, ImprovesFields
<1>3. total(a) \in Nat /\ total(c) \in Nat /\ total(c) <= total(a)
  <2> HIDE DEF raw
  <2> QED BY <1>1, <1>2, TimesNat, TimesMonotone
<1>4. /\ a.hot \in Nat /\ c.hot \in Nat /\ 10 - a.hot \in Nat /\ 10 - c.hot \in Nat
      /\ a.cold_price \in Nat /\ c.cold_price = a.cold_price
      /\ c.hot = a.hot \/ (c.hot <= a.hot /\ a.cold_price <= 10)
  BY KnobsTyped, ValidTyped, ImprovesFields
<1>5. mix(a) \in Nat /\ mix(c) \in Nat /\ mix(c) <= mix(a)
  <2> DEFINE p == a.cold_price
  <2>1. /\ a.hot * 10 \in Nat /\ (10 - a.hot) * p \in Nat
        /\ c.hot * 10 \in Nat /\ (10 - c.hot) * p \in Nat
    BY <1>4, TimesNat
  <2>2. mix(a) \in Nat /\ mix(c) \in Nat
    BY <1>4, <2>1
  <2>3. ASSUME c.hot <= a.hot, p <= 10 PROVE mix(c) <= mix(a)
    <3>1. 10 - p \in Nat
      BY <1>4, <2>3
    <3>2. c.hot * (10 - p) <= a.hot * (10 - p)
      BY <1>4, <2>3, <3>1, TimesMonotone
    <3>3. /\ mix(a) = a.hot * (10 - p) + 10 * p
          /\ mix(c) = c.hot * (10 - p) + 10 * p
      BY <1>4
    <3>4. c.hot * (10 - p) \in Nat /\ a.hot * (10 - p) \in Nat /\ 10 * p \in Nat
      BY <1>4, <3>1, TimesNat
    <3> QED BY <3>2, <3>3, <3>4
  <2>4. ASSUME c.hot = a.hot PROVE mix(c) <= mix(a)
    BY <1>4, <2>2, <2>4
  <2> QED BY <1>4, <2>2, <2>3, <2>4
<1>6. ASSUME NEW k \in {a, c} PROVE StorageCost(k) = total(k) * mix(k)
  <2>1. /\ total(k) \in Nat /\ k.hot \in Nat /\ 10 - k.hot \in Nat /\ k.cold_price \in Nat
    BY <1>3, <1>4
  <2>2. StorageCost(k) = total(k) * k.hot * 10 + total(k) * (10 - k.hot) * k.cold_price
    BY DEF StorageCost, derive_storage
  <2> HIDE DEF total
  <2> QED BY <2>1, <2>2
<1> HIDE DEF total, mix
<1>7. /\ total(c) * mix(c) <= total(a) * mix(c) /\ total(a) * mix(c) <= total(a) * mix(a)
      /\ total(c) * mix(c) \in Nat /\ total(a) * mix(c) \in Nat /\ total(a) * mix(a) \in Nat
  BY <1>3, <1>5, TimesMonotone, TimesNat
<1> QED BY <1>6, <1>7

\* Any combination of more cache, fewer replicas, larger nodes and a smaller hot
\* part, of any size, leads to a bill that is not higher.
LEMMA ImprovementsPay ==
    ASSUME NEW a \in load_config, NEW c \in load_config, NEW up \in BOOLEAN,
           Valid(a), Valid(c), Improves(a, c)
    PROVE  monthly_total(c, up) <= monthly_total(a, up)
<1> DEFINE nodes(k) == derive_capacity(k, derive_workload(k), up).nodes
           price(k) == NodePrice * Parts(k) * 10000
<1>1. nodes(a) \in Nat /\ nodes(c) \in Nat /\ nodes(c) <= nodes(a)
  BY NodesNoMore
<1>2. price(a) \in Nat /\ price(c) = price(a)
  <2>1. NodePrice \in Nat /\ Parts(a) \in Nat /\ Parts(c) = Parts(a)
    BY CapacityAssumption, ValidTyped, ImprovesFields DEF Parts
  <2>2. NodePrice * Parts(a) \in Nat
    BY <2>1, TimesNat
  <2> QED BY <2>1, <2>2, TimesNat
<1>3. ASSUME NEW k \in {a, c} PROVE monthly_total(k, up) = nodes(k) * price(k) + StorageCost(k)
  <2> DEFINE s == derive_storage(k, derive_workload(k))
             hot == s.hot * 10
             cold == s.cold * k.cold_price
  <2>1. nodes(k) \in Nat /\ NodePrice \in Nat /\ Parts(k) \in Nat
    BY <1>1, CapacityAssumption, ValidTyped
  <2>2. hot \in Nat /\ cold \in Nat
    BY TiersTyped
  <2>3. StorageCost(k) = hot + cold
    BY DEF StorageCost
  <2>4. monthly_total(k, up) = nodes(k) * NodePrice * Parts(k) * 10000 + hot + cold
    BY DEF monthly_total, derive_cost
  <2> HIDE DEF nodes, hot, cold
  <2>5. nodes(k) * NodePrice * Parts(k) * 10000 = nodes(k) * price(k)
    BY <2>1
  <2>6. nodes(k) * price(k) \in Nat
    BY <2>1, <2>5, TimesNat, <1>2
  <2> HIDE DEF price
  <2> QED BY <2>2, <2>3, <2>4, <2>5, <2>6
<1> HIDE DEF nodes
<1> HIDE DEF price
<1>4. /\ nodes(c) * price(a) <= nodes(a) * price(a)
      /\ nodes(c) * price(a) \in Nat /\ nodes(a) * price(a) \in Nat
  BY <1>1, <1>2, TimesMonotone, TimesNat
<1>5. /\ StorageCost(a) \in Nat /\ StorageCost(c) \in Nat
      /\ StorageCost(c) <= StorageCost(a)
  BY StorageNoDearer
<1>6. /\ monthly_total(c, up) = nodes(c) * price(a) + StorageCost(c)
      /\ monthly_total(a, up) = nodes(a) * price(a) + StorageCost(a)
  BY <1>2, <1>3
<1> QED BY <1>4, <1>5, <1>6

\* No change that should lower the bill ever raises it, from any configuration,
\* although the nodes, the replicas and both tiers depend on several knobs.
THEOREM KnobsPay == Spec => []KnobsLowerCost
<1>1. DerivedInv => KnobsLowerCost
  <2> SUFFICES ASSUME DerivedInv, phase = "done", NEW c \in Cheaper(config),
                      NEW up \in BOOLEAN, Valid(c),
                      capacity = derive_capacity(config, workload, up)
               PROVE  monthly_total(c, up) <= cost
    BY DEF KnobsLowerCost
  <2>1. config \in load_config /\ Valid(config)
    BY DEF DerivedInv
  <2>2. cost = monthly_total(config, up)
    BY DEF DerivedInv, monthly_total
  <2>3. c \in load_config /\ Improves(config, c)
    <3>1. /\ config.hit \in Nat /\ config.rf \in Nat /\ config.node_rate \in Nat
          /\ config.hot \in Nat
      BY <2>1, KnobsTyped
    <3>2. Hits \subseteq Nat /\ Replicas \subseteq Nat /\ NodeRates \subseteq Nat
          /\ HotParts \subseteq Nat
      BY CapacityAssumption
    <3>3. ASSUME NEW h \in Hits, h > config.hit, c = [config EXCEPT !.hit = h]
          PROVE  c \in load_config /\ Improves(config, c)
      BY <2>1, <3>1, <3>2, <3>3 DEF load_config, Improves
    <3>4. ASSUME NEW n \in Replicas, n < config.rf, c = [config EXCEPT !.rf = n]
          PROVE  c \in load_config /\ Improves(config, c)
      BY <2>1, <3>1, <3>2, <3>4 DEF load_config, Improves
    <3>5. ASSUME NEW q \in NodeRates, q > config.node_rate, c = [config EXCEPT !.node_rate = q]
          PROVE  c \in load_config /\ Improves(config, c)
      BY <2>1, <3>1, <3>2, <3>5 DEF load_config, Improves
    <3>6. ASSUME NEW p \in HotParts, p < config.hot, config.cold_price <= 10,
                 c = [config EXCEPT !.hot = p]
          PROVE  c \in load_config /\ Improves(config, c)
      BY <2>1, <3>1, <3>2, <3>6 DEF load_config, Improves
    <3> QED BY <3>3, <3>4, <3>5, <3>6 DEF Cheaper
  <2> QED BY <2>1, <2>2, <2>3, ImprovementsPay
<1> QED BY <1>1, Inductive, PTL

=============================================================================
