# TLA+ models of the hlsa2 labs

The repository holds seven labs on high-load systems. This directory models the
ones whose programs have state that several goroutines, threads, requests or
processes change. In Go that is above all lab 3-2
(`labs/3-2-sync-vs-async-rest-grpc-events`), an event pipeline with flow control
next to a synchronous call chain with circuit breakers. In Python they are the
thread pool simulators of labs 1-1 and 1-2 and the asyncio services of lab 2-2;
the capacity calculator of lab 1-3 is modelled as the function it is, its sampled benchmark as the
thread pool it is. Paths below
are relative to `src/labs/`; `main.go:N` without a path is the file the section is
about.

## 1. Inventory

| Part | State | Operations | Hard behaviour |
|---|---|---|---|
| Circuit breaker, 3-2 `internal/breaker/breaker.go` | `state`, `failures`, `openedAt` under a mutex | `Do` (two critical sections around the unlocked call), `New`, `Snapshot` | calls start in one state and return in another |
| Consumer, 3-2 `cmd/consumer/main.go` | channel `queue`, counter `queueLen`, flags `shed` and `aborted`, `cfg.flowControl`, `cfg.mode`; the group's offset at the broker; audit tables in Postgres | `runMainConsumer`/`enqueue`, `runHandlers`/`handleOne`, `POST /flow`, `/mode`, `/reset`, `/replay` | two goroutines and the HTTP handlers share the channel and a counter kept beside it; offsets are committed before events are handled; crash and restart; overflow |
| Producer, 3-2 `cmd/producer/main.go` | `cancelFn`, `running`, one goroutine per stream, the global shed cache | `POST /start`, `/stop`, `runStream`, `shouldShed` | overlapping requests; a cache locked during an HTTP request; old streams that end late |
| Shedding loop, 3-2 producer + topic + consumer | all of the above | the shed signal closes a loop | liveness of the loop as a whole |
| Gateway, 3-2 `cmd/gateway/main.go` | three breakers, counters | `GET /sync-chain`: three hops, lookup, audit | partial failure; detached audit goroutine against shutdown |
| Fault injection and backends, 3-2 `internal/inject`, `cmd/chain-svc`, `cmd/lookup-svc` | injected latency, jitter, failure rate | `POST /admin/inject`, lookups | none of its own; the environment of the gateway |
| Audit tables and replay, 3-2 `cmd/consumer/main.go:350-527`, `postgres/init.sql` | `events_audit` (unique `event_id`), `events_audit_naive` | insert, truncate, replay from offset 0 | duplicates, two replays, mode switches with events in the queue |
| Order service, 2-1 `service/main.go` | worker slots, database slots, gauges, injected faults | `POST /order`, `/inject` | slot wait with timeout; gauges beside the slots |
| Worker pool simulator, 1-1 `simulator/` | thread pool with its work queue, `active_count`, collector | three conditions, each `run` or `run_with_arrival_rate` | rejection by a count that is lowered late; futures that must all be collected |
| Read/write pools, 1-2 `simulator/` | two thread pools, one dictionary of futures, collector by type | generated mix and pacing, routing, collection, verdict on the bottleneck | two pools finish in any order; lists that differ by one in length; boundaries of fractions |
| Capacity calculator, 1-3 `simulator/` | the plan of the sample, a thread pool, a collector | `_validate`, workload, storage, nodes, cost, the sampled benchmark | ceilings, cut-offs and knobs that move the result in opposite directions; a report read from what several threads have counted |
| Checkout, payments and load generator, 2-2 | in-flight gauge and counters; the stub's injected fault; the generator's list of tasks | `POST /checkout`, `/charge`, `/admin/inject`, one run of a profile | two nested timeouts; lost and late messages; a fault that must end |
| System under test, 2-3 `sut/`, `downstream/` | connection pool, counters, injected faults | handlers, pool statistics | delta accounting of cumulative counters |
| Metrics, analyzers, dashboards, k6 scripts, rules | none, or that of third-party servers | | |

How the parts of lab 3-2 interact: the producer's streams (and, in event audit
mode, the gateway) write to the topic `events`; the consumer's poller reads it
and sends each event into the Go channel; the handler goroutine receives,
writes to Postgres or to the dead-letter topic. Under `FLOW_CONTROL=on` the
poller also sets `shed`, which `GET /state` shows and the producer's
`shouldShed` reads through a 200 ms cache. The gateway calls three backends in
turn, each through its own breaker.

How the parts of lab 2-2 interact: the generator sets the stub's fault, sends
requests to checkout for as long as the profile lasts, waits for those it still
has in its list and resets the fault. Checkout charges every request at the stub
and answers with what the stub said, or with an error when it took more than 2 s;
the generator waits 5 s. The programs of labs 1-1, 1-2 and 1-3 are alone.

What makes the parts correct:

- Breaker: it is closed exactly while fewer than the threshold of failures came
  in a row; it is never left half-open with no call in flight; it recovers.
- Consumer: the counter tracks the channel; no event vanishes between the
  goroutines; order is kept; nothing is delivered twice without a crash; a crash
  loses no more than channel and handler hold; the
  oldest event is the one to go under flow control; the guard trips only near
  the guard; every event gets an outcome.
- Producer: every live stream can be cancelled, and ends when it is;
  `running` is never true of a stream that is gone; a shed verdict is served from
  the cache only as long as the cache may live.
- Loop: an idle consumer lets the producer send.
- Audit tables: one replay at a time; a cancelled replay and a mode switch take
  effect with the next row; the naive table holds no copy without a delivery,
  the idempotent one all that was replayed.
- Worker pool: never more in the executor than the bound allows; every report
  accounts for the requests of its condition and no others; the benchmark ends.
- Read/write pools: with a replica reads and writes do not wait for each other;
  every request is reported as what it is; the pacing and the verdict agree on the
  resource that saturates first.
- Calculator: the plan keeps the buffer and the replicas at the peak, and a change
  the lab calls cheaper is; the sample is reported in full, and its hit rate is the
  configured one where chance has no say.
- Checkout: gauge and counters match the requests, whoever has given up; a success
  is a success at every layer; the fault ends with the baseline; all of it comes to
  rest.

The hazards behind these properties are listed, each at its line, in
`PROJECT.json`; those without a property name the planned module or the reason.

## 2. Modules

| Module | What it is |
|---|---|
| `BreakerPolicy` | abstract: traffic is let through depending on the streak of failures |
| `Breaker` | `breaker.go`: one action per critical section of `Do` |
| `BreakerProofs` | theorems about `Breaker` |
| `Delivery` | abstract: the fate of every event (ahead, inflight, settled, discarded, missed) |
| `ConsumerQueue` | the consumer's poller, channel, handler, flow switch, offsets and crashes |
| `ConsumerQueueProofs` | theorems about `ConsumerQueue`, and that it implements `Delivery` |
| `Producer` | `/start`, `/stop`, streams and the shed cache |
| `ProducerProofs` | theorems about `Producer`, and that `ShedLoop` implements it |
| `ShedLoop` | extends `Producer` with the topic and a coarse consumer |
| `AuditTables` | `handleOne`, mode switches, reset and replays over the two audit tables |
| `AuditProofs` | theorems about `AuditTables` |
| `WorkerPool` | lab 1-1: main thread, executor and collector over three conditions |
| `WorkerPoolProofs` | theorems about `WorkerPool` |
| `CqrsPool` | lab 1-2: the mix, both executors, the collector and the verdict |
| `CqrsPoolProofs` | theorems about `CqrsPool` |
| `Capacity` | lab 1-3: validation, the derivations up to the bill, the sampled benchmark |
| `CapacityProofs` | theorems about `Capacity` |
| `Checkout` | lab 2-2: generator, checkout and payments with the messages between them |
| `CheckoutProofs` | theorems about `Checkout` |

A run's configuration file has the name of the module it checks, plus the
question when there is a second one. The definitions headed "Slip" are the
mutants of `PROJECT.json`: variants of an action with a plausible mistake, which
the run of the property must notice. They are no part of the specifications.

### Breaker

`pc[c]` says whether caller `c` is inside `fn`. `Admit`, `Probe` and `Reject`
are the outcomes of the first critical section (breaker.go:55-65), `Failure`
and `Success` those of the second (69-81). Time is `age`, ticks since
`openedAt`; it saturates one tick past the cooldown, because the code only asks
whether more than the cooldown has passed. `failures` saturates at
`FailureCap`, which is at least the threshold, for the same reason.

Run `breaker` (three callers, threshold 3, the default cooldown of two ticks).
Three callers let a late failure and a late success overlap with a probe.
Liveness (`RecoversWhenTried`) assumes that the clock advances, that `fn`
returns (the gateway's HTTP client has a timeout of 5 s) and that callers keep
trying; without traffic the code has nothing that would leave `Open`.

Run `breaker_cooldown` is a finding: the comment of `New` promises the cooldown,
a late success closes the breaker without it.

### ConsumerQueue

An event is its offset in one partition. The poller is at `pPc`: join, poll,
then for each record of the batch through `enqueue` (`config`, `depth`,
`signal`, `room`, `evicted`, `send`, `sent`), then `commit`. Each access to
state shared with another goroutine is one action, so the handler and the HTTP
handlers run between any two of them. `queueLen` is separate from the channel
as in the code. `Crash` stands for any end of the process, `SIGTERM` included:
no path of the code drains the channel first. Nothing that the process has in
memory survives, the broker's log and the committed offset do.

A poll that returns only fetch errors is left out: it leads to the commit
again, which is the same as staying before the commit for longer. `NewConsumer`
fails on an invalid configuration only, with which no start of the process would
poll at all, and is taken to succeed. The order between partitions is left out,
and so is a poller sent back by a lost session in a running process: delivery
again is modelled here after a crash, and in `AuditTables`, where it leaves
copies, after both. `settled` joins the two ways an event ends well for the
consumer (row inserted, dead letter written); `abandoned` holds bad records and
events whose dead-lettering failed too.

Run `consumer_queue`: five events, the third one unparsable, a bounded channel
of 1, a guard of 3 (also the capacity when the process starts with flow control
off), and one crash. The bounded channel is two below the guard, the least with
which `AbortsOnlyNearGuard` says something, and the guard is nevertheless reached
(with flow control off, by four parsable events). A restart happens from every
combination of committed, enqueued and handled events, before the first commit
and after it, and the flow switch before the crash differs from the one that the
restart restores. Overflow, eviction, an empty channel at eviction and the guard
all happen. Fairness is weak fairness of the poller and of the handler: both are
goroutines in a loop, a poll returns when there are records, the database answers
or fails. No fairness is assumed of the environment.

Offsets are committed before their events are handled, so a crash does lose events,
and so does a group without a commit, which starts at the end of the topic. Both
are `missed`, which `NothingVanishes`, `EventuallyDrained` and `Delivery` allow.
`LossIsBounded` says how many the first can be: what is committed and has no
outcome fits in the channel and the handler. The second has no bound in the code.

`ImplementsDelivery` maps the state to `Delivery`: an event is in flight while
it is in the channel or in the hands of one of the goroutines, and `crashed` says
that the process has died at least once. Once settled an event stays settled,
whatever redelivery follows; a discarded one gets a second chance only after a
crash, when the group delivers it again; a missed one never comes back.

Run `consumer_flow` is a finding: `POST /flow` does not allocate the bounded
channel, so a process started with flow control off grows its queue beyond
`CONSUMER_QUEUE_MAX` after flow control was turned on.

### Producer

Stream `s` is the goroutine of the `s`-th `/start` and owns the context that
`cancelFn = s` cancels. `BeginStart` and `FinishStart` are the two critical
sections of `handleStart`. Inside a stream, `select` is a choice between
`SeeCancelled` and `TickerFires`; `Expire` is the loop condition. `shouldShed`
is `CacheHit`, or `StartRefresh` (lock, mark fresh, send), `Answer`, then
`Refreshed` or `RefreshFails`, with the write lock held throughout; its two
reads of the time are one action because nothing changes in between that the
second read does not see. The consumer's signal changes at any time.

Run `producer`: two request handlers and two streams (the least with which
starts overlap and streams share the cache), a cache fresh for two ticks.
Fairness: Go's `select` picks among ready cases at random, so `SeeCancelled`
gets strong fairness; a waiting lock is granted in the end (`Ask`, strong,
because another stream's refresh disables it repeatedly); the request is
answered or fails. The last is an assumption about the consumer:
`http.DefaultClient` has no timeout, and without it one silent consumer blocks
every stream, cancelled or not, except the one whose own context ends the
request. `Expire` has no fairness: no property relies on a duration being over.
`ShedVerdictIsRecent` is about the verdict that the cache serves. The stream that
asked obeys its own answer, and if that was slow in coming it may be of any age.

Two overlapping `/start` do leave a stream that no `/stop` reaches: each stops
the old stream before either has installed its own, and the second overwrites the
cancel function of the first. `OrphansOnlyFromOverlap` shows that this is the only
way to lose one; no document promises more.

### ShedLoop

`Producer` with `flowOn`, plus the lengths of the topic's backlog and of the
channel. `Enqueue` writes the signal that `Producer` leaves open. Run
`shed_loop` (one stream, a channel of 3) is a finding: with everything running
fairly, the signal stays on over an idle consumer, since only an arriving event
recomputes it.

### AuditTables

A worker is the live handler goroutine (`Live`) or the goroutine of the `r`-th
`POST /replay`. Both call `handleOne`, which copies the mode and sends an
INSERT (`Begin`), whose outcome is `Insert` or `InsertFails`; with a context
that is done it is `Refused` at once. A failed INSERT writes no row, and the
dead letter it may leave is `ConsumerQueue`'s business. `Insert` also stands for
an INSERT that was committed although its result got lost. `handleReplay` is
`RequestReplay` (under `replayMu`) and then `Launch` (under `cfgMu`); several
requests may be between the two. In the goroutine `pos[r]` is how far it has
read, `end[r]` where its fetched batch ends; records that do not parse are
skipped without a call (main.go:510) and are left out of the offsets. A fetch
takes any part of what is ahead; polls that return nothing are repeated and change
nothing. `Return` is the end of a replay whose context is done; `GiveUp` joins the
ways in which it ends on its own, without a client or with its time up. The live
handler takes events in order and may miss some, as drop-oldest makes it. `late`,
`stray` and `incomplete` are history variables, for the properties.

Delivery is at least once. `Restart` ends the process between any two steps; the
group goes on from any offset up to the handler's (which ones a commit leaves is
`ConsumerQueue`'s subject), and the replays are gone. `Rejoin` sends the live group
back in a running process, `RejoinReplay` a replay to the start of the topic, since
its group never commits. So an event may be copied again with no new replay;
`CopiesAreAccounted` bounds the copies by the deliveries there were. The counter
`resumes` makes them countable, and its bound `MaxResumes` the model finite.

Run `audit_tables`: two events and two replays, the least with which one replay
supersedes another in the middle of a batch while the live handler is in between
its copy of the mode and its row; one worker is sent back once, before or after
anything else, which is the least that shows a copy without a replay. Fairness (`FairSpec`) is assumed of the
goroutine and the request handler of each replay: they run, and the database
answers or fails. No fairness is assumed of the broker, the users or the clock,
so `SupersededReplayEnds` rests on the cancellation alone.

When its window is over, a replay that waits for records stays in `PollFetches`
until a record or its cancellation comes; the deadline is only looked at between
polls. `SupersededReplayEnds` therefore speaks of cancellation, not of expiry.

### WorkerPool

Requests of lab 1-1 differ in nothing but their place in the queue, so the model
counts them: `queued` and `running` are the executor's, `finished` the futures
that are done and not yet collected. The main thread is `phase`: it offers the
requests (`Submit`, `Reject`), then collects (`Collect`) and leaves the `with`
block (`EndCondition`). The same actions stand for `run` and for
`run_with_arrival_rate`, which differ in their sleeps only; how far the workers
get between two offers is open in both. `active` is `active_count`, which only the
main thread touches although `run_with_arrival_rate` guards it with a lock.
`results` is what the report is printed from.

Run `worker_pool`: one or two workers, no or three requests (six in the saturated
condition), an unbounded queue and bounds of 0 and 2, so that conditions without
and with rejections follow each other. Fairness: the main thread runs, a thread
that waits for work gets some, a sleep ends. Run `worker_pool_shed` is a finding:
the docstrings reject "when queue is full", the code when a count is reached that
falls only after the last offer.

### CqrsPool

A request is its kind. `Generate` draws a mix (a fraction of 0 or of 1 leaves no
choice) and fixes how many intervals there are; `Submit` routes one request and
sleeps if there is an interval left; each executor has a queue and `workers`
threads; `Collect` is one round of the `as_completed` loop over the futures of
both. The two formulas about the resources, `_compute_mean_interval` and
`summary`, contain only ratios: the model multiplies their denominators out
(`PacedByIO`, `bottleneck_resource`), so that no rounding is needed.

Run `cqrs_pool`: no, one or four requests; fractions of 0, a half and 1; one or
two workers and I/O workers; with and without a replica; known and unknown
patterns. Four requests of two kinds are the least with which both executors have
a queue behind a busy worker. Nothing in this program waits for another actor for
longer than a sleep, and its safety properties need no fairness.

### Capacity

The calculation has no state of its own: the model is `Load` (`_validate`) and
`Derive`, and TLC goes through the configurations. The sampled benchmark is a plan
drawn in advance by one thread (`Plans`: for each request what the collector will
be told, "hit", "miss" or "none" for a write), a pool of threads (`Take`, `Handle`,
one request each) and `Finish`, which reads the collector when the pool is empty.
What the random numbers leave open is a choice; a share or a ratio of 0 or of 1
leaves none. Fractions are in tenths and
every quantity has its denominators multiplied out, in a unit that the definition
names. Rounding can add a node: `math.ceil` of a float quotient may be one
more than the exact ceiling when the exact quotient is an integer. That is the
choice `up`. Left out is that `int()` of the float product of the users and their
requests (workload.py:39) may be one request a day less than the exact product. The retention and the payload size are common factors and left out;
`SecondsPerDay` is a constant because TLC has integers of 32 bits.

Run `capacity`: ten knobs with two to four values each, among them the ends of
every range and values outside of it, a price of the cold tier above that of the
hot one, and loads on both sides of a whole node. Fixed are the amplification,
the index overhead and the price of a node. Three sampled requests and two threads
are the least with which a later request ends before an earlier one while a third
is waiting. No fairness, no liveness: each thread only sleeps.

### Checkout

One run of `run_profile`. `phase` and `post` are the generator's own progress,
`client[r]`, `server[r]` and `charge[r]` a request at the three layers, and what
they count is the status class they end in. All three programs are asyncio
programs: an action is what runs between two awaits. `Enter` and `Leave` are the
two ends of `red_middleware`; `Answers` and `Fails` how the handler leaves it.
A caller that times out leaves the rest of its request running: `ClientFails`
is possible at any time, `Fails` too, and `Enter`, `ChargeBegins` and `ChargeEnds`
happen whether anybody still waits or not. `stray` are the posts to
`/admin/inject` that were given up and may still arrive. `Fire` also stands for the
reaping of the task list in the round before.

The `finally` block of `run_profile` posts the baseline on every way out of the
loop and the gather (loadgen/main.py:184-192). `Gather` is the regular one.
`Interrupt` is Ctrl-C: in the sleep of the loop it leaves the requests under way
running next to the reset, until `asyncio.run` cancels them (`CancelLeft`); in the
`gather` it cancels them first. `Killed` is Ctrl-C while a POST to the stub is
awaited, a second Ctrl-C, or any other end of the process: then nothing posts the
baseline. A cancelled request is not counted by the generator; at checkout it goes
on like one whose caller timed out.

`FaultEndsWithRun` says that an uninterrupted run posts the baseline after every
request was counted, and that no charge fails once the baseline took effect,
whether or not its POST was answered, with one exception, which the model reaches:
the POST of the fault was given up and took effect after that of the baseline.
`interrupted`, `applied`, `overtaken` and `lateError` are history variables for it.
It does not say that the fault ends: a failed reset is only logged
(loadgen/main.py:112-116) and a killed run posts none, so the fault may stay on,
although `loadgen/profiles.yaml:3-5` and step 4 of the lab's README say that it is
reset at the end of the run.

Run `checkout`: two requests and a list reaped above one task, the least with
which a reaped task and a waiting one coexist. Fairness (`FairSpec`): the
generator's loop runs and its clock reaches the deadline; both callers have
timeouts. These are for each read, so an answer that trickles in for ever is
assumed away. Nothing else is assumed of the payments stub or of the network, so
`ComesToRest` holds although a charge may sleep for ever. The stub never answers
with a 4xx, so the handler's branch for it (checkout/main.py:153-157) is left out.

## 3. What is proved

All proofs are checked by TLAPS for every value of the constants allowed by the
assumption of the module they are about (`BreakerAssumption`,
`ConsumerAssumption`, `ProducerAssumption`, `AuditAssumption`, `PoolAssumption`,
`CqrsAssumption`, `CapacityAssumption`, `CheckoutAssumption`).

- `BreakerProofs`: types; `ClosedBelowThreshold` (inductive with the types);
  `HalfOpenHasProbe` (the state becomes half-open only with the caller that
  probes, and any call that returns leaves that state); every step of `Breaker`
  is a step of `BreakerPolicy` or a stutter (`ImplementsPolicy`).
- `ConsumerQueueProofs`: types need `Positions` (`pos <= fetchEnd <= logEnd`,
  strict while a record is in hand), or `Current` might leave the topic.
  `LenAccounting` follows from the types alone. `NewestDroppedOnlyWithFlowOff`
  is not inductive: it needs `DepthInv`, which says that between the load of the
  depth and the decision the channel is no longer than the depth loaded (the
  poller is the only sender), and that it is below its capacity after an
  eviction. `AbortsOnlyNearGuard` combines it with `LenAccounting`: the counter
  is at most one above the length of the channel. `InOrder` is carried by
  `OrderInv`, the order of the channel together with its bounds by the two
  goroutines' events. `NothingVanishes` is inductive with types and positions.
  `LossIsBounded` follows from it while the process runs: behind the poller an event
  without an outcome is in the channel, which has no more events than places, or in
  the handler; a crash changes neither the commit nor the outcomes (`LossStep`).
  `ImplementsDelivery`: every step either leaves the set of
  events in memory alone, takes a batch in, takes one event out and gives it an
  outcome, or empties it (`QuietSteps`, `PollTakes`, `FinishSteps`, `CrashEmpty`);
  that one event leaves and no second copy stays behind is `OrderInv`. `FateInv`
  adds what the offsets say: a missed event is behind every offset from which the
  group may resume, and one that was given up is ahead of the poller only after a
  crash. From these the step of `Delivery` follows by looking at one event.
- `ProducerProofs`: types; `OrphansOnlyFromOverlap` from `StartInv` (of `/start`
  requests that have not overlapped at most one is between its critical sections,
  and `cancelFn` is nil then); `RunningIsReal`; `ShedVerdictIsRecent`, of the verdict
  in the cache, from
  `LockInv` (the stream whose request is under way has the lock) and `AgeInv` (an
  answer, and the verdict made from it, is never older than the mark that the
  request left in the cache). `LoopImplementsProducer`: a step of `ShedLoop` is one
  of `Producer` (where the consumer changes the signal, `ConsumerSignals`, which may change it
  at any time) or concerns the topic only, so the three
  invariants hold in the closed loop too (`LoopKeepsPromises`).
- `AuditProofs`: types need `Positions` (a worker with a record in hand is
  strictly inside its batch). `OneReplayAtATime` follows from `Superseded`: the
  requested replays but the last are cancelled, those to come are untouched.
  `CancelledWritesAtMostOne` and `SwitchIsPrompt` are not inductive: `LateOnce`
  adds that a replay that has written its late row is not about to write, and
  `StrayOnce` the same of the stray row and the mode. `ReplayCovers` needs
  `Superseded` across a reset, which spoils the replays requested so far and
  must not matter to those to come. `CopiesAreAccounted` counts workers, which
  are finitely many: the inductive part, `CopiesHaveAuthors`, bounds the copies of
  an event by the number of workers that are past it, and one for every time that a
  worker was sent back. A worker passes an event with the step that writes its copy,
  and no worker goes back (`NoWayBack`) but the one that is sent back (`WayBack`),
  when all others stay past what they were (`PassedByAllButOne`).
- `WorkerPoolProofs`: one inductive invariant ties `active`, the executor, the
  collector and the number of requests offered to one another, phase by phase;
  types, `InSystemBounded` and `ReportsAddUp` are consequences. `StepsAreBounded`
  is the safety half of `BenchmarkEnds`: a request still to be offered weighs more
  than one in the queue, that more than one in a thread, that more than one to be
  collected, and every step lowers the total or ends the condition.
- `CqrsPoolProofs`: types need `PaceInv` (no more intervals slept than requests
  offered). `IndependentKinds` follows from `OwnKindOnly`: with a replica an
  executor has requests of one kind only, in its queue and in its threads.
  `ReportMatchesWorkload` is carried by `LedgerInv`, a balance for each kind: of the
  requests offered so many are in the queues and threads, so many finished, so many
  recorded. Requests in a sequence are counted by `Among`, with one lemma for what
  appending and taking the head do to it. `BottleneckFollowsPacing` follows from
  `LoopInv` (the mix that was drawn) by arithmetic that the provers do not find at
  once: `WorkScales`, `WorkMonotone` and `WorkOfMix` compare the work of the drawn
  mix with that of the configured one. `StepsAreBounded` as for `WorkerPool`; the
  run, which checks deadlock, shows that nothing stops before the end.
- `CapacityProofs`: `DerivedInv` says that the profiles are those of a valid
  configuration. `PlanMeetsTargets` and `KnobsLowerCost` are non-linear arithmetic
  over them: the bounds and the monotonicity of a ceiling (`CeilingBounds`,
  `CeilingMonotone`), then the load, the rate of a node, the number of nodes
  and the two tiers one after the other. `ImprovementsPay` is more general than the
  property: it compares any two valid configurations of which one is better in any
  of the four knobs at once, not only those that differ in one of them. `SampleTracksConfig` follows from
  `SampleInv`: the collector has what the items that were taken and are no longer
  asleep were planned to tell it.
- `CheckoutProofs`: `FaultEndsWithRun` is carried by three parts: `PostInv` (a POST
  is under way only in its phase and takes effect at most once; one that may still
  come was neither answered nor applied), `BaselineInv` (once the baseline took effect
  the stub is as it says, unless the fault came after it, and then the POST of the fault
  was not answered) and `TaskInv` (whoever waits is in the task list, reaped or not,
  and in an uninterrupted run nobody waits after the gather).
  `SuccessIsCharged` is inductive. `MetricsMatchRequests` is about cardinalities:
  `CountMove` says that a request that moves from one state to another lowers one
  count and raises one. That the gauge never goes below zero, and so `TypeOK`, is
  a consequence of it.

Only model-checked are the liveness properties (`RecoversWhenTried`,
`EventuallyDrained`, `CancelledEnds`, `SupersededReplayEnds`, `BenchmarkEnds`,
`ComesToRest`): TLAPS has no rules for fairness and `ENABLED`. Of `BenchmarkEnds`
the variant is proved; that a step is always possible before the end is left to
TLC. Every invariant and every action property of a passing run is proved. The type
invariant of `WorkerPool`, and that reads and writes do not wait for each other in
`CqrsPool` (`KindsIndependent`), are proved and in no run.

## 4. Plan

Done are the breaker and the asynchronous half of lab 3-2, and the programs of
labs 1-1, 1-2, 1-3 and 2-2. What is left, in this order:

1. `SyncChain`: several requests through three hops, one `Breaker` each
   (INSTANCE), injected failures, client disconnects, lookup and audit. To
   check: a request succeeds only if all its hops did; a healthy hop's breaker
   opens only by failures of requests that reached it; counters. To prove: the
   first of these.
2. `OrderService` (2-1): worker and database slots with their wait timeout;
   gauges against slots; liveness of release. To prove: slots are never
   exceeded, gauge bound.
3. The pool statistics of 2-3.

## 5. Not modelled

- Metrics, payload bytes, dashboards, alert rules and load scripts hold no control
  state of this repository or belong to third-party servers. The analyzers of 2-3
  and 3-2 (`analyze-regression.py`, `analyze-protocols.py`, `analyze-async.py`)
  read files and format tables, once and alone.
- Durations and the statistics over them, everywhere: means, percentiles,
  throughput. Of the collectors only the counts are modelled. `reset` of both is
  never called by the programs.
- Lab 1-3: bandwidth and replication lag, formulas nothing else depends on.
- Lab 2-2: several generators at once.
- The gateway and the backends of 3-2, the order service of 2-1 and the system
  under test of 2-3: see the plan. Their hazards are in `PROJECT.json`.
