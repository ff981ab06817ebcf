--------------------------- MODULE WorkerPoolProofs ---------------------------
(***************************************************************************)
(* What the benchmark of lab 1-1 reports, for every number of workers,     *)
(* requests and places in the queue.                                       *)
(***************************************************************************)
EXTENDS WorkerPool, TLAPS

\* Between two conditions nothing is left in the executor.
IdleInv == phase = "start" => queued = 0 /\ running = 0 /\ finished = 0

\* Where the requests offered so far are, and how many of them were shed.
LedgerInv ==
    phase # "start" =>
        /\ cond \in 1..Saturated
        /\ offered = queued + running + finished + recorded + rejected
        /\ offered <= Requests(cond)
        /\ phase = "offer" => recorded = 0
        /\ phase = "collect" => offered = Requests(cond)
        /\ Bounded => active = queued + running + finished
        /\ rejected = Shed(offered, cond)

Inv == TypeOK /\ IdleInv /\ LedgerInv /\ ReportsAddUp

-----------------------------------------------------------------------------

\* The sizes of a condition are natural numbers, also the product.
LEMMA Sizes ==
    ASSUME config \in load_config, NEW c \in 1..Saturated
    PROVE  /\ Requests(c) \in Nat /\ Workers(c) \in Nat \ {0}
           /\ Workers(c) <= config.workers
           /\ config.workers \in Nat \ {0}
           /\ Bounded => config.limit \in Nat
<1>1. /\ config.workers \in Nat \ {0} /\ config.total \in Nat /\ config.multiplier \in Nat
      /\ config.limit \in Nat \union {Unbounded}
  BY PoolAssumption DEF load_config
<1>2. config.total * config.multiplier \in Nat
  BY <1>1
<1>3. Requests(c) \in Nat
  BY <1>1, <1>2 DEF Requests, generate_serial, generate_parallel, generate_saturated, Saturated
<1> QED BY <1>1, <1>3 DEF Workers, Bounded

\* The configuration is read once, and the sizes with it.
LEMMA SameSizes ==
    [Next]_vars =>
        /\ config' = config /\ Bounded' = Bounded
        /\ \A c \in 1..Saturated : Requests(c)' = Requests(c) /\ Workers(c)' = Workers(c)
<1>1. [Next]_vars => config' = config
  BY DEF Next, Main, vars, StartCondition, Submit, Reject, AllOffered, Collect,
         EndCondition, Take, Finish
<1> QED BY <1>1 DEF Bounded, Requests, Workers, generate_serial,
                    generate_parallel, generate_saturated

LEMMA InitInv == Init => Inv
<1> SUFFICES ASSUME Init PROVE Inv
  OBVIOUS
<1>1. config.workers \in Nat \ {0}
  BY PoolAssumption DEF Init, load_config
<1> QED BY <1>1 DEF Inv, TypeOK, IdleInv, LedgerInv, ReportsAddUp, Init, Serial, Saturated

\* The invariant is inductive.
LEMMA StepInv == Inv /\ [Next]_vars => Inv'
<1> SUFFICES ASSUME Inv, [Next]_vars PROVE Inv'
  OBVIOUS
<1> USE DEF Saturated
<1>a. config \in load_config /\ config' = config /\ Bounded' = Bounded
  BY SameSizes DEF Inv, TypeOK
<1>b. \A c \in 1..Saturated :
        /\ Requests(c) \in Nat /\ Workers(c) \in Nat \ {0} /\ Workers(c) <= config.workers
        /\ Requests(c)' = Requests(c) /\ Workers(c)' = Workers(c)
  BY <1>a, SameSizes, Sizes
<1>c. config.workers \in Nat \ {0} /\ (Bounded => config.limit \in Nat)
  BY <1>a, Sizes
<1>d. results' = results => ReportsAddUp'
  BY <1>a DEF Inv, ReportsAddUp, Shed, Bounded, Requests, Workers, generate_serial,
              generate_parallel, generate_saturated
\* The sizes of the current condition change only with the condition.
<1>e. cond' = cond => Requests(cond)' = Requests(cond) /\ Workers(cond)' = Workers(cond)
  BY <1>a DEF Requests, Workers, generate_serial, generate_parallel, generate_saturated
<1>f. cond \in 1..Saturated =>
        /\ Requests(cond) \in Nat /\ Workers(cond) \in Nat \ {0}
        /\ Workers(cond) <= config.workers
  BY <1>b
<1>1. CASE StartCondition
  <2>1. TypeOK' /\ cond \in 1..Saturated /\ cond' = cond /\ phase' = "offer"
    BY <1>a, <1>c, <1>1 DEF StartCondition, FreshPool, Inv, TypeOK
  <2>2. LedgerInv'
    BY <1>a, <1>f, <1>c, <1>e, <1>1, <2>1 DEF StartCondition, FreshPool, LedgerInv, Shed
  <2> QED BY <1>1, <1>d, <2>1, <2>2 DEF StartCondition, Inv, IdleInv
<1>2. CASE Submit
  <2>1. TypeOK' /\ cond \in 1..Saturated /\ cond' = cond /\ phase' = "offer"
    BY <1>a, <1>2 DEF Submit, collector, Inv, TypeOK, LedgerInv
  <2>2. /\ offered' = queued' + running' + finished' + recorded' + rejected'
        /\ offered' <= Requests(cond)' /\ recorded' = 0
        /\ Bounded' => active' = queued' + running' + finished'
    BY <1>a, <1>f, <1>e, <1>2, <2>1 DEF Submit, collector, Inv, TypeOK, LedgerInv
  <2>3. rejected' = Shed(offered, cond)'
    <3>1. CASE Bounded
      <4>1. active = offered - rejected /\ active < Workers(cond) + config.limit
        BY <1>2, <3>1 DEF Submit, max_capacity, Inv, TypeOK, LedgerInv
      <4> QED BY <1>a, <1>f, <1>c, <1>e, <1>2, <2>1, <3>1, <4>1
                 DEF Submit, collector, Inv, TypeOK, LedgerInv, Shed
    <3>2. CASE ~Bounded
      BY <1>a, <1>2, <2>1, <3>2 DEF Submit, collector, Inv, LedgerInv, Shed
    <3> QED BY <3>1, <3>2
  <2>4. LedgerInv'
    BY <2>1, <2>2, <2>3 DEF LedgerInv
  <2> QED BY <1>2, <1>d, <2>1, <2>4 DEF Submit, Inv, IdleInv
<1>3. CASE Reject
  <2>1. cond \in 1..Saturated /\ cond' = cond /\ phase' = "offer" /\ phase = "offer"
    BY <1>3 DEF Reject, Inv, LedgerInv
  <2>a. /\ queued' = queued /\ running' = running /\ finished' = finished
        /\ active' = active /\ recorded' = recorded /\ results' = results
        /\ offered' = offered + 1 /\ rejected' = rejected + 1 /\ offered < Requests(cond)
    BY <1>3 DEF Reject, executor
  <2>2. TypeOK'
    BY <1>a, <2>1, <2>a DEF Inv, TypeOK
  <2>b. /\ offered = queued + running + finished + recorded + rejected
        /\ recorded = 0
        /\ Bounded => active = queued + running + finished
        /\ offered \in Nat /\ queued \in Nat /\ running \in Nat /\ finished \in Nat
        /\ recorded \in Nat /\ rejected \in Nat /\ active \in Nat
    BY <1>c, <2>1 DEF Inv, TypeOK, LedgerInv
  <2>3. /\ offered' = queued' + running' + finished' + recorded' + rejected'
        /\ offered' <= Requests(cond)' /\ recorded' = 0
        /\ Bounded' => active' = queued' + running' + finished'
    <3>1. offered' = queued' + running' + finished' + recorded' + rejected'
      BY <2>a, <2>b
    <3>2. offered' <= Requests(cond)'
      BY <1>e, <1>f, <2>1, <2>a, <2>b
    <3> QED BY <1>a, <2>a, <2>b, <3>1, <3>2
  <2>4. rejected' = Shed(offered, cond)'
    <3>1. Bounded /\ active = offered - rejected /\ active >= Workers(cond) + config.limit
      BY <1>3, <2>b DEF Reject, max_capacity
    <3>2. rejected = offered - (Workers(cond) + config.limit)
      BY <1>f, <1>c, <2>1, <2>b, <3>1 DEF Inv, LedgerInv, Shed
    <3>3. Workers(cond)' = Workers(cond) /\ Workers(cond) \in Nat /\ config.limit \in Nat
      BY <1>c, <1>e, <1>f, <2>1, <3>1
    <3>4. PICK k \in Nat : k = Workers(cond) + config.limit
      BY <3>3
    <3>5. rejected' = offered' - k /\ offered' > k
      BY <2>a, <2>b, <3>2, <3>4
    <3>6. k = Workers(cond)' + config'.limit
      BY <1>a, <3>3, <3>4
    <3> QED BY <1>a, <3>1, <3>5, <3>6 DEF Shed
  <2>5. LedgerInv'
    BY <2>1, <2>3, <2>4 DEF LedgerInv
  <2> QED BY <1>3, <1>d, <2>1, <2>2, <2>5 DEF Reject, Inv, IdleInv
<1>4. CASE AllOffered
  <2>1. TypeOK' /\ LedgerInv'
    BY <1>a, <1>f, <1>c, <1>e, <1>4
       DEF AllOffered, executor, collector, Inv, TypeOK, LedgerInv, Shed
  <2> QED BY <1>4, <1>d, <2>1 DEF AllOffered, Inv, IdleInv
<1>5. CASE Collect
  <2>1. TypeOK' /\ cond \in 1..Saturated /\ cond' = cond /\ phase' = "collect"
    BY <1>a, <1>5 DEF Collect, Inv, TypeOK, LedgerInv
  <2>2. LedgerInv'
    BY <1>a, <1>f, <1>c, <1>e, <1>5, <2>1 DEF Collect, Inv, TypeOK, LedgerInv, Shed
  <2> QED BY <1>5, <1>d, <2>1, <2>2 DEF Collect, Inv, IdleInv
<1>6. CASE EndCondition
  <2>1. /\ cond \in 1..Saturated /\ queued = 0 /\ running = 0 /\ finished = 0
        /\ summary \in [count : Nat, rejected : Nat]
    BY <1>6 DEF EndCondition, Inv, TypeOK, LedgerInv, summary
  <2>2. TypeOK'
    BY <1>a, <1>6, <2>1 DEF EndCondition, executor, collector, Inv, TypeOK
  <2>3. summary.count + summary.rejected = Requests(cond) /\ summary.rejected = Shed(Requests(cond), cond)
    BY <1>f, <1>6, <2>1 DEF EndCondition, Inv, TypeOK, LedgerInv, summary
  <2>4. /\ Len(results') = cond /\ results'[cond] = summary
        /\ \A c \in 1..cond - 1 : results'[c] = results[c]
    BY <1>6, <2>1 DEF EndCondition, Inv, TypeOK
  <2>5. ReportsAddUp'
    <3> SUFFICES ASSUME NEW c \in 1..cond
                 PROVE  /\ results'[c].count + results'[c].rejected = Requests(c)'
                        /\ results'[c].rejected = Shed(Requests(c), c)'
      BY <2>4 DEF ReportsAddUp
    <3>1. Requests(c)' = Requests(c) /\ Shed(Requests(c), c)' = Shed(Requests(c), c)
      BY <1>a DEF Requests, Workers, Shed, Bounded, generate_serial, generate_parallel,
                  generate_saturated
    <3>2. CASE c = cond
      BY <2>3, <2>4, <3>1, <3>2
    <3>3. CASE c # cond
      <4>1. Len(results) = cond - 1 /\ cond \in Nat
        BY <2>1 DEF Inv, TypeOK
      <4>2. c \in 1..cond - 1 /\ c \in 1..Len(results)
        BY <3>3, <4>1
      <4>3. /\ results[c].count + results[c].rejected = Requests(c)
            /\ results[c].rejected = Shed(Requests(c), c)
        BY <4>2 DEF Inv, ReportsAddUp
      <4> QED BY <2>4, <3>1, <4>2, <4>3
    <3> QED BY <3>2, <3>3
  <2> QED BY <1>6, <2>1, <2>2, <2>5 DEF EndCondition, executor, Inv, IdleInv, LedgerInv
<1>7. CASE Take \/ Finish
  <2>1. /\ phase # "start" /\ cond \in 1..Saturated
        /\ cond' = cond /\ phase' = phase /\ offered' = offered
        /\ active' = active /\ recorded' = recorded /\ rejected' = rejected /\ results' = results
    BY <1>7 DEF Take, Finish, collector, Inv, TypeOK, IdleInv, LedgerInv
  <2>2. /\ queued' \in Nat /\ running' \in 0..config.workers /\ finished' \in Nat
        /\ queued' + running' + finished' = queued + running + finished
    <3>1. CASE Take
      BY <1>f, <1>c, <2>1, <3>1 DEF Take, Inv, TypeOK
    <3>2. CASE Finish
      BY <1>c, <3>2 DEF Finish, Inv, TypeOK
    <3> QED BY <1>7, <3>1, <3>2
  <2>3. TypeOK'
    BY <1>a, <2>1, <2>2 DEF Inv, TypeOK
  <2>4. Shed(offered, cond)' = Shed(offered, cond)
    BY <1>a, <1>e, <2>1 DEF Shed
  <2>5. LedgerInv'
    BY <1>a, <1>e, <2>1, <2>2, <2>4 DEF Inv, TypeOK, LedgerInv
  <2> QED BY <1>d, <2>1, <2>3, <2>5 DEF Inv, IdleInv
<1>8. CASE UNCHANGED vars
  <2>1. TypeOK' /\ IdleInv'
    BY <1>8 DEF vars, executor, collector, Inv, TypeOK, IdleInv, load_config
  <2>2. LedgerInv'
    BY <1>a, <1>f, <1>c, <1>e, <1>8 DEF vars, executor, collector, Inv, TypeOK, LedgerInv, Shed
  <2> QED BY <1>8, <1>d, <2>1, <2>2 DEF vars, Inv
<1> QED BY <1>1, <1>2, <1>3, <1>4, <1>5, <1>6, <1>7, <1>8 DEF Next, Main

LEMMA Invariant == Spec => []Inv
BY InitInv, StepInv, PTL DEF Spec

\* The counts of executor and collector never go below zero, for any
\* configuration.
THEOREM TypeCorrect == Spec => []TypeOK
<1>1. Inv => TypeOK
  BY DEF Inv
<1> QED BY <1>1, Invariant, PTL

\* The executor never holds more than workers + max_queue_size requests.
THEOREM BoundHolds == Spec => []InSystemBounded
<1>1. Inv => InSystemBounded
  <2> SUFFICES ASSUME Inv, Bounded, phase # "start"
               PROVE  queued + running <= max_capacity
    BY DEF InSystemBounded
  <2>1. cond \in 1..Saturated /\ config \in load_config
    BY DEF Inv, TypeOK, LedgerInv
  <2>2. Workers(cond) \in Nat /\ config.limit \in Nat
    BY <2>1, Sizes
  <2> QED BY <2>1, <2>2 DEF Inv, TypeOK, LedgerInv, Shed, max_capacity
<1> QED BY <1>1, Invariant, PTL

\* Whatever the schedule, a condition reports each of its requests once and has
\* rejected exactly those beyond its capacity.
THEOREM ReportsCorrect == Spec => []ReportsAddUp
<1>1. Inv => ReportsAddUp
  BY DEF Inv
<1> QED BY <1>1, Invariant, PTL

-----------------------------------------------------------------------------
(* Termination *)

\* How many steps the requests in the executor can still take, at most.
Weight(q, r, f) == 3 * q + 2 * r + f
Held == Weight(queued, running, finished)

\* The same of the whole condition: a request that is still to be offered takes
\* four, and one fewer at every station.
Left ==
    CASE phase = "start"   -> 4 * Requests(cond) + 2
      [] phase = "offer"   -> 4 * (Requests(cond) - offered) + Held + 1
      [] phase = "collect" -> Held

\* A step ends the condition or brings its end nearer.
Advances == cond' = cond + 1 \/ (cond' = cond /\ Left' \in Nat /\ Left \in Nat /\ Left' < Left)

LEMMA Weights ==
    ASSUME NEW q \in Nat, NEW r \in Nat, NEW f \in Nat
    PROVE  /\ Weight(q, r, f) \in Nat
           /\ Weight(q + 1, r, f) = Weight(q, r, f) + 3
           /\ q > 0 => Weight(q - 1, r + 1, f) < Weight(q, r, f)
           /\ r > 0 => Weight(q, r - 1, f + 1) < Weight(q, r, f)
           /\ f > 0 => Weight(q, r, f - 1) < Weight(q, r, f)
BY DEF Weight

\* Nothing that the main thread or the workers do can go on for ever: for any
\* number of workers, requests and places in the queue every step is one of a
\* number that is bounded when the condition starts.
THEOREM StepsAreBounded == Spec => [][Advances]_vars
<1>1. Inv /\ Inv' /\ [Next]_vars => [Advances]_vars
  <2> SUFFICES ASSUME Inv, Inv', Next PROVE Advances
    OBVIOUS
  <2>a. /\ offered \in Nat /\ queued \in Nat /\ running \in Nat /\ finished \in Nat
        /\ offered' \in Nat /\ queued' \in Nat /\ running' \in Nat /\ finished' \in Nat
    <3>1. config.workers \in Nat /\ config'.workers \in Nat
      <4>1. config \in load_config /\ config' = config
        BY SameSizes DEF Inv, TypeOK
      <4> QED BY <4>1, PoolAssumption DEF load_config
    <3> QED BY <3>1 DEF Inv, TypeOK
  <2>b. Held \in Nat /\ Held' \in Nat
    BY <2>a, Weights DEF Held
  <2>c. cond \in 1..Saturated => Requests(cond) \in Nat
    BY Sizes DEF Inv, TypeOK
  <2>d. cond' = cond => Requests(cond)' = Requests(cond)
    BY SameSizes DEF Requests, generate_serial, generate_parallel, generate_saturated
  <2>e. phase # "start" => cond \in 1..Saturated /\ offered <= Requests(cond)
    BY DEF Inv, LedgerInv
  <2>f. phase' # "start" => offered' <= Requests(cond)'
    BY DEF Inv, LedgerInv
  <2>1. CASE StartCondition
    <3>1. /\ phase = "start" /\ phase' = "offer" /\ cond \in 1..Saturated /\ cond' = cond
          /\ offered' = 0 /\ queued' = 0 /\ running' = 0 /\ finished' = 0
      BY <2>1 DEF StartCondition, FreshPool, Inv, TypeOK, Saturated
    <3>2. Held' = 0
      BY <3>1 DEF Held, Weight
    <3>3. Left = 4 * Requests(cond) + 2
      BY <3>1 DEF Left
    <3>4. Left' = 4 * (Requests(cond) - 0) + 0 + 1
      BY <2>d, <3>1, <3>2 DEF Left
    <3>5. Left \in Nat /\ Left' \in Nat /\ Left' < Left
      BY <2>c, <3>1, <3>3, <3>4
    <3> QED BY <3>1, <3>5 DEF Advances
  <2>2. ASSUME phase = "offer", phase' = "offer", cond' = cond,
               \/ offered' = offered + 1 /\ Held' <= Held + 3
               \/ offered' = offered /\ Held' < Held
        PROVE  Advances
    <3>1. cond \in 1..Saturated /\ offered <= Requests(cond) /\ offered' <= Requests(cond)
      BY <2>2, <2>d, <2>e, <2>f
    <3>2. Left = 4 * (Requests(cond) - offered) + Held + 1
      BY <2>2 DEF Left
    <3>3. Left' = 4 * (Requests(cond) - offered') + Held' + 1
      BY <2>2, <2>d DEF Left
    <3>4. Requests(cond) \in Nat
      BY <2>c, <3>1
    <3>5. Left \in Nat /\ Left' \in Nat /\ Left' < Left
      BY <2>2, <2>a, <2>b, <3>1, <3>2, <3>3, <3>4
    <3> QED BY <2>2, <3>5 DEF Advances
  <2>3. CASE Submit \/ Reject
    <3>1. /\ phase = "offer" /\ phase' = "offer" /\ cond' = cond /\ offered' = offered + 1
          /\ queued' \in {queued, queued + 1} /\ running' = running /\ finished' = finished
      BY <2>3 DEF Submit, Reject, executor
    <3>2. Held' = Held \/ Held' = Held + 3
      <4>1. Weight(queued + 1, running, finished) = Weight(queued, running, finished) + 3
        BY <2>a, Weights
      <4>2. CASE queued' = queued
        BY <3>1, <4>2 DEF Held
      <4>3. CASE queued' = queued + 1
        <5>1. Held' = Weight(queued + 1, running, finished)
          BY <3>1, <4>3 DEF Held
        <5> QED BY <4>1, <5>1 DEF Held
      <4> QED BY <3>1, <4>2, <4>3
    <3>3. Held' <= Held + 3
      BY <2>b, <3>2
    <3> QED BY <2>2, <3>1, <3>3
  <2>4. CASE AllOffered
    <3>1. /\ phase = "offer" /\ phase' = "collect" /\ cond' = cond /\ cond \in 1..Saturated
          /\ offered = Requests(cond) /\ UNCHANGED executor
      BY <2>4, <2>e DEF AllOffered
    <3>2. Held' = Held
      BY <3>1 DEF Held, executor
    <3>3. Left = Held + 1
      <4>1. Left = 4 * (Requests(cond) - offered) + Held + 1
        BY <3>1 DEF Left
      <4>2. Requests(cond) - offered = 0
        BY <2>a, <3>1
      <4>3. 4 * (Requests(cond) - offered) = 0
        BY <4>2
      <4> QED BY <2>b, <4>1, <4>3
    <3>4. Left' = Held
      BY <3>1, <3>2 DEF Left
    <3>5. Left \in Nat /\ Left' \in Nat /\ Left' < Left
      BY <2>a, <2>b, <2>c, <3>1, <3>3, <3>4
    <3> QED BY <3>1, <3>5 DEF Advances
  <2>5. ASSUME phase = "collect", phase' = "collect", cond' = cond, Held' < Held
        PROVE  Advances
    <3>1. Left = Held /\ Left' = Held'
      BY <2>5 DEF Left
    <3> QED BY <2>5, <2>b, <3>1 DEF Advances
  <2>6. CASE Collect
    <3>1. Held' < Held
      BY <2>6, <2>a, Weights DEF Collect, Held
    <3> QED BY <2>5, <2>6, <3>1 DEF Collect
  <2>7. CASE EndCondition
    BY <2>7 DEF EndCondition, Advances
  <2>8. CASE Take \/ Finish
    <3>1. phase' = phase /\ cond' = cond /\ offered' = offered
      BY <2>8 DEF Take, Finish
    <3>2. Held' < Held
      BY <2>8, <2>a, Weights DEF Take, Finish, Held
    <3>3. phase \in {"offer", "collect"}
      BY <2>8, <2>a DEF Take, Finish, Inv, TypeOK, IdleInv
    <3> QED BY <2>2, <2>5, <3>1, <3>2, <3>3
  <2> QED BY <2>1, <2>3, <2>4, <2>6, <2>7, <2>8 DEF Next, Main
<1> QED BY <1>1, Invariant, PTL DEF Spec

=============================================================================
