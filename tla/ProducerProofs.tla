---------------------------- MODULE ProducerProofs ----------------------------
(***************************************************************************)
(* What holds of the event producer of lab 3-2 for any number of request   *)
(* handlers and streams, and any lifetime of the shed cache.               *)
(***************************************************************************)
EXTENDS ShedLoop, TLAPS

\* The two critical sections of handleStart, as far as they can be told apart: of
\* those that did not overlap one at most is between them, and no stream is
\* current then; a stream that may go on is the current one.
StartInv ==
  /\ \A s \in Streams : s > created => sPc[s] = "none"
  /\ ~overlapped =>
       /\ \A h, k \in Handlers : hPc[h] = "stopped" /\ hPc[k] = "stopped" => h = k
       /\ \A h \in Handlers : hPc[h] = "stopped" => cancelFn = None
       /\ \A s \in Streams : Alive(s) /\ s \notin ctxDone => cancelFn = s

\* The cache is locked by the stream whose request is under way.
LockInv == \A s \in Streams : sPc[s] \in {"get", "answered"} => cacheLock = s

\* An answer is not older than the mark of its request, and neither is the
\* verdict that was made from it.
AgeInv ==
  /\ consumerShed => sinceShed = 0
  /\ cacheLock = None => ~reply
  /\ reply => sinceShed <= cacheAge
  /\ cacheLock = None /\ cacheVal => sinceShed <= cacheAge

-----------------------------------------------------------------------------
(* Types *)

LEMMA StreamTypes ==
  ASSUME TypeOK, NEW s \in Streams, StreamStep(s)
  PROVE  TypeOK'
<1> USE ProducerAssumption
<1>1. CASE SeeCancelled(s) \/ Expire(s) \/ TickerFires(s) \/ Emit(s)
  BY <1>1 DEF SeeCancelled, Expire, TickerFires, Emit, Goto, control, cache, consumer, TypeOK
<1>2. CASE Exit(s)
  BY <1>2 DEF Exit, Goto, cache, consumer, TypeOK
<1>3. CASE Ask(s)
  BY <1>3 DEF Ask, CacheHit, StartRefresh, Verdict, Goto, control, cache, consumer, TypeOK
<1>4. CASE Request(s)
  BY <1>4 DEF Request, Answer, Refreshed, RefreshFails, Verdict, Goto, control, consumer,
              TypeOK, None
<1> QED BY <1>1, <1>2, <1>3, <1>4 DEF StreamStep

LEMMA TypeStep == TypeOK /\ [Next]_vars => TypeOK'
<1> SUFFICES ASSUME TypeOK, [Next]_vars PROVE TypeOK'
  OBVIOUS
<1> USE ProducerAssumption
<1>1. CASE Stop
  BY <1>1 DEF Stop, StopStream, cache, consumer, TypeOK, None
<1>2. ASSUME NEW h \in Handlers, BeginStart(h) PROVE TypeOK'
  BY <1>2 DEF BeginStart, StopStream, cache, consumer, TypeOK, None
<1>3. ASSUME NEW h \in Handlers, FinishStart(h) PROVE TypeOK'
  <2>1. created' \in Streams /\ created' \in 0..MaxStreams
    BY <1>3 DEF FinishStart, TypeOK, Streams
  <2> QED BY <1>3, <2>1 DEF FinishStart, cache, consumer, TypeOK
<1>4. ASSUME NEW s \in Streams, StreamStep(s) PROVE TypeOK'
  BY <1>4, StreamTypes
<1>5. CASE Tick
  BY <1>5 DEF Tick, TickOf, control, TypeOK
<1>6. CASE ConsumerSignals
  BY <1>6 DEF ConsumerSignals, control, cache, TypeOK
<1>7. CASE UNCHANGED vars
  BY <1>7 DEF vars, control, cache, consumer, TypeOK
<1> QED BY <1>1, <1>2, <1>3, <1>4, <1>5, <1>6, <1>7 DEF Next

LEMMA InitTypes == Init => TypeOK
<1> SUFFICES ASSUME Init PROVE TypeOK
  OBVIOUS
<1>1. created \in 0..MaxStreams /\ cacheAge \in 0..FreshTicks /\ sinceShed \in 0..FreshTicks
  BY ProducerAssumption DEF Init
<1> QED BY <1>1 DEF Init, TypeOK

\* Types of the state, for any number of handlers and streams.
THEOREM TypeCorrect == Spec => []TypeOK
BY InitTypes, TypeStep, PTL DEF Spec

-----------------------------------------------------------------------------
(* Starting and stopping *)

\* What a stream does to the state that the handlers share: it ends by itself,
\* and its last action withdraws running.
LEMMA StreamControl ==
  ASSUME TypeOK, NEW s \in Streams, StreamStep(s)
  PROVE  /\ UNCHANGED <<cancelFn, hPc, created, ctxDone, overlapped>>
         /\ \A t \in Streams : Alive(t)' => Alive(t)
         /\ \A t \in Streams : sPc[t] = "none" => sPc'[t] = "none"
         /\ running' => running /\ \A t \in Streams : sPc'[t] = "done" => sPc[t] = "done"
<1>1. CASE SeeCancelled(s) \/ Expire(s) \/ TickerFires(s) \/ Emit(s)
  BY <1>1 DEF SeeCancelled, Expire, TickerFires, Emit, Goto, control, Alive, TypeOK
<1>2. CASE Exit(s)
  BY <1>2 DEF Exit, Goto, Alive, TypeOK
<1>3. CASE Ask(s)
  BY <1>3 DEF Ask, CacheHit, StartRefresh, Verdict, Goto, control, Alive, TypeOK
<1>4. CASE Request(s)
  BY <1>4 DEF Request, Answer, Refreshed, RefreshFails, Verdict, Goto, control, Alive, TypeOK
<1> QED BY <1>1, <1>2, <1>3, <1>4 DEF StreamStep

LEMMA StartStep == TypeOK /\ StartInv /\ [Next]_vars => StartInv'
<1> SUFFICES ASSUME TypeOK, StartInv, [Next]_vars PROVE StartInv'
  OBVIOUS
<1> USE ProducerAssumption
<1>1. CASE Stop
  BY <1>1 DEF Stop, StopStream, StartInv, Alive
<1>2. ASSUME NEW h \in Handlers, BeginStart(h) PROVE StartInv'
  <2>1. ~overlapped' => ~overlapped /\ \A k \in Handlers : hPc[k] = "stopped" => k = h
    BY <1>2 DEF BeginStart
  <2>2. ~overlapped' => \A s \in Streams : Alive(s) => s \in ctxDone'
    BY <1>2, <2>1 DEF BeginStart, StopStream, StartInv, Streams, None
  <2>3. \A k \in Handlers : hPc'[k] = "stopped" => hPc[k] = "stopped" \/ k = h
    BY <1>2 DEF BeginStart, TypeOK
  <2> QED BY <1>2, <2>1, <2>2, <2>3 DEF BeginStart, StopStream, StartInv, Alive
<1>3. ASSUME NEW h \in Handlers, FinishStart(h) PROVE StartInv'
  <2>1. created' \in Streams /\ created' > created /\ created' = created + 1
    BY <1>3 DEF FinishStart, TypeOK, Streams
  <2>2. \A s \in Streams : s # created' => sPc'[s] = sPc[s]
    BY <1>3, <2>1 DEF FinishStart, TypeOK
  <2>3. \A s \in Streams : s > created' => sPc'[s] = "none"
    BY <2>1, <2>2 DEF StartInv, TypeOK, Streams
  <2>4. ~overlapped => \A s \in Streams : Alive(s) => s \in ctxDone
    BY <1>3 DEF FinishStart, StartInv, Streams, None
  <2>5. ~overlapped => \A k \in Handlers : hPc'[k] # "stopped"
    BY <1>3 DEF FinishStart, StartInv, TypeOK
  <2>6. ~overlapped => \A s \in Streams : Alive(s)' /\ s \notin ctxDone' => cancelFn' = s
    BY <1>3, <2>1, <2>2, <2>4 DEF FinishStart, Alive
  <2> QED BY <1>3, <2>3, <2>5, <2>6 DEF FinishStart, StartInv
<1>4. ASSUME NEW s \in Streams, StreamStep(s) PROVE StartInv'
  BY <1>4, StreamControl DEF StartInv
<1>5. CASE Tick \/ ConsumerSignals \/ UNCHANGED vars
  BY <1>5 DEF Tick, ConsumerSignals, vars, control, StartInv, Alive
<1> QED BY <1>1, <1>2, <1>3, <1>4, <1>5 DEF Next

LEMMA RunningStep == TypeOK /\ RunningIsReal /\ [Next]_vars => RunningIsReal'
<1> SUFFICES ASSUME TypeOK, RunningIsReal, [Next]_vars PROVE RunningIsReal'
  OBVIOUS
<1> USE ProducerAssumption
<1>1. CASE Stop
  BY <1>1 DEF Stop, StopStream, RunningIsReal
<1>2. ASSUME NEW h \in Handlers, BeginStart(h) PROVE RunningIsReal'
  BY <1>2 DEF BeginStart, StopStream, RunningIsReal
<1>3. ASSUME NEW h \in Handlers, FinishStart(h) PROVE RunningIsReal'
  <2>1. created' \in Streams /\ created' > 0
    BY <1>3 DEF FinishStart, TypeOK, Streams
  <2>2. sPc'[created'] = "loop"
    BY <1>3, <2>1 DEF FinishStart, TypeOK
  <2> QED BY <2>1, <2>2 DEF RunningIsReal
<1>4. ASSUME NEW s \in Streams, StreamStep(s) PROVE RunningIsReal'
  <2>1. created > 0 => created \in Streams
    BY DEF TypeOK, Streams
  <2> QED BY <1>4, <2>1, StreamControl DEF RunningIsReal
<1>5. CASE Tick \/ ConsumerSignals \/ UNCHANGED vars
  BY <1>5 DEF Tick, ConsumerSignals, vars, control, RunningIsReal
<1> QED BY <1>1, <1>2, <1>3, <1>4, <1>5 DEF Next

LEMMA InitStart == Init => TypeOK /\ StartInv /\ RunningIsReal
BY InitTypes DEF Init, StartInv, RunningIsReal, Alive

\* Unless two POST /start overlap between the two critical sections of
\* handleStart, POST /stop reaches every stream, however many there are.
THEOREM StopReaches == Spec => []OrphansOnlyFromOverlap
<1>1. StartInv => OrphansOnlyFromOverlap
  BY DEF StartInv, OrphansOnlyFromOverlap, Orphans
<1> QED BY <1>1, InitStart, TypeStep, StartStep, PTL DEF Spec

\* GET /state reports no stream as running that has finished, although the
\* goroutines of old streams end at any time after their successors began.
THEOREM RunningHolds == Spec => []RunningIsReal
BY InitStart, TypeStep, RunningStep, PTL DEF Spec

-----------------------------------------------------------------------------
(* The shed cache *)

LEMMA LockStep == TypeOK /\ LockInv /\ [Next]_vars => LockInv'
<1> SUFFICES ASSUME TypeOK, LockInv, [Next]_vars PROVE LockInv'
  OBVIOUS
<1> USE ProducerAssumption
<1>1. ASSUME NEW h \in Handlers, BeginStart(h) PROVE LockInv'
  BY <1>1 DEF BeginStart, cache, LockInv
<1>2. ASSUME NEW h \in Handlers, FinishStart(h) PROVE LockInv'
  <2>1. created' \in Streams
    BY <1>2 DEF FinishStart, TypeOK, Streams
  <2> QED BY <1>2, <2>1 DEF FinishStart, cache, LockInv, TypeOK
<1>3. ASSUME NEW s \in Streams, StreamStep(s) PROVE LockInv'
  <2>1. CASE SeeCancelled(s) \/ Expire(s) \/ TickerFires(s) \/ Emit(s)
    BY <2>1 DEF SeeCancelled, Expire, TickerFires, Emit, Goto, cache, LockInv, TypeOK
  <2>2. CASE Exit(s)
    BY <2>2 DEF Exit, Goto, cache, LockInv, TypeOK
  <2>3. CASE Ask(s)
    BY <2>3 DEF Ask, CacheHit, StartRefresh, Verdict, Goto, cache, LockInv, TypeOK,
                Streams, None
  <2>4. CASE Request(s)
    BY <2>4 DEF Request, Answer, Refreshed, RefreshFails, Verdict, Goto, LockInv, TypeOK
  <2> QED BY <1>3, <2>1, <2>2, <2>3, <2>4 DEF StreamStep
<1>4. CASE Stop \/ Tick \/ ConsumerSignals \/ UNCHANGED vars
  BY <1>4 DEF Stop, Tick, ConsumerSignals, vars, cache, LockInv
<1> QED BY <1>1, <1>2, <1>3, <1>4 DEF Next

LEMMA AgeStep == TypeOK /\ LockInv /\ AgeInv /\ [Next]_vars => AgeInv'
<1> SUFFICES ASSUME TypeOK, LockInv, AgeInv, [Next]_vars PROVE AgeInv'
  OBVIOUS
<1> USE ProducerAssumption
<1>1. ASSUME NEW s \in Streams, StreamStep(s) PROVE AgeInv'
  <2>1. CASE SeeCancelled(s) \/ Expire(s) \/ TickerFires(s) \/ Emit(s) \/ Exit(s)
    BY <2>1 DEF SeeCancelled, Expire, TickerFires, Emit, Exit, cache, consumer, AgeInv
  <2>2. CASE Ask(s)
    BY <2>2 DEF Ask, CacheHit, StartRefresh, cache, consumer, AgeInv, Streams, None
  <2>3. CASE Request(s)
    <3>1. cacheLock = s /\ s # None
      <4>1. sPc[s] \in {"get", "answered"}
        BY <2>3 DEF Request, Answer, Refreshed, RefreshFails
      <4>2. s # None
        BY DEF Streams, None
      <4> QED BY <4>1, <4>2 DEF LockInv
    <3>2. CASE Answer(s)
      <4>1. cacheAge \in 0..FreshTicks
        BY DEF TypeOK
      <4>2. 0 <= cacheAge
        BY <4>1
      <4> QED BY <3>1, <3>2, <4>2 DEF Answer, consumer, AgeInv
    <3>3. CASE Refreshed(s) \/ RefreshFails(s)
      <4>1. reply' = FALSE /\ UNCHANGED <<cacheAge, consumerShed, sinceShed>>
        BY <3>3 DEF Refreshed, RefreshFails, consumer
      <4>2. cacheVal' => reply
        BY <3>3 DEF Refreshed, RefreshFails
      <4> QED BY <4>1, <4>2 DEF AgeInv
    <3> QED BY <2>3, <3>2, <3>3 DEF Request
  <2> QED BY <1>1, <2>1, <2>2, <2>3 DEF StreamStep
<1>2. CASE Tick
  BY <1>2 DEF Tick, TickOf, AgeInv, TypeOK
<1>3. CASE ConsumerSignals
  BY <1>3 DEF ConsumerSignals, cache, AgeInv, TypeOK
<1>4. CASE UNCHANGED <<cache, consumer>>
  BY <1>4 DEF cache, consumer, AgeInv
<1>5. ASSUME NEW h \in Handlers, BeginStart(h) \/ FinishStart(h)
      PROVE  UNCHANGED <<cache, consumer>>
  BY <1>5 DEF BeginStart, FinishStart
<1>6. Stop \/ UNCHANGED vars => UNCHANGED <<cache, consumer>>
  BY DEF Stop, vars
<1> QED BY <1>1, <1>2, <1>3, <1>4, <1>5, <1>6 DEF Next

LEMMA InitCache == Init => TypeOK /\ LockInv /\ AgeInv
BY InitTypes DEF Init, LockInv, AgeInv

\* Whatever the lifetime of the cache and however slow the answers, the cache serves
\* no request to shed that was withdrawn for longer than it may live.
THEOREM VerdictsAreRecent == Spec => []ShedVerdictIsRecent
<1>1. TypeOK /\ AgeInv => ShedVerdictIsRecent
  BY ProducerAssumption DEF TypeOK, AgeInv, ShedVerdictIsRecent
<1> QED BY <1>1, InitCache, TypeStep, LockStep, AgeStep, PTL DEF Spec

-----------------------------------------------------------------------------
(* The feedback loop *)

\* In the loop the consumer's signal changes when an enqueue finds the depth on
\* the other side of the high-water mark, and the producer's own actions change
\* nothing of the topic and the queue.
LEMMA LoopStep == TypeOK /\ [LoopNext]_loopVars => [Next]_vars
<1> SUFFICES ASSUME TypeOK, [LoopNext]_loopVars PROVE [Next]_vars
  OBVIOUS
<1>1. CASE ProducerOther
  <2>1. CASE Stop \/ Tick \/ (\E h \in Handlers : BeginStart(h) \/ FinishStart(h))
    BY <2>1 DEF Next
  <2>2. CASE \E s \in Streams : SeeCancelled(s) \/ Expire(s) \/ TickerFires(s)
                                \/ Exit(s) \/ Ask(s) \/ Request(s)
    BY <2>2 DEF Next, StreamStep
  <2> QED BY <1>1, <2>1, <2>2 DEF ProducerOther
<1>2. ASSUME NEW s \in Streams, EmitOk(s) \/ EmitFails(s) PROVE Next
  BY <1>2 DEF EmitOk, EmitFails, Next, StreamStep
<1>3. CASE Enqueue
  <2>1. /\ consumerShed \in BOOLEAN /\ consumerShed' \in BOOLEAN
        /\ sinceShed' = IF consumerShed' # consumerShed THEN 0 ELSE sinceShed
        /\ UNCHANGED <<flowOn, control, sPc, cache>>
    BY <1>3 DEF Enqueue, TypeOK
  <2>2. CASE consumerShed' = consumerShed
    BY <2>1, <2>2 DEF vars, consumer
  <2>3. CASE consumerShed' # consumerShed
    BY <2>1, <2>3 DEF ConsumerSignals, Next
  <2> QED BY <2>2, <2>3
<1>4. CASE Handle
  BY <1>4 DEF Handle
<1>5. CASE UNCHANGED loopVars
  BY <1>5 DEF loopVars
<1> QED BY <1>1, <1>2, <1>3, <1>4, <1>5 DEF LoopNext

\* The closed loop implements the producer alone, whose shed signal may change at
\* any time: every step of the streams, of the topic and of the consumer is a step
\* of Producer or leaves it alone.
THEOREM LoopImplementsProducer == LoopSpec => Spec
<1>1. LoopInit => Init
  BY DEF LoopInit
<1> QED BY <1>1, InitTypes, LoopStep, TypeStep, PTL DEF LoopSpec, Spec

\* So what holds of the producer alone holds in the loop: of the orphans, of the
\* reported state and of the age of the verdicts in the cache.
THEOREM LoopKeepsPromises ==
  LoopSpec => [](OrphansOnlyFromOverlap /\ RunningIsReal /\ ShedVerdictIsRecent)
BY LoopImplementsProducer, StopReaches, RunningHolds, VerdictsAreRecent, PTL

=============================================================================
