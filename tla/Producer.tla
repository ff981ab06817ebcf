------------------------------ MODULE Producer ------------------------------
(***************************************************************************)
(* The event generator of labs/3-2 (cmd/producer/main.go): POST /start and  *)
(* POST /stop create and cancel streams, each a goroutine of its own; every *)
(* tick a stream asks the consumer, through a cache that all streams share, *)
(* whether to shed.  A stream's emissions are left to module ShedLoop.      *)
(*                                                                         *)
(* A stream is the number of the /start that created it; stream s owns the  *)
(* context that cancelFn = s cancels.  The cache is fresh for FreshTicks    *)
(* (200 ms).  The consumer is its shed signal, which may change any time.   *)
(***************************************************************************)
EXTENDS Naturals, FiniteSets

CONSTANTS Handlers,    \* goroutines that serve POST /start
          MaxStreams,  \* bound: streams ever created
          FreshTicks   \* how long the cached verdict is used

ASSUME ProducerAssumption ==
  /\ MaxStreams \in Nat
  /\ FreshTicks \in Nat \ {0}

Streams == 1..MaxStreams
None == 0   \* a nil cancelFn, an unlocked cache

VARIABLES
  flowOn,       \* p.flowOn, fixed at start-up
  cancelFn,     \* p.cancelFn: the stream it cancels, or None
  running,      \* p.running, what GET /state reports
  hPc,          \* where each handler is in handleStart
  created,      \* number of streams created
  ctxDone,      \* streams whose context is cancelled
  sPc,          \* where each stream is in runStream
  cacheAge,     \* time since shedCacheAt, saturating at FreshTicks
  cacheVal,     \* shedCacheVal
  cacheLock,    \* the stream that holds shedCacheMu, or None
  reply,        \* the answer to its request, on its way
  consumerShed, \* what the consumer's GET /state shows
  sinceShed,    \* history: time since that was TRUE, saturating
  overlapped    \* history: two /start were between their critical sections

control == <<cancelFn, running, hPc, created, ctxDone, overlapped>>
cache == <<cacheAge, cacheVal, cacheLock, reply>>
consumer == <<consumerShed, sinceShed>>
vars == <<flowOn, control, sPc, cache, consumer>>

Init ==
  /\ flowOn \in BOOLEAN
  /\ cancelFn = None /\ running = FALSE
  /\ hPc = [h \in Handlers |-> "idle"]
  /\ created = 0 /\ ctxDone = {}
  /\ sPc = [s \in Streams |-> "none"]
  /\ cacheAge = FreshTicks /\ cacheVal = FALSE
  /\ cacheLock = None /\ reply = FALSE
  /\ consumerShed = FALSE /\ sinceShed = FreshTicks
  /\ overlapped = FALSE

-----------------------------------------------------------------------------
(* POST /start and POST /stop.                                             *)

\* Slip: the cancel function is forgotten without being called.
StopStreamForgetting ==
  /\ cancelFn' = None
  /\ running' = FALSE
  /\ UNCHANGED ctxDone

\* Slip: the cancel function is called without the test for nil.
StopStreamUnchecked ==
  /\ ctxDone' = ctxDone \cup {cancelFn}
  /\ cancelFn' = None
  /\ running' = FALSE

\* stopStream, one critical section of p.mu.
StopStream ==
  /\ ctxDone' = ctxDone \cup ({cancelFn} \ {None})
  /\ cancelFn' = None
  /\ running' = FALSE

Stop ==
  /\ StopStream
  /\ UNCHANGED <<flowOn, hPc, created, overlapped, sPc, cache, consumer>>

\* handleStart stops the current stream ...
BeginStart(h) ==
  /\ hPc[h] = "idle"
  /\ created < MaxStreams
  /\ StopStream
  /\ hPc' = [hPc EXCEPT ![h] = "stopped"]
  /\ overlapped' = (overlapped \/ \E k \in Handlers \ {h} : hPc[k] = "stopped")
  /\ UNCHANGED <<flowOn, created, sPc, cache, consumer>>

\* ... releases the lock, takes it again and starts its own.
FinishStart(h) ==
  /\ hPc[h] = "stopped"
  /\ created < MaxStreams
  /\ created' = created + 1
  /\ cancelFn' = created'
  /\ running' = TRUE
  /\ sPc' = [sPc EXCEPT ![created'] = "loop"]
  /\ hPc' = [hPc EXCEPT ![h] = "idle"]
  /\ UNCHANGED <<flowOn, ctxDone, overlapped, cache, consumer>>

-----------------------------------------------------------------------------
(* runStream: the loop.                                                    *)

Goto(s, l) == sPc' = [sPc EXCEPT ![s] = l]

\* The select takes ctx.Done.
SeeCancelled(s) ==
  /\ sPc[s] = "loop"
  /\ s \in ctxDone
  /\ Goto(s, "exit")
  /\ UNCHANGED <<flowOn, control, cache, consumer>>

\* duration_s is over.
Expire(s) ==
  /\ sPc[s] = "loop"
  /\ Goto(s, "exit")
  /\ UNCHANGED <<flowOn, control, cache, consumer>>

\* The select takes the ticker, even when ctx.Done is ready too.
TickerFires(s) ==
  /\ sPc[s] = "loop"
  /\ Goto(s, IF flowOn THEN "ask" ELSE "produce")
  /\ UNCHANGED <<flowOn, control, cache, consumer>>

\* kafka.Produce returns, with or without an error.
Emit(s) ==
  /\ sPc[s] = "produce"
  /\ Goto(s, "loop")
  /\ UNCHANGED <<flowOn, control, cache, consumer>>

\* Slip: the goroutine ends without its deferred store.
ExitSilently(s) ==
  /\ sPc[s] = "exit"
  /\ Goto(s, "done")
  /\ UNCHANGED <<flowOn, control, cache, consumer>>

\* The deferred running.Store(false), whichever stream is current by now.
Exit(s) ==
  /\ sPc[s] = "exit"
  /\ running' = FALSE
  /\ Goto(s, "done")
  /\ UNCHANGED <<flowOn, cancelFn, hPc, created, ctxDone, overlapped, cache,
                 consumer>>

-----------------------------------------------------------------------------
(* shouldShed.                                                             *)

\* A stream told to shed skips this tick.
Verdict(s, v) == Goto(s, IF v THEN "loop" ELSE "produce")

CacheHit(s) ==
  /\ sPc[s] = "ask"
  /\ cacheLock = None
  /\ cacheAge < FreshTicks
  /\ Verdict(s, cacheVal)
  /\ UNCHANGED <<flowOn, control, cache, consumer>>

\* The cache is stale: the stream locks it, marks it fresh and sends GET
\* /state.  The lock is held until the request is over.
StartRefresh(s) ==
  /\ sPc[s] = "ask"
  /\ cacheLock = None
  /\ cacheAge >= FreshTicks
  /\ cacheLock' = s
  /\ cacheAge' = 0
  /\ Goto(s, "get")
  /\ UNCHANGED <<flowOn, control, cacheVal, reply, consumer>>

\* The consumer serves the request.
Answer(s) ==
  /\ sPc[s] = "get"
  /\ reply' = consumerShed
  /\ Goto(s, "answered")
  /\ UNCHANGED <<flowOn, control, cacheAge, cacheVal, cacheLock, consumer>>

\* Slip: the cache counts as fresh from the arrival of the answer.
RefreshedLate(s) ==
  /\ sPc[s] = "answered"
  /\ cacheVal' = reply
  /\ cacheAge' = 0
  /\ cacheLock' = None
  /\ reply' = FALSE
  /\ Verdict(s, reply)
  /\ UNCHANGED <<flowOn, control, consumer>>

Refreshed(s) ==
  /\ sPc[s] = "answered"
  /\ cacheVal' = reply
  /\ cacheLock' = None
  /\ reply' = FALSE
  /\ Verdict(s, reply)
  /\ UNCHANGED <<flowOn, control, cacheAge, consumer>>

\* Slip: an error return that leaves the cache locked.
RefreshFailsLocked(s) ==
  /\ sPc[s] \in {"get", "answered"}
  /\ cacheVal' = FALSE
  /\ reply' = FALSE
  /\ Verdict(s, FALSE)
  /\ UNCHANGED <<flowOn, control, cacheAge, cacheLock, consumer>>

\* The request fails, the context is cancelled or the body does not parse:
\* all streams go on unshed until the cache is stale again.
RefreshFails(s) ==
  /\ sPc[s] \in {"get", "answered"}
  /\ cacheVal' = FALSE
  /\ cacheLock' = None
  /\ reply' = FALSE
  /\ Verdict(s, FALSE)
  /\ UNCHANGED <<flowOn, control, cacheAge, consumer>>

-----------------------------------------------------------------------------
(* The environment: the clock and the consumer's signal.                   *)

TickOf(n) == IF n < FreshTicks THEN n + 1 ELSE n

Tick ==
  /\ cacheAge' = TickOf(cacheAge)
  /\ sinceShed' = IF consumerShed THEN 0 ELSE TickOf(sinceShed)
  /\ UNCHANGED <<flowOn, control, sPc, cacheVal, cacheLock, reply, consumerShed>>

ConsumerSignals ==
  /\ consumerShed' = ~consumerShed
  /\ sinceShed' = 0
  /\ UNCHANGED <<flowOn, control, sPc, cache>>

-----------------------------------------------------------------------------
Ask(s) == CacheHit(s) \/ StartRefresh(s)
Request(s) == Answer(s) \/ Refreshed(s) \/ RefreshFails(s)
StreamStep(s) == SeeCancelled(s) \/ Expire(s) \/ TickerFires(s) \/ Emit(s)
                 \/ Exit(s) \/ Ask(s) \/ Request(s)

Next ==
  \/ Stop
  \/ \E h \in Handlers : BeginStart(h) \/ FinishStart(h)
  \/ \E s \in Streams : StreamStep(s)
  \/ Tick
  \/ ConsumerSignals

Spec == Init /\ [][Next]_vars

\* The goroutines run; Go's select chooses among ready cases at random, so it
\* does not pass over ctx.Done for ever, and its mutexes do not starve a
\* waiter.  The consumer answers or the request fails: the code relies on it,
\* as http.DefaultClient has no timeout.  No stream need expire.
Fairness ==
  \A s \in Streams :
    /\ WF_vars(TickerFires(s)) /\ WF_vars(Emit(s)) /\ WF_vars(Exit(s))
    /\ WF_vars(Request(s))
    /\ SF_vars(Ask(s))
    /\ SF_vars(SeeCancelled(s))

FairSpec == Spec /\ Fairness

-----------------------------------------------------------------------------
\* Types of the state.
TypeOK ==
  /\ flowOn \in BOOLEAN
  /\ cancelFn \in {None} \cup Streams
  /\ running \in BOOLEAN
  /\ hPc \in [Handlers -> {"idle", "stopped"}]
  /\ created \in 0..MaxStreams
  /\ ctxDone \subseteq Streams
  /\ sPc \in [Streams -> {"none", "loop", "ask", "get", "answered", "produce",
                          "exit", "done"}]
  /\ cacheAge \in 0..FreshTicks /\ cacheVal \in BOOLEAN
  /\ cacheLock \in {None} \cup Streams /\ reply \in BOOLEAN
  /\ consumerShed \in BOOLEAN /\ sinceShed \in 0..FreshTicks
  /\ overlapped \in BOOLEAN

Alive(s) == sPc[s] \notin {"none", "exit", "done"}

\* The streams that no POST /stop can reach any more.
Orphans == {s \in Streams : Alive(s) /\ s \notin ctxDone /\ cancelFn # s}

\* A stream escapes its cancel function only if two POST /start overlapped
\* between the two critical sections of handleStart.
OrphansOnlyFromOverlap == Orphans # {} => overlapped

\* When GET /state reports a running stream there is one: the last stream
\* created has not finished.
RunningIsReal == running => created > 0 /\ sPc[created] # "done"

\* A request to shed that is served from the cache was withdrawn by the consumer
\* no longer ago than the cache may live, however slow its answer was.  (The stream
\* that asked obeys its own answer however old that is: nothing in the code bounds it.)
ShedVerdictIsRecent ==
  cacheLock = None /\ cacheAge < FreshTicks /\ cacheVal => sinceShed < FreshTicks

\* A cancelled stream ends, also one that waits for the cache behind the
\* request of another stream.
CancelledEnds == \A s \in Streams : s \in ctxDone ~> sPc[s] = "done"

=============================================================================
