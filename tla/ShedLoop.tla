------------------------------ MODULE ShedLoop ------------------------------
(***************************************************************************)
(* The feedback loop of labs/3-2 with FLOW_CONTROL=on in both processes:    *)
(* the streams of Producer write to the topic, the consumer enqueues and    *)
(* handles, enqueue sets the shed signal, and the streams obey the signal   *)
(* they read through their cache.                                           *)
(*                                                                         *)
(* The topic and the consumer's channel are their lengths, and enqueue and  *)
(* the handler are one step each: the interleavings inside them and the     *)
(* identity of the events are the subject of ConsumerQueue, as is POST      *)
(* /flow, which nobody uses here.                                           *)
(***************************************************************************)
EXTENDS Producer

CONSTANTS QueueMax,   \* CONSUMER_QUEUE_MAX, the capacity of the channel
          MaxBacklog  \* bound: records in the topic not yet polled

VARIABLES backlog,  \* records in the topic that the consumer has not polled
          depth     \* s.queueLen

pipe == <<backlog, depth>>
loopVars == <<vars, pipe>>

HighWater == (QueueMax * 8) \div 10

LoopInit ==
  /\ Init
  /\ flowOn = TRUE
  /\ backlog = 0 /\ depth = 0

\* kafka.Produce: acknowledged, the record is in the topic ...
EmitOk(s) ==
  /\ Emit(s)
  /\ backlog < MaxBacklog
  /\ backlog' = backlog + 1
  /\ UNCHANGED depth

\* ... or an error, which the stream only counts.
EmitFails(s) == Emit(s) /\ UNCHANGED pipe

\* enqueue under flow control: the signal follows the depth found, and a full
\* channel loses its oldest event to the one enqueued.
Enqueue ==
  /\ backlog > 0
  /\ backlog' = backlog - 1
  /\ depth' = IF depth < QueueMax THEN depth + 1 ELSE depth
  /\ consumerShed' = (depth >= HighWater)
  /\ sinceShed' = IF consumerShed' # consumerShed THEN 0 ELSE sinceShed
  /\ UNCHANGED <<flowOn, control, sPc, cache>>

\* runHandlers takes an event and handles it.
Handle ==
  /\ depth > 0
  /\ depth' = depth - 1
  /\ UNCHANGED <<vars, backlog>>

\* What the streams do besides emitting, the requests and the clock.
ProducerOther ==
  /\ \/ Stop
     \/ \E h \in Handlers : BeginStart(h) \/ FinishStart(h)
     \/ \E s \in Streams : SeeCancelled(s) \/ Expire(s) \/ TickerFires(s)
                           \/ Exit(s) \/ Ask(s) \/ Request(s)
     \/ Tick
  /\ UNCHANGED pipe

LoopNext ==
  \/ ProducerOther
  \/ \E s \in Streams : EmitOk(s) \/ EmitFails(s)
  \/ Enqueue
  \/ Handle

LoopSpec == LoopInit /\ [][LoopNext]_loopVars

\* Both processes keep running and the clock advances.
LoopFairness ==
  /\ WF_loopVars(Enqueue)
  /\ WF_loopVars(Handle)
  /\ WF_loopVars(Tick /\ UNCHANGED pipe)
  /\ \A s \in Streams :
       /\ WF_loopVars(TickerFires(s) /\ UNCHANGED pipe)
       /\ WF_loopVars(EmitOk(s))
       /\ WF_loopVars(Exit(s) /\ UNCHANGED pipe)
       /\ WF_loopVars((Answer(s) \/ Refreshed(s)) /\ UNCHANGED pipe)
       /\ SF_loopVars(Ask(s) /\ UNCHANGED pipe)
       /\ SF_loopVars(SeeCancelled(s) /\ UNCHANGED pipe)

LoopFairSpec == LoopSpec /\ LoopFairness

-----------------------------------------------------------------------------
\* The consumer's header: "/state exposes shed:true while the queue is above
\* the high-water mark" (main.go:27).  So a stream that asks while the consumer
\* is idle, its queue drained and the topic read, is in the end let through.
IdleConsumerAdmits ==
  \A s \in Streams :
    (sPc[s] = "ask" /\ depth = 0 /\ backlog = 0)
      ~> (sPc[s] \in {"produce", "exit", "done"})
=============================================================================
