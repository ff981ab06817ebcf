---------------------------- MODULE ConsumerQueue ----------------------------
(***************************************************************************)
(* The consumer of labs/3-2 (cmd/consumer/main.go): one goroutine polls the *)
(* events topic and enqueues into a Go channel, a second one takes events   *)
(* out of the channel and writes them to Postgres, HTTP handlers switch     *)
(* flow control, and the process may crash and be started again.            *)
(*                                                                         *)
(* The channel and the counter queueLen that the code keeps beside it are   *)
(* separate: the goroutines update them in separate steps, and every such   *)
(* step is one action.  An event is its offset in the topic, 1..MaxEvents   *)
(* (one partition; the order between partitions is not promised by Kafka).  *)
(* Which table an event is written to is left to module AuditTables.        *)
(***************************************************************************)
EXTENDS Integers, Sequences, FiniteSets

CONSTANTS MaxEvents,   \* bound: events ever produced to the topic
          BadEvents,   \* records that do not parse as an event
          QueueMax,    \* CONSUMER_QUEUE_MAX
          QueueGuard,  \* ASYNC_MAX_QUEUE_GUARD
          MaxCrashes   \* bound: crashes of the process

ASSUME ConsumerAssumption ==
  /\ MaxEvents \in Nat
  /\ BadEvents \subseteq 1..MaxEvents
  /\ QueueMax \in Nat \ {0}
  /\ QueueGuard \in Nat \ {0}
  /\ MaxCrashes \in Nat

Events == 1..MaxEvents

\* The group has not committed an offset yet.
NoCommit == -1

VARIABLES
  \* the broker
  logEnd,     \* number of events in the topic
  committed,  \* offset committed by the group, or NoCommit
  \* the environment and the configuration of the process
  bootFlow,   \* FLOW_CONTROL=on in the environment
  flowOn,     \* cfg.flowControl
  \* the shared state of the process
  queue,      \* the channel s.queue
  queueLen,   \* s.queueLen
  shed,       \* s.shed
  aborted,    \* s.aborted
  \* runMainConsumer and enqueue
  pPc,        \* where the poller is
  pos,        \* offset up to which the poller has finished
  fetchEnd,   \* offset up to which the last poll returned
  pFlow,      \* enqueue's local flowOn
  pDepth,     \* enqueue's local depth
  \* runHandlers
  hPc,        \* where the handler is
  hEv,        \* the event it holds, 0 if none
  \* what became of the events (kept across crashes)
  settled,    \* written to the database or routed to the dead-letter topic
  abandoned,  \* given up uncounted: unparsable, or not even dead-lettered
  dropped,    \* counted by lab32_consumer_dropped_total
  missed,     \* no outcome and never delivered again
  crashes

broker == <<logEnd, committed>>
config == <<bootFlow, flowOn>>
poller == <<pPc, pos, fetchEnd, pFlow, pDepth>>
handler == <<hPc, hEv>>
outcomes == <<settled, abandoned, dropped, missed>>
vars == <<broker, config, queue, queueLen, shed, aborted, poller, handler,
          outcomes, crashes>>

\* cap(s.queue), as allocQueue makes the channel when the process starts.
Cap == IF bootFlow THEN QueueMax ELSE QueueGuard

\* highWater in enqueue: 8/10 of queueMax, in integer arithmetic.
HighWater == (QueueMax * 8) \div 10

\* The event in the hands of the poller.
Current == pos + 1

InEnqueue == {"config", "depth", "signal", "room", "evicted", "send", "sent"}

Init ==
  /\ logEnd = 0 /\ committed = NoCommit
  /\ bootFlow \in BOOLEAN /\ flowOn = bootFlow
  /\ queue = <<>> /\ queueLen = 0
  /\ shed = FALSE /\ aborted = FALSE
  /\ pPc = "join" /\ pos = 0 /\ fetchEnd = 0
  /\ pFlow = FALSE /\ pDepth = 0
  /\ hPc = "idle" /\ hEv = 0
  /\ settled = {} /\ abandoned = {} /\ dropped = {} /\ missed = {}
  /\ crashes = 0

\* The events that have an outcome.
Outcome == settled \cup abandoned \cup dropped

-----------------------------------------------------------------------------
(* The topic.                                                              *)

Produce ==
  /\ logEnd < MaxEvents
  /\ logEnd' = logEnd + 1
  /\ UNCHANGED <<committed, config, queue, queueLen, shed, aborted, poller,
                 handler, outcomes, crashes>>

-----------------------------------------------------------------------------
(* runMainConsumer.                                                        *)

\* NewConsumer: the group resumes at its commit, or at the end of the topic if
\* it has none (ConsumeResetOffset AtEnd).  Events behind that offset without
\* an outcome are not delivered again.  (It fails on an invalid configuration
\* only, which every start of the process would have: left out.)
Join ==
  /\ pPc = "join"
  /\ pos' = IF committed = NoCommit THEN logEnd ELSE committed
  /\ fetchEnd' = pos'
  /\ pPc' = "poll"
  /\ missed' = missed \cup ((1..pos') \ Outcome)
  /\ UNCHANGED <<broker, config, queue, queueLen, shed, aborted, pFlow, pDepth,
                 handler, settled, abandoned, dropped, crashes>>

\* Slip: the offsets of a batch are committed when it is polled.
PollCommitting ==
  /\ pPc = "poll"
  /\ \E end \in (pos + 1)..logEnd : fetchEnd' = end
  /\ committed' = fetchEnd'
  /\ pPc' = "config"
  /\ UNCHANGED <<logEnd, config, queue, queueLen, shed, aborted, pos, pFlow,
                 pDepth, handler, outcomes, crashes>>

\* PollFetches returns a batch of the records not yet delivered.
Poll ==
  /\ pPc = "poll"
  /\ \E end \in (pos + 1)..logEnd : fetchEnd' = end
  /\ pPc' = "config"
  /\ UNCHANGED <<broker, config, queue, queueLen, shed, aborted, pos, pFlow,
                 pDepth, handler, outcomes, crashes>>

\* On to the next record of the batch, or to the commit after the last one.
Advance ==
  /\ pos' = Current
  /\ pPc' = IF Current = fetchEnd THEN "commit" ELSE "config"
  /\ pFlow' = FALSE /\ pDepth' = 0
  /\ UNCHANGED fetchEnd

\* json.Unmarshal fails: the record is skipped.
SkipBad ==
  /\ pPc = "config"
  /\ Current \in BadEvents
  /\ abandoned' = abandoned \cup {Current}
  /\ Advance
  /\ UNCHANGED <<broker, config, queue, queueLen, shed, aborted, handler,
                 settled, dropped, missed, crashes>>

\* Slip: the committed offset is one too far.
CommitOffByOne ==
  /\ pPc = "commit"
  /\ committed' = pos + 1
  /\ pPc' = "poll"
  /\ UNCHANGED <<logEnd, config, queue, queueLen, shed, aborted, pos, fetchEnd,
                 pFlow, pDepth, handler, outcomes, crashes>>

\* CommitUncommittedOffsets, after the batch is enqueued and before it is
\* handled.
Commit ==
  /\ pPc = "commit"
  /\ committed' = pos
  /\ pPc' = "poll"
  /\ UNCHANGED <<logEnd, config, queue, queueLen, shed, aborted, pos, fetchEnd,
                 pFlow, pDepth, handler, outcomes, crashes>>

\* Slip: after a failed commit the poller goes back to the committed offset.
CommitFailsRewinding ==
  /\ pPc = "commit"
  /\ pos' = IF committed = NoCommit THEN pos ELSE committed
  /\ fetchEnd' = pos'
  /\ pPc' = "poll"
  /\ UNCHANGED <<broker, config, queue, queueLen, shed, aborted, pFlow, pDepth,
                 handler, outcomes, crashes>>

\* A failed commit is only logged.
CommitFails ==
  /\ pPc = "commit"
  /\ pPc' = "poll"
  /\ UNCHANGED <<broker, config, queue, queueLen, shed, aborted, pos, fetchEnd,
                 pFlow, pDepth, handler, outcomes, crashes>>

-----------------------------------------------------------------------------
(* enqueue, for the record in hand.                                        *)

\* The configuration is copied under the read lock.
ReadConfig ==
  /\ pPc = "config"
  /\ Current \notin BadEvents
  /\ pFlow' = flowOn
  /\ pPc' = "depth"
  /\ UNCHANGED <<broker, config, queue, queueLen, shed, aborted, pos, fetchEnd,
                 pDepth, handler, outcomes, crashes>>

\* Slip: the event is refused at the guard without being counted.
HitGuardSilently ==
  /\ pPc = "depth"
  /\ queueLen >= QueueGuard
  /\ aborted' = TRUE
  /\ Advance
  /\ UNCHANGED <<broker, config, queue, queueLen, shed, handler, outcomes,
                 crashes>>

\* At the guard the event is dropped and aborted is latched.
HitGuard ==
  /\ pPc = "depth"
  /\ queueLen >= QueueGuard
  /\ aborted' = TRUE
  /\ dropped' = dropped \cup {Current}
  /\ Advance
  /\ UNCHANGED <<broker, config, queue, queueLen, shed, handler, settled,
                 abandoned, missed, crashes>>

\* Below the guard the depth is kept for the decisions that follow.
LoadDepth ==
  /\ pPc = "depth"
  /\ queueLen < QueueGuard
  /\ pDepth' = queueLen
  /\ pPc' = IF pFlow THEN "signal" ELSE "send"
  /\ UNCHANGED <<broker, config, queue, queueLen, shed, aborted, pos, fetchEnd,
                 pFlow, handler, outcomes, crashes>>

\* Slip: drop-oldest makes room only beyond the capacity.
SignalOffByOne ==
  /\ pPc = "signal"
  /\ shed' = (pDepth >= HighWater)
  /\ pPc' = IF pDepth > Cap THEN "room" ELSE "send"
  /\ UNCHANGED <<broker, config, queue, queueLen, aborted, pos, fetchEnd, pFlow,
                 pDepth, handler, outcomes, crashes>>

\* Flow control on: the shed signal follows the depth just read.
Signal ==
  /\ pPc = "signal"
  /\ shed' = (pDepth >= HighWater)
  /\ pPc' = IF pDepth >= Cap THEN "room" ELSE "send"
  /\ UNCHANGED <<broker, config, queue, queueLen, aborted, pos, fetchEnd, pFlow,
                 pDepth, handler, outcomes, crashes>>

\* Drop-oldest: the non-blocking receive takes the head of the channel ...
DropOldest ==
  /\ pPc = "room"
  /\ queue # <<>>
  /\ dropped' = dropped \cup {Head(queue)}
  /\ queue' = Tail(queue)
  /\ pPc' = "evicted"
  /\ UNCHANGED <<broker, config, queueLen, shed, aborted, pos, fetchEnd, pFlow,
                 pDepth, handler, settled, abandoned, missed, crashes>>

\* Slip: the counter is decremented although nothing was taken.
NothingToDropCounted ==
  /\ pPc = "room"
  /\ queue = <<>>
  /\ queueLen' = queueLen - 1
  /\ pPc' = "send"
  /\ UNCHANGED <<broker, config, queue, shed, aborted, pos, fetchEnd, pFlow,
                 pDepth, handler, outcomes, crashes>>

\* ... or finds that the handler has emptied it meanwhile.
NothingToDrop ==
  /\ pPc = "room"
  /\ queue = <<>>
  /\ pPc' = "send"
  /\ UNCHANGED <<broker, config, queue, queueLen, shed, aborted, pos, fetchEnd,
                 pFlow, pDepth, handler, outcomes, crashes>>

CountEvicted ==
  /\ pPc = "evicted"
  /\ queueLen' = queueLen - 1
  /\ pPc' = "send"
  /\ UNCHANGED <<broker, config, queue, shed, aborted, pos, fetchEnd, pFlow,
                 pDepth, handler, outcomes, crashes>>

\* The non-blocking send.
Send ==
  /\ pPc = "send"
  /\ Len(queue) < Cap
  /\ queue' = Append(queue, Current)
  /\ pPc' = "sent"
  /\ UNCHANGED <<broker, config, queueLen, shed, aborted, pos, fetchEnd, pFlow,
                 pDepth, handler, outcomes, crashes>>

\* The channel is full: the event in hand, the newest, is dropped.
DropNewest ==
  /\ pPc = "send"
  /\ Len(queue) >= Cap
  /\ dropped' = dropped \cup {Current}
  /\ Advance
  /\ UNCHANGED <<broker, config, queue, queueLen, shed, aborted, handler,
                 settled, abandoned, missed, crashes>>

CountSent ==
  /\ pPc = "sent"
  /\ queueLen' = queueLen + 1
  /\ Advance
  /\ UNCHANGED <<broker, config, queue, shed, aborted, handler, outcomes,
                 crashes>>

-----------------------------------------------------------------------------
(* runHandlers and handleOne.                                              *)

\* Slip: the newest event is taken first.
ReceiveNewest ==
  /\ hPc = "idle"
  /\ queue # <<>>
  /\ hEv' = queue[Len(queue)]
  /\ queue' = SubSeq(queue, 1, Len(queue) - 1)
  /\ hPc' = "received"
  /\ UNCHANGED <<broker, config, queueLen, shed, aborted, poller, outcomes,
                 crashes>>

\* Slip: the last event of the channel is left there.
ReceiveAllButOne ==
  /\ hPc = "idle"
  /\ Len(queue) > 1
  /\ hEv' = Head(queue)
  /\ queue' = Tail(queue)
  /\ hPc' = "received"
  /\ UNCHANGED <<broker, config, queueLen, shed, aborted, poller, outcomes,
                 crashes>>

\* The non-blocking receive, after a tick.
Receive ==
  /\ hPc = "idle"
  /\ queue # <<>>
  /\ hEv' = Head(queue)
  /\ queue' = Tail(queue)
  /\ hPc' = "received"
  /\ UNCHANGED <<broker, config, queueLen, shed, aborted, poller, outcomes,
                 crashes>>

\* Slip: the receive is not counted.
CountReceivedForgotten ==
  /\ hPc = "received"
  /\ hPc' = "handle"
  /\ UNCHANGED <<broker, config, queue, queueLen, shed, aborted, poller, hEv,
                 outcomes, crashes>>

CountReceived ==
  /\ hPc = "received"
  /\ queueLen' = queueLen - 1
  /\ hPc' = "handle"
  /\ UNCHANGED <<broker, config, queue, shed, aborted, poller, hEv, outcomes,
                 crashes>>

HandlerDone ==
  /\ hPc = "handle"
  /\ hPc' = "idle"
  /\ hEv' = 0
  /\ UNCHANGED <<broker, config, queue, queueLen, shed, aborted, poller, missed,
                 dropped, crashes>>

\* The INSERT succeeds, or it fails and the event goes to the dead letters.
Settle ==
  /\ HandlerDone
  /\ settled' = settled \cup {hEv}
  /\ UNCHANGED abandoned

\* The INSERT fails and so does the dead-lettering, whose result is ignored.
Abandon ==
  /\ HandlerDone
  /\ abandoned' = abandoned \cup {hEv}
  /\ UNCHANGED settled

-----------------------------------------------------------------------------
\* handleFlow.  The channel is not allocated again.
SetFlow(on) ==
  /\ flowOn' = on
  /\ shed' = IF on THEN FALSE ELSE shed
  /\ UNCHANGED <<broker, bootFlow, queue, queueLen, aborted, poller, handler,
                 outcomes, crashes>>

\* The process dies between any two steps and is started again: its memory is
\* gone, its configuration is that of the environment.
Crash ==
  /\ crashes < MaxCrashes
  /\ crashes' = crashes + 1
  /\ queue' = <<>> /\ queueLen' = 0
  /\ shed' = FALSE /\ aborted' = FALSE
  /\ pPc' = "join" /\ pos' = 0 /\ fetchEnd' = 0
  /\ pFlow' = FALSE /\ pDepth' = 0
  /\ hPc' = "idle" /\ hEv' = 0
  /\ flowOn' = bootFlow
  /\ UNCHANGED <<broker, bootFlow, outcomes>>

-----------------------------------------------------------------------------
Enqueue == ReadConfig \/ HitGuard \/ LoadDepth \/ Signal \/ DropOldest
           \/ NothingToDrop \/ CountEvicted \/ Send \/ DropNewest \/ CountSent
Poller == Join \/ Poll \/ SkipBad \/ Commit \/ CommitFails \/ Enqueue
Handler == Receive \/ CountReceived \/ Settle \/ Abandon
Environment == Produce \/ Crash \/ \E on \in BOOLEAN : SetFlow(on)

Next == Poller \/ Handler \/ Environment

Spec == Init /\ [][Next]_vars

\* The Go scheduler runs both goroutines, a poll returns when there are
\* records, and the database and the broker answer.  Nothing is assumed of the
\* environment.
FairSpec == Spec /\ WF_vars(Poller) /\ WF_vars(Handler)

-----------------------------------------------------------------------------
(* Properties.                                                             *)

\* Types of the state.  The counter may read -1 (see LenAccounting).
TypeOK ==
  /\ logEnd \in 0..MaxEvents
  /\ committed \in {NoCommit} \cup 0..MaxEvents
  /\ bootFlow \in BOOLEAN /\ flowOn \in BOOLEAN
  /\ queue \in Seq(Events) /\ queueLen \in Int
  /\ shed \in BOOLEAN /\ aborted \in BOOLEAN
  /\ pPc \in {"join", "poll", "commit"} \cup InEnqueue
  /\ pos \in 0..MaxEvents /\ fetchEnd \in 0..MaxEvents
  /\ pFlow \in BOOLEAN /\ pDepth \in Int
  /\ hPc \in {"idle", "received", "handle"}
  /\ hEv \in {0} \cup Events
  /\ settled \subseteq Events /\ abandoned \subseteq Events 
  /\ dropped \subseteq Events /\ missed \subseteq Events
  /\ crashes \in 0..MaxCrashes

\* The counter differs from the length of the channel only by the receive and
\* the send that are not counted yet: it does not drift, whatever the
\* interleaving of the poller, its drop-oldest and the handler.
One(b) == IF b THEN 1 ELSE 0
LenAccounting ==
  queueLen = Len(queue) + One(hPc = "received") + One(pPc = "evicted")
             - One(pPc = "sent")

\* Events leave in the order of their offsets: the handler's event is behind
\* the channel, the channel is sorted and behind the poller's event.
InOrder ==
  /\ \A i \in 1..Len(queue) : queue[i] <= (IF pPc = "sent" THEN Current ELSE pos)
  /\ \A i, j \in 1..Len(queue) : i < j => queue[i] < queue[j]
  /\ \A i \in 1..Len(queue) : hEv < queue[i]

\* The events in the memory of the process.
InQueue == {queue[i] : i \in 1..Len(queue)}
Unsent == (IF pPc = "sent" THEN Current ELSE pos) + 1..fetchEnd
InMemory == InQueue \cup Unsent \cup ({hEv} \ {0})

\* An event the process has read is in its memory or has an outcome, unless
\* the group resumed beyond it: nothing vanishes between the goroutines.
NothingVanishes ==
  pPc # "join" => \A e \in 1..fetchEnd : e \in InMemory \cup Outcome \cup missed

\* What a crash can lose of the events behind the committed offset, which the
\* group does not get again, fits in the channel and the handler, however many
\* events a batch has and however long commits fail (main.go:307-317).
LossIsBounded ==
  committed # NoCommit =>
    Cardinality((1..committed) \ (Outcome \cup missed)) <= Cap + 1

\* enqueue decides with a stale depth, yet the newest event is dropped only by
\* a process started with flow control on that runs with it off.
NewestDroppedOnlyWithFlowOff ==
  pPc = "send" /\ Len(queue) >= Cap => bootFlow /\ ~pFlow

\* The guard can trip only if the channel can hold all but one of the guard's
\* events: with a bounded channel well below it the consumer never aborts.
AbortsOnlyNearGuard == aborted => Cap + 1 >= QueueGuard

\* When the crashes and the production are over, every event of the topic gets
\* an outcome or was missed at a restart: no event stays in memory.
EventuallyDrained ==
  <>[](\A e \in 1..logEnd : e \in Outcome \cup missed)

\* The consumer implements the abstract specification of delivery: an event has
\* one fate after the other in the order of that module, what is settled stays
\* settled, and without a crash none that was given up is taken up again.
FateOf(e) ==
  IF e \in settled THEN "settled"
  ELSE IF e \in InMemory THEN "inflight"
  ELSE IF e \in abandoned \cup dropped THEN "discarded"
  ELSE IF e \in missed THEN "missed"
  ELSE "ahead"
D == INSTANCE Delivery WITH
       fate <- [e \in Events |-> FateOf(e)], crashed <- crashes > 0
ImplementsDelivery == D!Spec

\* The header says that flow control on is a bounded queue with drop-oldest
\* and can be turned on at runtime: an enqueue under flow control does not
\* lengthen a queue that is at its bound.
FlowBoundsQueue ==
  [][pFlow /\ Len(queue) >= QueueMax => Len(queue') <= Len(queue)]_vars
=============================================================================
