------------------------- MODULE ConsumerQueueProofs -------------------------
(***************************************************************************)
(* What holds of the consumer for every number of events, every queue size, *)
(* every guard and any number of crashes.                                   *)
(***************************************************************************)
EXTENDS ConsumerQueue, FiniteSetTheorems, TLAPS

(* The inductive invariant, in parts.                                      *)

\* The poller's offsets: it is inside a batch exactly while it enqueues.
Positions ==
  /\ pos <= fetchEnd /\ fetchEnd <= logEnd
  /\ committed <= logEnd
  /\ pPc \in InEnqueue <=> pos < fetchEnd
  /\ hPc = "idle" <=> hEv = 0

\* What enqueue may rely on although its depth is stale: meanwhile the handler
\* only shortens the channel.
DepthInv ==
  /\ Len(queue) <= Cap
  /\ pPc \in {"signal", "room"} => pFlow
  /\ pPc = "signal" => Len(queue) <= pDepth
  /\ pPc = "evicted" => Len(queue) < Cap
  /\ NewestDroppedOnlyWithFlowOff

AllVars == <<logEnd, committed, bootFlow, flowOn, queue, queueLen, shed, aborted,
             pPc, pos, fetchEnd, pFlow, pDepth, hPc, hEv,
             settled, abandoned, dropped, missed, crashes>>

\* The steps of Next, one by one: the case split of every proof below.
LEMMA Steps ==
  ASSUME [Next]_vars
  PROVE  \/ Join \/ Poll \/ SkipBad \/ Commit \/ CommitFails
         \/ ReadConfig \/ HitGuard \/ LoadDepth \/ Signal \/ DropOldest
         \/ NothingToDrop \/ CountEvicted \/ Send \/ DropNewest \/ CountSent
         \/ Receive \/ CountReceived \/ Settle \/ Abandon
         \/ Produce \/ Crash \/ (\E on \in BOOLEAN : SetFlow(on))
         \/ UNCHANGED AllVars
  BY DEF Next, Poller, Enqueue, Handler, Environment, vars, AllVars,
         broker, config, poller, handler, outcomes

\* The channel can hold at least one event.
LEMMA CapPositive ==
  ASSUME bootFlow \in BOOLEAN
  PROVE  Cap \in Nat \ {0}
  BY ConsumerAssumption DEF Cap

\* The event in the hands of the poller is one of the topic, within the batch.
LEMMA InHand ==
  ASSUME TypeOK, Positions, pPc \in InEnqueue
  PROVE  Current \in Events /\ Current <= fetchEnd /\ Current \in Nat
  BY ConsumerAssumption DEF TypeOK, Positions, Events, Current

\* Advance keeps the poller typed and its offsets in order.
LEMMA AdvanceKeeps ==
  ASSUME TypeOK, Positions, pPc \in InEnqueue, Advance, UNCHANGED logEnd
  PROVE  /\ pos' \in 0..MaxEvents /\ fetchEnd' \in 0..MaxEvents
         /\ pFlow' \in BOOLEAN /\ pDepth' \in Int
         /\ pPc' \in {"commit", "config"}
         /\ pos' <= fetchEnd' /\ fetchEnd' <= logEnd'
         /\ pPc' \in InEnqueue <=> pos' < fetchEnd'
<1>1. Current <= fetchEnd /\ Current \in Nat
  BY InHand
<1>2. pos' = Current /\ fetchEnd' = fetchEnd /\ fetchEnd \in 0..MaxEvents
  BY DEF Advance, TypeOK
<1>3. pPc' = IF Current = fetchEnd THEN "commit" ELSE "config"
  BY DEF Advance
<1>4. pFlow' \in BOOLEAN
  BY Zenon DEF Advance
<1>6. pDepth' \in Int
  BY DEF Advance
<1>5. fetchEnd' <= logEnd'
  BY <1>2 DEF Positions
<1> QED
  BY <1>1, <1>2, <1>3, <1>4, <1>5, <1>6, ConsumerAssumption DEF InEnqueue

-----------------------------------------------------------------------------
\* Every reachable state is well typed and the poller's offsets are in order:
\* the event in its hands exists in the topic.
THEOREM TypeCorrect == Spec => [](TypeOK /\ Positions)
<1>1. Init => TypeOK /\ Positions
  <2> SUFFICES ASSUME Init PROVE TypeOK /\ Positions
    OBVIOUS
  <2>1. Positions
    BY DEF Init, Positions, NoCommit, InEnqueue
  <2>2. queue \in Seq(Events)
    BY DEF Init
  <2>3. /\ shed \in BOOLEAN /\ aborted \in BOOLEAN
        /\ pFlow \in BOOLEAN /\ flowOn \in BOOLEAN
    BY Zenon DEF Init
  <2> QED
    BY <2>1, <2>2, <2>3, ConsumerAssumption
       DEF Init, TypeOK, NoCommit, InEnqueue
<1>2. TypeOK /\ Positions /\ [Next]_vars => (TypeOK /\ Positions)'
  <2> SUFFICES ASSUME TypeOK, Positions, [Next]_vars
               PROVE  TypeOK' /\ Positions'
    OBVIOUS
  <2> USE ConsumerAssumption DEF TypeOK, Positions, NoCommit, InEnqueue, broker, config, poller, handler, outcomes
  <2>1. CASE Join
    <3>1. pos' \in 0..MaxEvents /\ fetchEnd' = pos' /\ pos' <= logEnd
      BY <2>1 DEF Join
    <3>2. missed' \subseteq Events
      <4>1. 1..pos' \subseteq Events
        BY <3>1 DEF Events
      <4> QED
        BY <2>1, <4>1, Zenon DEF Join
    <3>3. Positions'
      BY <2>1, <3>1 DEF Join
    <3> QED
      BY <2>1, <3>1, <3>2, <3>3 DEF Join
  <2>2. CASE Poll
    BY <2>2 DEF Poll
  <2>3. CASE SkipBad
    <3>1. pPc \in InEnqueue /\ Advance /\ UNCHANGED logEnd
      BY <2>3 DEF SkipBad
    <3> QED
      BY <2>3, <3>1, InHand, AdvanceKeeps DEF SkipBad
  <2>4. CASE Commit
    BY <2>4 DEF Commit
  <2>5. CASE CommitFails
    BY <2>5 DEF CommitFails
  <2>6. CASE ReadConfig
    BY <2>6 DEF ReadConfig
  <2>7. CASE HitGuard
    <3>1. pPc \in InEnqueue /\ Advance /\ UNCHANGED logEnd
      BY <2>7 DEF HitGuard
    <3> QED
      BY <2>7, <3>1, InHand, AdvanceKeeps DEF HitGuard
  <2>8. CASE LoadDepth
    BY <2>8 DEF LoadDepth
  <2>9. CASE Signal
    BY <2>9 DEF Signal
  <2>10. CASE DropOldest
    <3>1. Head(queue) \in Events /\ Tail(queue) \in Seq(Events)
      BY <2>10 DEF DropOldest
    <3> QED
      BY <2>10, <3>1 DEF DropOldest
  <2>11. CASE NothingToDrop
    BY <2>11 DEF NothingToDrop
  <2>12. CASE CountEvicted
    BY <2>12 DEF CountEvicted
  <2>13. CASE Send
    <3>1. Append(queue, Current) \in Seq(Events)
      BY <2>13, InHand DEF Send
    <3> QED
      BY <2>13, <3>1 DEF Send
  <2>14. CASE DropNewest
    <3>1. pPc \in InEnqueue /\ Advance /\ UNCHANGED logEnd
      BY <2>14 DEF DropNewest
    <3> QED
      BY <2>14, <3>1, InHand, AdvanceKeeps DEF DropNewest
  <2>15. CASE CountSent
    <3>1. pPc \in InEnqueue /\ Advance /\ UNCHANGED logEnd
      BY <2>15 DEF CountSent
    <3> QED
      BY <2>15, <3>1, InHand, AdvanceKeeps DEF CountSent
  <2>16. CASE Receive
    <3>1. Head(queue) \in Events /\ Tail(queue) \in Seq(Events)
      BY <2>16 DEF Receive
    <3>2. Head(queue) # 0
      BY <3>1 DEF Events
    <3> QED
      BY <2>16, <3>1, <3>2 DEF Receive
  <2>17. CASE CountReceived
    BY <2>17 DEF CountReceived
  <2>18. CASE Settle
    BY <2>18 DEF Settle, HandlerDone
  <2>19. CASE Abandon
    BY <2>19 DEF Abandon, HandlerDone
  <2>20. CASE Produce
    BY <2>20 DEF Produce
  <2>21. CASE Crash
    <3>1. queue' \in Seq(Events)
      BY <2>21 DEF Crash
    <3>2. crashes' \in 0..MaxCrashes
      BY <2>21 DEF Crash
    <3>3. Positions'
      BY <2>21 DEF Crash
    <3>4. /\ shed' \in BOOLEAN /\ aborted' \in BOOLEAN
          /\ pFlow' \in BOOLEAN /\ flowOn' \in BOOLEAN
      BY <2>21, Zenon DEF Crash
    <3> QED
      BY <2>21, <3>1, <3>2, <3>3, <3>4 DEF Crash
  <2>22. ASSUME NEW on \in BOOLEAN, SetFlow(on)
         PROVE  TypeOK' /\ Positions'
    BY <2>22 DEF SetFlow
  <2>23. CASE UNCHANGED AllVars
    BY <2>23 DEF AllVars
  <2> QED
    BY <2>1, <2>2, <2>3, <2>4, <2>5, <2>6, <2>7, <2>8, <2>9, <2>10, <2>11,
       <2>12, <2>13, <2>14, <2>15, <2>16, <2>17, <2>18, <2>19, <2>20, <2>21,
       <2>22, <2>23, Steps
<1> QED
  BY <1>1, <1>2, PTL DEF Spec

-----------------------------------------------------------------------------
\* The counter never drifts from the channel: it is off by the uncounted
\* receive of the handler or of drop-oldest and by the uncounted send.
THEOREM CounterTracksChannel == Spec => []LenAccounting
<1>1. Init => LenAccounting
  BY DEF Init, LenAccounting, One
<1>2. TypeOK /\ LenAccounting /\ [Next]_vars => LenAccounting'
  <2> SUFFICES ASSUME TypeOK, LenAccounting, [Next]_vars
               PROVE  LenAccounting'
    OBVIOUS
  <2> USE DEF LenAccounting, One, TypeOK, broker, config, poller, handler,
              outcomes, InEnqueue
  <2>1. CASE Join
    BY <2>1 DEF Join
  <2>2. CASE Poll
    BY <2>2 DEF Poll
  <2>3. CASE SkipBad
    BY <2>3 DEF SkipBad, Advance
  <2>4. CASE Commit
    BY <2>4 DEF Commit
  <2>5. CASE CommitFails
    BY <2>5 DEF CommitFails
  <2>6. CASE ReadConfig
    BY <2>6 DEF ReadConfig
  <2>7. CASE HitGuard
    BY <2>7 DEF HitGuard, Advance
  <2>8. CASE LoadDepth
    BY <2>8 DEF LoadDepth
  <2>9. CASE Signal
    BY <2>9 DEF Signal
  <2>10. CASE DropOldest
    BY <2>10 DEF DropOldest
  <2>11. CASE NothingToDrop
    BY <2>11 DEF NothingToDrop
  <2>12. CASE CountEvicted
    BY <2>12 DEF CountEvicted
  <2>13. CASE Send
    BY <2>13 DEF Send
  <2>14. CASE DropNewest
    BY <2>14 DEF DropNewest, Advance
  <2>15. CASE CountSent
    BY <2>15 DEF CountSent, Advance
  <2>16. CASE Receive
    BY <2>16 DEF Receive
  <2>17. CASE CountReceived
    BY <2>17 DEF CountReceived
  <2>18. CASE Settle
    BY <2>18 DEF Settle, HandlerDone
  <2>19. CASE Abandon
    BY <2>19 DEF Abandon, HandlerDone
  <2>20. CASE Produce
    BY <2>20 DEF Produce
  <2>21. CASE Crash
    BY <2>21 DEF Crash
  <2>22. ASSUME NEW on \in BOOLEAN, SetFlow(on)
         PROVE  LenAccounting'
    BY <2>22 DEF SetFlow
  <2>23. CASE UNCHANGED AllVars
    BY <2>23 DEF AllVars
  <2> QED
    BY <2>1, <2>2, <2>3, <2>4, <2>5, <2>6, <2>7, <2>8, <2>9, <2>10, <2>11,
       <2>12, <2>13, <2>14, <2>15, <2>16, <2>17, <2>18, <2>19, <2>20, <2>21,
       <2>22, <2>23, Steps
<1> QED
  BY <1>1, <1>2, TypeCorrect, PTL DEF Spec

-----------------------------------------------------------------------------
\* What enqueue decides with its stale depth is right all the same: the channel
\* is bounded, and the newest event is dropped only by a process started with
\* flow control on that runs with it off.
THEOREM StaleDepthIsSafe == Spec => []DepthInv
<1>1. Init => DepthInv
  BY CapPositive DEF Init, DepthInv, NewestDroppedOnlyWithFlowOff
<1>2. TypeOK /\ LenAccounting /\ DepthInv /\ [Next]_vars => DepthInv'
  <2> SUFFICES ASSUME TypeOK, LenAccounting, DepthInv, [Next]_vars
               PROVE  DepthInv'
    OBVIOUS
  <2>0. Cap \in Nat \ {0} /\ (bootFlow' = bootFlow => Cap' = Cap)
    BY CapPositive DEF TypeOK, Cap
  <2> USE <2>0 DEF DepthInv, NewestDroppedOnlyWithFlowOff, TypeOK, broker,
                   config, poller, handler, outcomes, InEnqueue
  <2>1. CASE Join
    BY <2>1 DEF Join
  <2>2. CASE Poll
    BY <2>2 DEF Poll
  <2>3. CASE SkipBad
    BY <2>3 DEF SkipBad, Advance
  <2>4. CASE Commit
    BY <2>4 DEF Commit
  <2>5. CASE CommitFails
    BY <2>5 DEF CommitFails
  <2>6. CASE ReadConfig
    BY <2>6 DEF ReadConfig
  <2>7. CASE HitGuard
    BY <2>7 DEF HitGuard, Advance
  <2>8. CASE LoadDepth
    <3>1. Len(queue) <= queueLen
      BY <2>8 DEF LoadDepth, LenAccounting, One
    <3>2. ~bootFlow => Cap = QueueGuard
      BY DEF Cap
    <3> QED
      BY <2>8, <3>1, <3>2, ConsumerAssumption DEF LoadDepth
  <2>9. CASE Signal
    BY <2>9 DEF Signal
  <2>10. CASE DropOldest
    BY <2>10 DEF DropOldest
  <2>11. CASE NothingToDrop
    BY <2>11 DEF NothingToDrop
  <2>12. CASE CountEvicted
    BY <2>12 DEF CountEvicted
  <2>13. CASE Send
    BY <2>13 DEF Send
  <2>14. CASE DropNewest
    BY <2>14 DEF DropNewest, Advance
  <2>15. CASE CountSent
    BY <2>15 DEF CountSent, Advance
  <2>16. CASE Receive
    BY <2>16 DEF Receive
  <2>17. CASE CountReceived
    BY <2>17 DEF CountReceived
  <2>18. CASE Settle
    BY <2>18 DEF Settle, HandlerDone
  <2>19. CASE Abandon
    BY <2>19 DEF Abandon, HandlerDone
  <2>20. CASE Produce
    BY <2>20 DEF Produce
  <2>21. CASE Crash
    BY <2>21 DEF Crash
  <2>22. ASSUME NEW on \in BOOLEAN, SetFlow(on)
         PROVE  DepthInv'
    BY <2>22 DEF SetFlow
  <2>23. CASE UNCHANGED AllVars
    BY <2>23 DEF AllVars
  <2> QED
    BY <2>1, <2>2, <2>3, <2>4, <2>5, <2>6, <2>7, <2>8, <2>9, <2>10, <2>11,
       <2>12, <2>13, <2>14, <2>15, <2>16, <2>17, <2>18, <2>19, <2>20, <2>21,
       <2>22, <2>23, Steps
<1> QED
  BY <1>1, <1>2, TypeCorrect, CounterTracksChannel, PTL DEF Spec

\* The newest event is dropped only with flow control turned off at runtime.
THEOREM NewestIsSafe == Spec => []NewestDroppedOnlyWithFlowOff
  BY StaleDepthIsSafe, PTL DEF DepthInv

-----------------------------------------------------------------------------
\* A process whose channel is bounded at least two below the guard never
\* reports aborted.
THEOREM BoundedNeverAborts == Spec => []AbortsOnlyNearGuard
<1>1. Init => AbortsOnlyNearGuard
  BY Zenon DEF Init, AbortsOnlyNearGuard
<1>2. TypeOK /\ LenAccounting /\ DepthInv /\ AbortsOnlyNearGuard /\ [Next]_vars
        => AbortsOnlyNearGuard'
  <2> SUFFICES ASSUME TypeOK, LenAccounting, DepthInv, AbortsOnlyNearGuard,
                      [Next]_vars
               PROVE  AbortsOnlyNearGuard'
    OBVIOUS
  <2>1. bootFlow' = bootFlow /\ Cap' = Cap
    <3>1. bootFlow' = bootFlow
      BY Steps DEF Join, Poll, SkipBad, Commit, CommitFails, ReadConfig,
         HitGuard, LoadDepth, Signal, DropOldest, NothingToDrop, CountEvicted,
         Send, DropNewest, CountSent, Receive, CountReceived, Settle, Abandon,
         HandlerDone, Produce, Crash, SetFlow, AllVars, config
    <3> QED
      BY <3>1 DEF Cap
  <2>2. CASE HitGuard
    \* At most one receive of the handler is not counted here.
    <3>1. queueLen <= Cap + 1
      BY <2>2, CapPositive
         DEF HitGuard, LenAccounting, One, DepthInv, TypeOK
    <3>2. Cap + 1 >= QueueGuard
      BY <2>2, <3>1, CapPositive, ConsumerAssumption DEF HitGuard, TypeOK
    <3> QED
      BY <2>1, <3>2 DEF AbortsOnlyNearGuard
  <2>3. CASE ~HitGuard
    \* No other step raises the flag.
    <3>1. aborted' = aborted \/ ~aborted'
      BY <2>3, Steps, Zenon DEF Join, Poll, SkipBad, Commit, CommitFails,
         ReadConfig, LoadDepth, Signal, DropOldest, NothingToDrop,
         CountEvicted, Send, DropNewest, CountSent, Receive, CountReceived,
         Settle, Abandon, HandlerDone, Produce, Crash, SetFlow, AllVars
    <3> QED
      BY <2>1, <3>1, Zenon DEF AbortsOnlyNearGuard
  <2> QED
    BY <2>2, <2>3
<1> QED
  BY <1>1, <1>2, TypeCorrect, CounterTracksChannel, StaleDepthIsSafe, PTL
     DEF Spec

-----------------------------------------------------------------------------
(* Order.                                                                  *)

\* The last event that has left the poller's hands.
Handed == IF pPc = "sent" THEN Current ELSE pos

\* The order of the events in memory, and that a process that has not joined
\* its group has none.
OrderInv ==
  /\ InOrder
  /\ hEv <= Handed
  /\ pPc = "join" => queue = <<>> /\ hEv = 0

\* The elements of a sequence after its head is taken.
LEMMA TailElements ==
  ASSUME NEW S, NEW q \in Seq(S), q # <<>>
  PROVE  /\ Len(Tail(q)) = Len(q) - 1 /\ Len(q) \in Nat \ {0}
         /\ \A i \in 1..Len(Tail(q)) : i + 1 \in 1..Len(q) /\ Tail(q)[i] = q[i + 1]
         /\ Head(q) = q[1] /\ Head(q) \in S
  OBVIOUS

\* Taking the head keeps the order, and the head is behind the rest.
LEMMA TailInOrder ==
  ASSUME TypeOK, OrderInv, queue # <<>>
  PROVE  /\ \A i \in 1..Len(Tail(queue)) : Tail(queue)[i] <= Handed
         /\ \A i, j \in 1..Len(Tail(queue)) :
              i < j => Tail(queue)[i] < Tail(queue)[j]
         /\ \A i \in 1..Len(Tail(queue)) :
              hEv < Tail(queue)[i] /\ Head(queue) < Tail(queue)[i]
         /\ Head(queue) <= Handed
<1> DEFINE q == queue
<1>1. q \in Seq(Events) /\ q # <<>>
  BY DEF TypeOK
<1>2. /\ \A i \in 1..Len(q) : q[i] <= Handed
      /\ \A i, j \in 1..Len(q) : i < j => q[i] < q[j]
      /\ \A i \in 1..Len(q) : hEv < q[i]
  BY DEF OrderInv, InOrder, Handed
<1> HIDE DEF q
<1>3. /\ Len(Tail(q)) = Len(q) - 1 /\ Len(q) \in Nat \ {0}
      /\ \A i \in 1..Len(Tail(q)) : i + 1 \in 1..Len(q) /\ Tail(q)[i] = q[i + 1]
      /\ Head(q) = q[1]
  BY <1>1, TailElements
<1>4. /\ \A i \in 1..Len(Tail(q)) : Tail(q)[i] <= Handed
      /\ \A i, j \in 1..Len(Tail(q)) : i < j => Tail(q)[i] < Tail(q)[j]
      /\ \A i \in 1..Len(Tail(q)) : hEv < Tail(q)[i] /\ Head(q) < Tail(q)[i]
      /\ Head(q) <= Handed
  BY <1>2, <1>3
<1> QED
  BY <1>4 DEF q

\* Events reach the handler in the order of their offsets, each at most once
\* in the life of a process, past drop-oldest and every interleaving.
THEOREM EventsStayInOrder == Spec => []OrderInv
<1>1. Init => OrderInv
  BY DEF Init, OrderInv, InOrder, Handed
<1>2. TypeOK /\ Positions /\ OrderInv /\ [Next]_vars => OrderInv'
  <2> SUFFICES ASSUME TypeOK, Positions, OrderInv, [Next]_vars
               PROVE  OrderInv'
    OBVIOUS
  <2>0. pos \in Nat /\ Current = pos + 1 /\ (hEv = 0 \/ hEv \in Nat)
    BY ConsumerAssumption DEF TypeOK, Current, Events
  <2>a. \A i \in 1..Len(queue) : queue[i] \in Nat /\ 0 < queue[i]
    BY ConsumerAssumption DEF TypeOK, Events
  <2> USE <2>0 DEF OrderInv, InOrder, Handed, TypeOK, Positions, Current,
                   broker, config, poller, handler, outcomes, InEnqueue
  <2>1. CASE Join
    BY <2>1 DEF Join
  <2>2. CASE Poll
    BY <2>2 DEF Poll
  <2>3. CASE SkipBad
    <3>1. /\ pPc # "sent" /\ pPc' # "sent" /\ pPc' # "join" /\ pos' = pos + 1
          /\ UNCHANGED <<queue, hEv>>
      BY <2>3 DEF SkipBad, Advance
    <3>2. \A i \in 1..Len(queue) : queue[i] <= pos + 1
      BY <2>a, <3>1
    <3> QED
      BY <3>1, <3>2
  <2>4. CASE Commit
    BY <2>4 DEF Commit
  <2>5. CASE CommitFails
    BY <2>5 DEF CommitFails
  <2>6. CASE ReadConfig
    BY <2>6 DEF ReadConfig
  <2>7. CASE HitGuard
    <3>1. /\ pPc # "sent" /\ pPc' # "sent" /\ pPc' # "join" /\ pos' = pos + 1
          /\ UNCHANGED <<queue, hEv>>
      BY <2>7 DEF HitGuard, Advance
    <3>2. \A i \in 1..Len(queue) : queue[i] <= pos + 1
      BY <2>a, <3>1
    <3> QED
      BY <3>1, <3>2
  <2>8. CASE LoadDepth
    BY <2>8 DEF LoadDepth
  <2>9. CASE Signal
    BY <2>9 DEF Signal
  <2>10. CASE DropOldest
    <3>1. queue' = Tail(queue) /\ queue # <<>> /\ pPc' = "evicted" /\ pPc = "room"
      BY <2>10 DEF DropOldest
    <3>2. UNCHANGED <<pos, hEv>>
      BY <2>10 DEF DropOldest
    <3> QED
      BY <3>1, <3>2, TailInOrder
  <2>11. CASE NothingToDrop
    BY <2>11 DEF NothingToDrop
  <2>12. CASE CountEvicted
    BY <2>12 DEF CountEvicted
  <2>13. CASE Send
    <3>1. /\ queue' = Append(queue, Current) /\ pPc = "send" /\ pPc' = "sent"
          /\ UNCHANGED <<pos, hEv>>
      BY <2>13 DEF Send
    <3>2. /\ Len(queue') = Len(queue) + 1 /\ Len(queue) \in Nat
          /\ \A i \in 1..Len(queue) : queue'[i] = queue[i]
          /\ queue'[Len(queue) + 1] = Current
      BY <3>1, InHand
    <3>3. \A i \in 1..Len(queue') : i \in 1..Len(queue) \/ i = Len(queue) + 1
      BY <3>2
    <3>4. \A i \in 1..Len(queue) : queue[i] <= pos /\ queue[i] \in Nat /\ hEv < queue[i]
      BY <3>1, ConsumerAssumption DEF Events
    <3>5. hEv < Current
      BY <3>1
    <3>6. \A i \in 1..Len(queue') : queue'[i] <= Current /\ hEv < queue'[i]
      BY <3>2, <3>3, <3>4, <3>5
    <3>7. \A i, j \in 1..Len(queue') : i < j => queue'[i] < queue'[j]
      BY <3>2, <3>3, <3>4
    <3> QED
      BY <3>1, <3>5, <3>6, <3>7
  <2>14. CASE DropNewest
    <3>1. /\ pPc # "sent" /\ pPc' # "sent" /\ pPc' # "join" /\ pos' = pos + 1
          /\ UNCHANGED <<queue, hEv>>
      BY <2>14 DEF DropNewest, Advance
    <3>2. \A i \in 1..Len(queue) : queue[i] <= pos + 1
      BY <2>a, <3>1
    <3> QED
      BY <3>1, <3>2
  <2>15. CASE CountSent
    BY <2>15 DEF CountSent, Advance
  <2>16. CASE Receive
    <3>1. queue' = Tail(queue) /\ queue # <<>> /\ hEv' = Head(queue)
      BY <2>16 DEF Receive
    <3>2. UNCHANGED <<pos, pPc>>
      BY <2>16 DEF Receive
    <3> QED
      BY <3>1, <3>2, TailInOrder
  <2>17. CASE CountReceived
    BY <2>17 DEF CountReceived
  <2>18. CASE Settle
    BY <2>18, <2>a DEF Settle, HandlerDone
  <2>19. CASE Abandon
    BY <2>19, <2>a DEF Abandon, HandlerDone
  <2>20. CASE Produce
    BY <2>20 DEF Produce
  <2>21. CASE Crash
    BY <2>21 DEF Crash
  <2>22. ASSUME NEW on \in BOOLEAN, SetFlow(on)
         PROVE  OrderInv'
    BY <2>22 DEF SetFlow
  <2>23. CASE UNCHANGED AllVars
    BY <2>23 DEF AllVars
  <2> QED
    BY <2>1, <2>2, <2>3, <2>4, <2>5, <2>6, <2>7, <2>8, <2>9, <2>10, <2>11,
       <2>12, <2>13, <2>14, <2>15, <2>16, <2>17, <2>18, <2>19, <2>20, <2>21,
       <2>22, <2>23, Steps
<1> QED
  BY <1>1, <1>2, TypeCorrect, PTL DEF Spec

\* The order that the runs check.
THEOREM HandledInOrder == Spec => []InOrder
  BY EventsStayInOrder, PTL DEF OrderInv

-----------------------------------------------------------------------------
(* Nothing vanishes.                                                       *)

Contents(q) == {q[i] : i \in 1..Len(q)}

\* What taking the head and appending do to the contents of a channel.
LEMMA HeadLeaves ==
  ASSUME NEW S, NEW q \in Seq(S), q # <<>>
  PROVE  Contents(q) = {Head(q)} \cup Contents(Tail(q))
<1>1. Head(q) = q[1] /\ 1 \in 1..Len(q)
  BY TailElements
<1>2. \A i \in 1..Len(q) : i = 1 \/ (i - 1 \in 1..Len(Tail(q)) /\ Tail(q)[i - 1] = q[i])
  BY TailElements
<1>3. \A i \in 1..Len(Tail(q)) : i + 1 \in 1..Len(q) /\ Tail(q)[i] = q[i + 1]
  BY TailElements
<1> QED BY <1>1, <1>2, <1>3 DEF Contents

LEMMA LastArrives ==
  ASSUME NEW S, NEW q \in Seq(S), NEW x \in S
  PROVE  Contents(Append(q, x)) = Contents(q) \cup {x}
<1>1. Len(Append(q, x)) = Len(q) + 1 /\ Len(q) \in Nat
  OBVIOUS
<1>2. \A i \in 1..Len(q) : Append(q, x)[i] = q[i]
  OBVIOUS
<1>3. Append(q, x)[Len(q) + 1] = x
  OBVIOUS
<1> QED BY <1>1, <1>2, <1>3 DEF Contents

\* An event that is accounted for: NothingVanishes for one event.
Accounted(e) == e \in InMemory \cup Outcome \cup missed

\* The steps that neither take an event up nor put one down.
LEMMA NothingMoves ==
  ASSUME TypeOK, Positions, NEW e,
         UNCHANGED <<queue, hEv, pos, fetchEnd, outcomes>>,
         pPc = "sent" <=> pPc' = "sent"
  PROVE  Accounted(e)' = Accounted(e)
BY DEF Accounted, InMemory, InQueue, Unsent, Current, Outcome, outcomes

\* The poller is done with the record in hand, which is in the channel by then
\* or has an outcome.
LEMMA AdvanceAccounts ==
  ASSUME TypeOK, Positions, pPc \in InEnqueue, Advance, UNCHANGED <<queue, hEv, missed>>,
         Outcome \subseteq Outcome', Current \in InQueue \/ Current \in Outcome',
         NEW e, Accounted(e)
  PROVE  Accounted(e)'
<1>1. pPc' # "sent" /\ pos' = pos + 1 /\ fetchEnd' = fetchEnd
  BY DEF Advance, Current
<1>2. pos \in Nat /\ fetchEnd \in Nat
  BY ConsumerAssumption DEF TypeOK
<1>3. e \in Unsent => e = Current \/ e \in Unsent'
  BY <1>1, <1>2 DEF Unsent, Current
<1> QED BY <1>3 DEF Accounted, InMemory, InQueue

LEMMA VanishStep == TypeOK /\ Positions /\ NothingVanishes /\ [Next]_vars => NothingVanishes'
<1> SUFFICES ASSUME TypeOK, Positions, NothingVanishes, [Next]_vars,
                    pPc' # "join", NEW e \in 1..fetchEnd'
             PROVE  Accounted(e)'
  BY DEF NothingVanishes, Accounted
<1>0. pPc # "join" /\ e \in 1..fetchEnd => Accounted(e)
  BY DEF NothingVanishes, Accounted
<1>a. pos \in Nat /\ fetchEnd \in Nat /\ logEnd \in Nat /\ queue \in Seq(Events)
  BY ConsumerAssumption DEF TypeOK
<1>1. CASE Join
  BY <1>1 DEF Join, Accounted, Outcome
<1>2. CASE Poll
  <2>1. e \in 1..fetchEnd \/ e \in Unsent'
    BY <1>2, <1>a DEF Poll, Unsent, Positions, InEnqueue
  <2>2. UNCHANGED <<queue, hEv, outcomes>> /\ pos = fetchEnd
    BY <1>2, <1>a DEF Poll, Positions, InEnqueue, handler
  <2>3. e \in 1..fetchEnd => e \notin Unsent
    BY <1>2, <2>2, <1>a DEF Poll, Unsent
  <2> QED BY <1>0, <1>2, <2>1, <2>2, <2>3
          DEF Poll, Accounted, InMemory, InQueue, Outcome, outcomes
<1>3. CASE SkipBad \/ HitGuard \/ DropNewest
  <2>1. pPc \in InEnqueue /\ Advance /\ UNCHANGED <<queue, hEv, missed>>
    BY <1>3 DEF SkipBad, HitGuard, DropNewest, InEnqueue, handler
  <2>2. Outcome \subseteq Outcome' /\ Current \in Outcome'
    BY <1>3 DEF SkipBad, HitGuard, DropNewest, Outcome
  <2>3. Accounted(e)
    BY <1>0, <2>1 DEF Advance, InEnqueue
  <2> QED BY <2>1, <2>2, <2>3, AdvanceAccounts
<1>4. CASE CountSent
  <2>1. pPc \in InEnqueue /\ Advance /\ UNCHANGED <<queue, hEv, missed>> /\ Outcome' = Outcome
    BY <1>4 DEF CountSent, InEnqueue, handler, outcomes, Outcome
  <2>2. Accounted(e)
    BY <1>0, <2>1 DEF Advance, InEnqueue
  <2>3. pos' = Current /\ pPc' # "sent" /\ fetchEnd' = fetchEnd
    BY <2>1 DEF Advance
  <2>4. Unsent' = Unsent
    BY <1>4, <2>3 DEF CountSent, Unsent, Current
  <2> QED BY <2>1, <2>2, <2>4 DEF Accounted, InMemory, InQueue
<1>5. CASE Send
  <2>1. queue' = Append(queue, Current) /\ pPc = "send" /\ pPc' = "sent"
        /\ UNCHANGED <<hEv, pos, fetchEnd, outcomes>>
    BY <1>5 DEF Send, handler
  <2>2. InQueue' = InQueue \cup {Current}
    <3>1. Current \in Events
      BY <2>1, InHand DEF InEnqueue
    <3> QED BY <3>1, <2>1, <1>a, LastArrives DEF InQueue, Contents
  <2>3. e \in Unsent => e = Current \/ e \in Unsent'
    BY <2>1, <1>a DEF Unsent, Current
  <2>4. Accounted(e)
    BY <1>0, <2>1
  <2> QED BY <2>1, <2>2, <2>3, <2>4 DEF Accounted, InMemory, Outcome, outcomes
<1>6. CASE DropOldest
  <2>1. pPc = "room" /\ pPc' = "evicted" /\ queue # <<>> /\ queue' = Tail(queue)
        /\ UNCHANGED <<hEv, pos, fetchEnd, settled, abandoned, missed>>
        /\ dropped' = dropped \cup {Head(queue)}
    BY <1>6 DEF DropOldest, handler
  <2>2. InQueue = {Head(queue)} \cup InQueue'
    BY <2>1, <1>a, HeadLeaves DEF InQueue, Contents
  <2>3. Accounted(e) /\ Unsent' = Unsent
    BY <1>0, <2>1 DEF Unsent
  <2> QED BY <2>1, <2>2, <2>3 DEF Accounted, InMemory, Outcome
<1>7. CASE Receive
  <2>1. hEv = 0 /\ queue # <<>> /\ queue' = Tail(queue) /\ hEv' = Head(queue)
        /\ UNCHANGED <<pPc, pos, fetchEnd, outcomes>>
    BY <1>7 DEF Receive, Positions, poller
  <2>0. queue # <<>> /\ queue' = Tail(queue) /\ queue \in Seq(Events)
    BY <2>1, <1>a
  <2>2. InQueue = {Head(queue)} \cup InQueue'
    BY <2>0, HeadLeaves DEF InQueue, Contents
  <2>3. Head(queue) # 0
    <3>1. Head(queue) \in Events
      BY <2>0, TailElements
    <3> QED BY <3>1 DEF Events
  <2>4. Accounted(e) /\ Unsent' = Unsent
    BY <1>0, <2>1 DEF Unsent, Current
  <2> QED BY <2>1, <2>2, <2>3, <2>4 DEF Accounted, InMemory, Outcome, outcomes
<1>8. CASE Settle \/ Abandon
  <2>1. UNCHANGED <<queue, pPc, pos, fetchEnd, missed>>
        /\ Outcome' = Outcome \cup {hEv}
    BY <1>8 DEF Settle, Abandon, HandlerDone, poller, Outcome
  <2>2. Accounted(e) /\ Unsent' = Unsent /\ InQueue' = InQueue
    BY <1>0, <2>1 DEF Unsent, Current, InQueue
  <2> QED BY <2>1, <2>2 DEF Accounted, InMemory
<1>9. CASE Crash
  BY <1>9 DEF Crash
<1>10. CASE \/ Commit \/ CommitFails \/ ReadConfig \/ LoadDepth \/ Signal \/ NothingToDrop
            \/ CountEvicted \/ CountReceived \/ Produce \/ UNCHANGED AllVars
            \/ \E on \in BOOLEAN : SetFlow(on)
  <2>1. /\ UNCHANGED <<queue, hEv, pos, fetchEnd, outcomes>>
        /\ pPc = "sent" <=> pPc' = "sent"
        /\ pPc = "join" <=> pPc' = "join"
    BY <1>10 DEF Commit, CommitFails, ReadConfig, LoadDepth, Signal, NothingToDrop,
                 CountEvicted, CountReceived, Produce, SetFlow, AllVars, poller, handler,
                 outcomes
  <2> QED BY <1>0, <2>1, NothingMoves
<1> QED BY <1>1, <1>2, <1>3, <1>4, <1>5, <1>6, <1>7, <1>8, <1>9, <1>10, Steps

\* No event that the process has read is lost between poller, channel, handler
\* and outcomes, for every queue size and any number of crashes.
THEOREM EventsAreAccounted == Spec => []NothingVanishes
<1>1. Init => NothingVanishes
  BY DEF Init, NothingVanishes
<1> QED BY <1>1, TypeCorrect, VanishStep, PTL DEF Spec

-----------------------------------------------------------------------------
(* The consumer implements Delivery, for every number of events, every     *)
(* queue size and any number of crashes.  The argument looks at the memory *)
(* of the process as a set: a step leaves it alone, takes a batch in, takes *)
(* one event out and gives it an outcome, or empties it.                   *)

\* An event that was missed is behind every offset at which the group may resume,
\* and so never read again; an event that was given up is ahead of the process
\* only after a crash.
FateInv ==
  /\ \A e \in missed : /\ e \notin InMemory /\ e <= logEnd
                       /\ pPc # "join" => e <= pos
                       /\ committed # NoCommit => e <= committed
  /\ IF pPc = "join" THEN pos = 0 ELSE committed <= pos
  /\ crashes = 0 => \A e \in abandoned \cup dropped : e <= Handed

\* The memory stays what it is.
Quiet == InMemory' = InMemory /\ UNCHANGED <<outcomes, crashes>>

\* Event e leaves the memory and has an outcome, which it may have had before.
Finishes(e) ==
  /\ e \in InMemory /\ InMemory' = InMemory \ {e}
  /\ UNCHANGED <<missed, crashes>>
  /\ \/ settled' = settled \cup {e} /\ UNCHANGED <<abandoned, dropped>>
     \/ /\ settled' = settled
        /\ (abandoned \cup dropped)' = (abandoned \cup dropped) \cup {e}

-----------------------------------------------------------------------------
(* What the steps do to the memory.                                        *)

LEMMA UnsentIsAhead == Unsent = Handed + 1..fetchEnd
BY DEF Unsent, Handed

LEMMA MemoryTyped == ASSUME TypeOK, Positions PROVE InMemory \subseteq Events
<1>1. InQueue \subseteq Events
  BY DEF InQueue, TypeOK
<1>2. {hEv} \ {0} \subseteq Events
  BY DEF TypeOK
<1>3. Unsent \subseteq Events
  <2>1. Handed \in Nat /\ fetchEnd \in 0..MaxEvents
    BY ConsumerAssumption DEF Handed, Current, TypeOK
  <2> QED BY <2>1, UnsentIsAhead, ConsumerAssumption DEF Events
<1> QED BY <1>1, <1>2, <1>3 DEF InMemory

\* The parts of the memory are ordered and so disjoint.
LEMMA MemoryOrdered ==
  ASSUME TypeOK, Positions, OrderInv
  PROVE  /\ Handed \in Nat /\ hEv \in Nat
         /\ \A e \in InQueue : e \in Nat /\ hEv < e /\ e <= Handed
         /\ \A e \in Unsent : e \in Nat /\ Handed < e
<1>1. Handed \in Nat /\ hEv \in Nat /\ fetchEnd \in Nat
  BY ConsumerAssumption DEF Handed, Current, TypeOK, Events
<1>2. \A e \in Unsent : e \in Nat /\ Handed < e
  BY <1>1, UnsentIsAhead
<1>3. queue \in Seq(Events)
  BY DEF TypeOK
<1>4. \A i \in 1..Len(queue) : queue[i] \in Nat /\ hEv < queue[i] /\ queue[i] <= Handed
  <2>1. \A i \in 1..Len(queue) : queue[i] \in Events
    BY <1>3
  <2>2. \A i \in 1..Len(queue) : hEv < queue[i] /\ queue[i] <= Handed
    BY DEF OrderInv, InOrder, Handed
  <2> QED BY <2>1, <2>2 DEF Events
<1> QED BY <1>1, <1>2, <1>4 DEF InQueue

LEMMA QuietSteps ==
  ASSUME TypeOK, Positions, OrderInv,
         \/ Commit \/ CommitFails \/ ReadConfig \/ LoadDepth \/ Signal \/ NothingToDrop
         \/ CountEvicted \/ Send \/ CountSent \/ Receive \/ CountReceived
         \/ Produce \/ UNCHANGED AllVars \/ \E on \in BOOLEAN : SetFlow(on)
  PROVE  Quiet /\ Handed <= Handed'
<1>a. pos \in Nat /\ fetchEnd \in Nat /\ queue \in Seq(Events) /\ hEv \in Nat
  BY ConsumerAssumption DEF TypeOK, Events
<1>1. CASE \/ Commit \/ CommitFails \/ ReadConfig \/ LoadDepth \/ Signal \/ NothingToDrop
           \/ CountEvicted \/ CountReceived \/ Produce \/ UNCHANGED AllVars
           \/ \E on \in BOOLEAN : SetFlow(on)
  <2>1. /\ UNCHANGED <<queue, hEv, pos, fetchEnd, outcomes, crashes>>
        /\ pPc = "sent" <=> pPc' = "sent"
    BY <1>1 DEF Commit, CommitFails, ReadConfig, LoadDepth, Signal, NothingToDrop,
                CountEvicted, CountReceived, Produce, SetFlow, AllVars, poller, handler,
                outcomes
  <2>2. UNCHANGED <<InQueue, Unsent, Handed>>
    BY <2>1 DEF InQueue, Unsent, Handed, Current
  <2> QED BY <2>1, <2>2, MemoryOrdered DEF Quiet, InMemory
<1>2. CASE Send
  <2>1. /\ queue' = Append(queue, Current) /\ pPc = "send" /\ pPc' = "sent"
        /\ UNCHANGED <<hEv, pos, fetchEnd, outcomes, crashes>>
    BY <1>2 DEF Send, handler
  <2>2. Current \in Events /\ Current <= fetchEnd
    BY <2>1, InHand DEF InEnqueue
  <2>3. InQueue' = InQueue \cup {Current}
    BY <2>1, <2>2, <1>a, LastArrives DEF InQueue, Contents
  <2>4. Unsent = Unsent' \cup {Current}
    BY <2>1, <2>2, <1>a DEF Unsent, Current
  <2>5. InMemory' = InMemory
    BY <2>1, <2>3, <2>4 DEF InMemory
  <2>6. Handed <= Handed'
    BY <2>1, <1>a DEF Handed, Current
  <2> QED BY <2>1, <2>5, <2>6 DEF Quiet
<1>3. CASE CountSent
  <2>1. /\ pPc = "sent" /\ pPc' # "sent" /\ pos' = Current
        /\ UNCHANGED <<queue, hEv, fetchEnd, outcomes, crashes>>
    BY <1>3 DEF CountSent, Advance, handler
  <2>2. UNCHANGED <<InQueue, Unsent, Handed>>
    BY <2>1 DEF InQueue, Unsent, Handed, Current
  <2> QED BY <2>1, <2>2, MemoryOrdered DEF Quiet, InMemory
<1>4. CASE Receive
  <2>1. /\ hEv = 0 /\ hEv' = Head(queue)
        /\ UNCHANGED <<pPc, pos, fetchEnd, outcomes, crashes>>
    BY <1>4 DEF Receive, Positions, poller
  <2>2. queue # <<>> /\ queue' = Tail(queue) /\ queue \in Seq(Events)
    BY <1>4, <1>a DEF Receive
  <2>3. InQueue = {Head(queue)} \cup InQueue'
    <3>1. Contents(queue) = {Head(queue)} \cup Contents(Tail(queue))
      BY <2>2, HeadLeaves
    <3> QED BY <2>2, <3>1 DEF InQueue, Contents
  <2>4. Head(queue) # 0
    <3>1. Head(queue) \in Events
      BY <2>2, TailElements
    <3> QED BY <3>1 DEF Events
  <2>5. UNCHANGED <<Unsent, Handed>>
    BY <2>1 DEF Unsent, Handed, Current
  <2>6. InMemory' = InMemory
    BY <2>1, <2>3, <2>4, <2>5 DEF InMemory
  <2> QED BY <2>1, <2>5, <2>6, MemoryOrdered DEF Quiet
<1> QED BY <1>1, <1>2, <1>3, <1>4

\* The record in hand leaves the memory by Advance, which does not look at it.
LEMMA HandEmptied ==
  ASSUME TypeOK, Positions, OrderInv, pPc \in InEnqueue, pPc # "sent", Advance,
         UNCHANGED <<queue, hEv>>
  PROVE  /\ Current \in InMemory /\ InMemory' = InMemory \ {Current}
         /\ Handed <= Handed' /\ Current <= Handed'
<1>1. pos \in Nat /\ fetchEnd \in Nat /\ Current \in Nat /\ Current <= fetchEnd
  BY InHand, ConsumerAssumption DEF TypeOK
<1>2. pPc' # "sent" /\ pos' = Current /\ fetchEnd' = fetchEnd
  BY DEF Advance
<1>3. Handed = pos /\ Handed' = Current /\ Current = pos + 1
  BY <1>2 DEF Handed, Current
<1>4. Current \in Unsent /\ Unsent' = Unsent \ {Current}
  BY <1>1, <1>2, <1>3 DEF Unsent, Current
<1>5. InQueue' = InQueue /\ Current \notin InQueue /\ Current # hEv
  BY <1>1, <1>3, MemoryOrdered DEF InQueue, OrderInv
<1>6. Current \in InMemory /\ InMemory' = InMemory \ {Current}
  BY <1>4, <1>5 DEF InMemory
<1> QED BY <1>1, <1>3, <1>6

LEMMA FinishSteps ==
  ASSUME TypeOK, Positions, OrderInv,
         SkipBad \/ HitGuard \/ DropNewest \/ DropOldest \/ Settle \/ Abandon
  PROVE  \E e \in Events : Finishes(e) /\ e <= Handed' /\ Handed <= Handed'
<1>1. CASE SkipBad \/ HitGuard \/ DropNewest
  <2>1. /\ pPc \in InEnqueue /\ pPc # "sent" /\ Advance
        /\ UNCHANGED <<queue, hEv, settled, missed, crashes>>
        /\ (abandoned \cup dropped)' = (abandoned \cup dropped) \cup {Current}
    BY <1>1 DEF SkipBad, HitGuard, DropNewest, InEnqueue, handler
  <2>2. Finishes(Current) /\ Current <= Handed' /\ Handed <= Handed'
    BY <2>1, HandEmptied DEF Finishes
  <2>3. Current \in Events
    BY <2>1, InHand
  <2> QED BY <2>2, <2>3
<1>2. CASE DropOldest
  <2>1. /\ pPc = "room" /\ pPc' = "evicted"
        /\ UNCHANGED <<hEv, pos, fetchEnd, settled, abandoned, missed, crashes>>
        /\ dropped' = dropped \cup {Head(queue)}
    BY <1>2 DEF DropOldest, handler
  <2>2. queue # <<>> /\ queue' = Tail(queue) /\ queue \in Seq(Events)
    BY <1>2 DEF DropOldest, TypeOK
  <2>3. InQueue = {Head(queue)} \cup InQueue' /\ Head(queue) \in Events
    <3>1. Contents(queue) = {Head(queue)} \cup Contents(Tail(queue))
      BY <2>2, HeadLeaves
    <3>2. Head(queue) \in Events
      BY <2>2, TailElements
    <3> QED BY <2>2, <3>1, <3>2 DEF InQueue, Contents
  <2>4. UNCHANGED <<Unsent, Handed>>
    BY <2>1 DEF Unsent, Handed, Current
  <2>5. Head(queue) \notin InQueue'
    <3>1. \A i \in 1..Len(Tail(queue)) : Head(queue) < Tail(queue)[i]
      BY <2>2, TailInOrder
    <3>2. \A e \in InQueue' : Head(queue) < e
      BY <3>1, <2>2 DEF InQueue
    <3> QED BY <3>2, <2>3 DEF Events
  <2>6. hEv < Head(queue) /\ Head(queue) <= Handed /\ Head(queue) \in Nat
    BY <2>3, MemoryOrdered
  <2>7. Head(queue) # hEv /\ Head(queue) \notin Unsent
    BY <2>6, MemoryOrdered
  <2>8. Head(queue) \in InMemory /\ InMemory' = InMemory \ {Head(queue)}
    BY <2>1, <2>3, <2>4, <2>5, <2>7 DEF InMemory
  <2>9. Finishes(Head(queue))
    BY <2>1, <2>8 DEF Finishes
  <2> QED BY <2>3, <2>4, <2>6, <2>9, MemoryOrdered
<1>3. CASE Settle \/ Abandon
  <2>1. /\ hEv # 0 /\ hEv' = 0
        /\ UNCHANGED <<queue, pPc, pos, fetchEnd, missed, dropped, crashes>>
        /\ \/ settled' = settled \cup {hEv} /\ UNCHANGED abandoned
           \/ abandoned' = abandoned \cup {hEv} /\ UNCHANGED settled
    BY <1>3 DEF Settle, Abandon, HandlerDone, poller, Positions
  <2>2. UNCHANGED <<InQueue, Unsent, Handed>>
    BY <2>1 DEF InQueue, Unsent, Handed, Current
  <2>3. hEv \notin InQueue /\ hEv \notin Unsent
    BY MemoryOrdered DEF OrderInv
  <2>4. hEv \in InMemory /\ InMemory' = InMemory \ {hEv}
    BY <2>1, <2>2, <2>3 DEF InMemory
  <2>5. Finishes(hEv)
    BY <2>1, <2>4 DEF Finishes
  <2>6. hEv \in Events /\ hEv <= Handed
    BY <2>1 DEF TypeOK, OrderInv
  <2> QED BY <2>2, <2>5, <2>6, MemoryOrdered
<1> QED BY <1>1, <1>2, <1>3

\* A process that has not joined its group has nothing in memory, nor has one
\* that has just joined.
LEMMA JoinEmpty ==
  ASSUME TypeOK, Positions, OrderInv, Join
  PROVE  InMemory = {} /\ InMemory' = {}
<1>1. /\ pPc = "join" /\ queue = <<>> /\ hEv = 0 /\ UNCHANGED <<queue, hEv>>
      /\ pPc' = "poll" /\ fetchEnd' = pos' /\ pos' \in Nat /\ pos \in Nat /\ fetchEnd \in Nat
  BY ConsumerAssumption DEF Join, OrderInv, handler, TypeOK, NoCommit
<1>2. fetchEnd <= pos
  BY <1>1 DEF Positions, InEnqueue
<1>3. InQueue = {} /\ InQueue' = {}
  BY <1>1 DEF InQueue
<1>4. Unsent = {} /\ Unsent' = {}
  <2>1. Unsent = pos + 1..fetchEnd /\ Unsent' = pos' + 1..pos'
    BY <1>1 DEF Unsent
  <2>2. pos + 1..fetchEnd = {}
    <3>1. pos \in Nat /\ fetchEnd \in Nat
      BY <1>1
    <3> QED BY <1>2, <3>1
  <2>3. pos' + 1..pos' = {}
    <3>1. pos' \in Nat
      BY <1>1
    <3>2. \A n \in Nat : \A i \in n + 1..n : FALSE
      OBVIOUS
    <3> QED BY <3>1, <3>2
  <2> QED BY <2>1, <2>2, <2>3
<1> QED BY <1>1, <1>3, <1>4 DEF InMemory

LEMMA CrashEmpty == Crash => InMemory' = {} /\ UNCHANGED outcomes
<1> SUFFICES ASSUME Crash PROVE InMemory' = {} /\ UNCHANGED outcomes
  OBVIOUS
<1>1. queue' = <<>> /\ hEv' = 0 /\ pPc' = "join" /\ pos' = 0 /\ fetchEnd' = 0
  BY DEF Crash
<1> QED BY <1>1 DEF Crash, InMemory, InQueue, Unsent

LEMMA PollTakes ==
  ASSUME TypeOK, Positions, Poll
  PROVE  /\ pPc = "poll" /\ UNCHANGED <<pos, outcomes, crashes, Handed>>
         /\ InMemory' = InMemory \cup (pos + 1..fetchEnd') /\ Handed = pos
<1>1. /\ pPc = "poll" /\ pPc' = "config" /\ pos \in Nat /\ fetchEnd \in Nat
      /\ UNCHANGED <<queue, hEv, pos, outcomes, crashes>>
  BY ConsumerAssumption DEF Poll, handler, TypeOK
<1>2. fetchEnd <= pos
  BY <1>1 DEF Positions, InEnqueue
<1>3. Unsent = {} /\ Unsent' = pos + 1..fetchEnd' /\ InQueue' = InQueue
  BY <1>1, <1>2 DEF Unsent, InQueue
<1> QED BY <1>1, <1>3 DEF InMemory, Handed

-----------------------------------------------------------------------------
(* The invariant.                                                          *)

LEMMA FateStep ==
  TypeOK /\ Positions /\ OrderInv /\ FateInv /\ [Next]_vars => FateInv'
<1> SUFFICES ASSUME TypeOK, Positions, OrderInv, FateInv, [Next]_vars PROVE FateInv'
  OBVIOUS
<1>a. /\ pos \in Nat /\ logEnd \in Nat /\ committed \in Int /\ missed \subseteq Nat
      /\ abandoned \cup dropped \subseteq Nat /\ crashes \in Nat /\ Handed \in Nat
  BY MemoryOrdered, ConsumerAssumption DEF TypeOK, Events, NoCommit
<1>1. CASE Join
  <2>1. /\ pPc = "join" /\ pPc' = "poll" /\ UNCHANGED <<logEnd, committed, abandoned, dropped, crashes>>
        /\ pos' = (IF committed = NoCommit THEN logEnd ELSE committed) /\ pos' \in Nat
        /\ missed' \subseteq missed \cup 1..pos'
    BY <1>1, <1>a DEF Join, broker, TypeOK, NoCommit
  <2>2. \A e \in missed' : e <= pos'
    BY <2>1, <1>a DEF FateInv
  <2>3. pos' <= logEnd /\ (committed # NoCommit => pos' = committed) /\ committed <= pos'
    BY <2>1, <1>a DEF Positions, NoCommit
  <2>4. Handed = pos /\ Handed' = pos'
    BY <2>1 DEF Handed
  <2>5. crashes = 0 => \A e \in abandoned \cup dropped : e <= pos'
    <3>1. pos <= pos'
      BY <1>a, <2>1 DEF FateInv
    <3> QED BY <2>1, <2>4, <3>1, <1>a DEF FateInv
  <2>6. \A e \in missed' : e \notin InMemory'
    BY <1>1, JoinEmpty
  <2>7. \A e \in missed' : e <= logEnd' /\ (committed' # NoCommit => e <= committed')
    BY <2>1, <2>2, <2>3, <1>a
  <2> QED BY <2>1, <2>2, <2>3, <2>4, <2>5, <2>6, <2>7 DEF FateInv
<1>2. CASE Poll
  <2>1. UNCHANGED <<logEnd, committed>> /\ pPc' # "join"
    BY <1>2 DEF Poll, broker
  <2>2. \A e \in missed : e \notin InMemory'
    BY <1>2, <1>a, PollTakes DEF FateInv
  <2> QED BY <1>2, <2>1, <2>2, PollTakes DEF FateInv, outcomes
<1>3. CASE SkipBad \/ HitGuard \/ DropNewest \/ DropOldest \/ Settle \/ Abandon
  <2>1. PICK e \in Events : Finishes(e) /\ e <= Handed' /\ Handed <= Handed'
    BY <1>3, FinishSteps
  <2>2. UNCHANGED <<logEnd, committed>> /\ (pPc' = "join" <=> pPc = "join") /\ pos <= pos'
        /\ pos' \in Nat /\ (pPc = "join" => pos' = pos)
    BY <1>3, <1>a DEF SkipBad, HitGuard, DropNewest, DropOldest, Settle, Abandon, HandlerDone,
                      Advance, Current, broker, poller
  <2>3. Handed' \in Nat
    <3>1. pos' \in Nat
      BY <2>2
    <3>2. Handed' = pos' \/ Handed' = pos' + 1
      BY DEF Handed, Current
    <3> QED BY <3>1, <3>2
  <2>4. crashes' = 0 => \A d \in (abandoned \cup dropped)' : d <= Handed'
    <3>1. (abandoned \cup dropped)' \subseteq (abandoned \cup dropped) \cup {e}
      BY <2>1 DEF Finishes
    <3>2. crashes' = crashes
      BY <2>1 DEF Finishes
    <3> QED BY <2>1, <2>3, <3>1, <3>2, <1>a DEF FateInv
  <2>5. \A d \in missed' : d \in missed /\ d \notin InMemory'
    BY <2>1 DEF Finishes, FateInv
  <2>6. \A d \in missed' : pPc' # "join" => d <= pos'
    <3>1. \A d \in missed' : d \in Nat /\ (pPc # "join" => d <= pos)
      BY <2>5, <1>a DEF FateInv
    <3> QED BY <2>2, <3>1, <1>a
  <2>7. IF pPc' = "join" THEN pos' = 0 ELSE committed' <= pos'
    BY <2>2, <1>a DEF FateInv
  <2> QED BY <2>2, <2>4, <2>5, <2>6, <2>7 DEF FateInv
<1>4. CASE Crash
  <2>1. pPc' = "join" /\ pos' = 0 /\ UNCHANGED <<logEnd, committed, missed>> /\ crashes' # 0
    BY <1>4, <1>a DEF Crash, broker, outcomes
  <2> QED BY <1>4, <2>1, CrashEmpty DEF FateInv
<1>5. CASE \/ Commit \/ CommitFails \/ ReadConfig \/ LoadDepth \/ Signal \/ NothingToDrop
           \/ CountEvicted \/ Send \/ CountSent \/ Receive \/ CountReceived
           \/ Produce \/ UNCHANGED AllVars \/ \E on \in BOOLEAN : SetFlow(on)
  <2>1. Quiet /\ Handed <= Handed'
    BY <1>5, QuietSteps
  <2>2. /\ logEnd <= logEnd' /\ pos <= pos' /\ (pPc' = "join" <=> pPc = "join")
        /\ committed' = committed \/ (committed' = pos /\ pos' = pos /\ pPc # "join")
        /\ pos' \in Nat /\ logEnd' \in Nat /\ (pPc = "join" => pos' = pos)
    <3>1. CASE Commit \/ CountSent \/ Produce
      BY <1>a, <3>1 DEF Commit, CountSent, Produce, Advance, Current, broker, poller
    <3>2. CASE \/ CommitFails \/ ReadConfig \/ LoadDepth \/ Signal \/ NothingToDrop
               \/ CountEvicted \/ Send
      <4>1. UNCHANGED <<logEnd, committed, pos>> /\ pPc # "join" /\ pPc' # "join"
        BY <3>2 DEF CommitFails, ReadConfig, LoadDepth, Signal, NothingToDrop, CountEvicted,
                    Send, broker
      <4> QED BY <1>a, <4>1
    <3>3. CASE Receive \/ CountReceived \/ UNCHANGED AllVars \/ \E on \in BOOLEAN : SetFlow(on)
      <4>1. UNCHANGED <<logEnd, committed, pos, pPc>>
        BY <3>3 DEF Receive, CountReceived, SetFlow, AllVars, broker, poller
      <4> QED BY <1>a, <4>1
    <3> QED BY <1>5, <3>1, <3>2, <3>3
  <2>3. Handed' \in Nat
    <3>1. pos' \in Nat
      BY <2>2
    <3>2. Handed' = pos' \/ Handed' = pos' + 1
      BY DEF Handed, Current
    <3> QED BY <3>1, <3>2
  <2>4. crashes' = 0 => \A e \in (abandoned \cup dropped)' : e <= Handed'
    BY <2>1, <2>3, <1>a DEF Quiet, outcomes, FateInv
  <2>5. \A e \in missed' : e \in missed /\ e \notin InMemory'
    BY <2>1 DEF Quiet, outcomes, FateInv
  <2>6. \A e \in missed' : /\ e <= logEnd' /\ (pPc' # "join" => e <= pos')
                           /\ committed' # NoCommit => e <= committed'
    <3>1. \A e \in missed' : /\ e \in Nat /\ e <= logEnd /\ (pPc # "join" => e <= pos)
                             /\ committed # NoCommit => e <= committed
      BY <2>5, <1>a DEF FateInv
    <3> QED BY <2>2, <3>1, <1>a
  <2>7. IF pPc' = "join" THEN pos' = 0 ELSE committed' <= pos'
    BY <2>2, <1>a DEF FateInv
  <2> QED BY <2>4, <2>5, <2>6, <2>7 DEF FateInv
<1> QED BY <1>1, <1>2, <1>3, <1>4, <1>5, Steps

LEMMA FatesConsistent == Spec => [](TypeOK /\ Positions /\ OrderInv /\ FateInv)
<1>1. Init => FateInv
  BY DEF Init, FateInv
<1> QED BY <1>1, FateStep, TypeCorrect, EventsStayInOrder, PTL DEF Spec

-----------------------------------------------------------------------------
(* What a crash can lose.                                                  *)

\* A channel holds at most as many different events as it is long.
LEMMA ContentsBounded ==
  ASSUME NEW q \in Seq(Events)
  PROVE  IsFiniteSet(Contents(q)) /\ Cardinality(Contents(q)) <= Len(q)
<1> DEFINE f == [i \in 1..Len(q) |-> q[i]]
<1>1. IsFiniteSet(1..Len(q)) /\ Cardinality(1..Len(q)) = Len(q)
  <2>1. Len(q) \in Nat
    OBVIOUS
  <2> QED BY <2>1, FS_Interval
<1>2. f \in Surjection(1..Len(q), Contents(q))
  BY DEF Surjection, Contents
<1> QED BY <1>1, <1>2, FS_Surjection

\* The process has been started and is not in its group yet.
Joining == pPc = "join"

\* While the process runs, what is committed without an outcome is in the channel
\* or in the handler: the poller has handed over all that it commits.
LEMMA RunningLosesLittle ==
  TypeOK /\ Positions /\ DepthInv /\ FateInv /\ NothingVanishes
    => Joining \/ LossIsBounded
<1> SUFFICES ASSUME TypeOK, Positions, DepthInv, FateInv, NothingVanishes,
                    pPc # "join", committed # NoCommit
             PROVE  Cardinality((1..committed) \ (Outcome \cup missed)) <= Cap + 1
  BY DEF LossIsBounded, Joining
<1> DEFINE atRisk == (1..committed) \ (Outcome \cup missed)
           holders == Contents(queue) \cup {hEv}
<1>1. committed \in Nat /\ pos \in Nat /\ fetchEnd \in Nat /\ queue \in Seq(Events)
  BY ConsumerAssumption DEF TypeOK
<1>2. committed <= pos /\ pos <= fetchEnd
  BY DEF FateInv, Positions
<1>3. atRisk \subseteq holders
  <2> SUFFICES ASSUME NEW e \in atRisk PROVE e \in holders
    OBVIOUS
  <2>1. e \in InMemory
    BY <1>1, <1>2 DEF NothingVanishes
  <2>2. e \notin Unsent
    BY <1>1, <1>2 DEF Unsent, Current
  <2> QED BY <2>1, <2>2 DEF InMemory, InQueue, Contents
<1>4. IsFiniteSet(Contents(queue)) /\ Cardinality(Contents(queue)) <= Len(queue)
  BY <1>1, ContentsBounded
<1>5. IsFiniteSet(holders) /\ Cardinality(holders) <= Cardinality(Contents(queue)) + 1
  <2>1. Cardinality(Contents(queue)) \in Nat
    BY <1>4, FS_CardinalityType
  <2> QED BY <1>4, <2>1, FS_AddElement
<1>6. IsFiniteSet(atRisk) /\ Cardinality(atRisk) <= Cardinality(holders)
  BY <1>3, <1>5, FS_Subset
<1>7. Len(queue) <= Cap /\ Len(queue) \in Nat /\ Cap \in Nat
  BY <1>1, CapPositive DEF DepthInv, TypeOK
<1>8. {Cardinality(atRisk), Cardinality(Contents(queue)), Cardinality(holders)} \subseteq Nat
  BY <1>4, <1>5, <1>6, FS_CardinalityType
<1> QED BY <1>4, <1>5, <1>6, <1>7, <1>8

\* A crash changes nothing of it, and until the group is joined again nothing else
\* does.
LEMMA LossStep ==
  TypeOK /\ Positions /\ OrderInv /\ LossIsBounded /\ [Next]_vars
    => (Joining' => LossIsBounded')
<1> SUFFICES ASSUME TypeOK, Positions, OrderInv, LossIsBounded, [Next]_vars,
                    pPc' = "join"
             PROVE  LossIsBounded'
  BY DEF Joining
<1>1. Crash \/ Produce \/ UNCHANGED AllVars \/ \E on \in BOOLEAN : SetFlow(on)
  <2>1. pPc = "join" \/ Crash
    BY Steps DEF Join, Poll, SkipBad, Commit, CommitFails, ReadConfig, HitGuard, LoadDepth,
       Signal, DropOldest, NothingToDrop, CountEvicted, Send, DropNewest, CountSent, Advance,
       Receive, CountReceived, Settle, Abandon, HandlerDone, Produce, SetFlow, AllVars, poller
  <2>2. pPc = "join" => queue = <<>> /\ hPc = "idle"
    BY DEF OrderInv, Positions
  <2> QED
    BY <2>1, <2>2, Steps DEF Join, Poll, SkipBad, Commit, CommitFails, ReadConfig, HitGuard,
       LoadDepth, Signal, DropOldest, NothingToDrop, CountEvicted, Send, DropNewest,
       CountSent, Receive, CountReceived, Settle, Abandon, HandlerDone
<1>2. UNCHANGED <<committed, bootFlow, outcomes>>
  BY <1>1 DEF Crash, Produce, SetFlow, AllVars, broker, config, outcomes
<1> QED BY <1>2 DEF LossIsBounded, Outcome, outcomes, Cap

\* What a crash can lose behind the committed offset is no more than the channel
\* and the handler hold, for all queue and batch sizes and any number of crashes.
THEOREM LossBound == Spec => []LossIsBounded
<1>1. Init => LossIsBounded
  BY DEF Init, LossIsBounded
<1> QED BY <1>1, RunningLosesLittle, LossStep, FatesConsistent, StaleDepthIsSafe,
           EventsAreAccounted, PTL DEF Spec

-----------------------------------------------------------------------------
(* The refinement.                                                         *)

Fates == [e \in Events |-> FateOf(e)]

LEMMA RefineInit == Init => D!Init
<1> SUFFICES ASSUME Init PROVE D!Init
  OBVIOUS
<1>1. InMemory = {}
  BY DEF Init, InMemory, InQueue, Unsent
<1>2. \A e : FateOf(e) = "ahead"
  BY <1>1 DEF Init, FateOf
<1> QED BY <1>2 DEF Init, D!Init

LEMMA RefineStep ==
  TypeOK /\ Positions /\ OrderInv /\ FateInv /\ [Next]_vars => [D!Next]_(D!vars)
<1> SUFFICES ASSUME TypeOK, Positions, OrderInv, FateInv, [Next]_vars
             PROVE  D!Next \/ (Fates' = Fates /\ (crashes > 0)' = (crashes > 0))
  BY DEF D!vars, Fates
<1>a. \A e \in Events : Fates[e] = FateOf(e) /\ Fates'[e] = FateOf(e)'
  BY DEF Fates
<1>b. Fates' \in [Events -> D!Fate]
  <2>1. \A e \in Events : FateOf(e)' \in D!Fate
    BY DEF FateOf, D!Fate
  <2> QED BY <2>1 DEF Fates
<1>1. CASE Join
  <2>1. UNCHANGED <<settled, abandoned, dropped, crashes>> /\ missed \subseteq missed'
        /\ \A e \in missed' \ missed : e \notin settled \cup abandoned \cup dropped
    BY <1>1 DEF Join, Outcome
  <2>2. \A e \in Events : FateOf(e)' # FateOf(e) => FateOf(e) = "ahead" /\ FateOf(e)' = "missed"
    BY <1>1, <2>1, JoinEmpty DEF FateOf
  <2>3. D!Miss
    BY <1>a, <1>b, <2>1, <2>2 DEF D!Miss, D!Moves, Fates
  <2> QED BY <2>3 DEF D!Next
<1>2. CASE Poll
  <2>1. UNCHANGED <<settled, abandoned, dropped, missed, crashes>>
        /\ InMemory' = InMemory \cup (pos + 1..fetchEnd') /\ Handed = pos /\ pos \in Nat
        /\ pPc # "join"
    BY <1>2, PollTakes, ConsumerAssumption DEF outcomes, TypeOK
  <2>2. \A e \in pos + 1..fetchEnd' : /\ e \notin missed
                                      /\ crashes = 0 => e \notin abandoned \cup dropped
    BY <2>1 DEF FateInv
  <2>3. \A e \in Events : FateOf(e)' # FateOf(e) =>
          /\ FateOf(e) = "ahead" \/ (FateOf(e) = "discarded" /\ crashes > 0)
          /\ FateOf(e)' = "inflight"
    <3> SUFFICES ASSUME NEW e \in Events, FateOf(e)' # FateOf(e)
                 PROVE  /\ FateOf(e) = "ahead" \/ (FateOf(e) = "discarded" /\ crashes > 0)
                        /\ FateOf(e)' = "inflight"
      OBVIOUS
    <3>1. e \notin settled /\ e \notin InMemory /\ e \in pos + 1..fetchEnd'
      BY <2>1 DEF FateOf
    <3>2. crashes = 0 \/ crashes > 0
      BY ConsumerAssumption DEF TypeOK
    <3> QED BY <2>1, <2>2, <3>1, <3>2 DEF FateOf
  <2>4. D!Read
    BY <1>a, <1>b, <2>1, <2>3 DEF D!Read, D!Moves, Fates
  <2> QED BY <2>4 DEF D!Next
<1>3. CASE SkipBad \/ HitGuard \/ DropNewest \/ DropOldest \/ Settle \/ Abandon
  <2>1. PICK e \in Events : Finishes(e)
    BY <1>3, FinishSteps
  <2>2. crashes' = crashes /\ \A d \in Events \ {e} : FateOf(d)' = FateOf(d)
    BY <2>1 DEF Finishes, FateOf
  <2>3. CASE e \in settled
    <3>1. FateOf(e)' = FateOf(e)
      BY <2>1, <2>3 DEF Finishes, FateOf
    <3> QED BY <2>2, <3>1 DEF Fates
  <2>4. CASE e \notin settled
    <3>1. FateOf(e) = "inflight" /\ FateOf(e)' \in {"settled", "discarded"}
      BY <2>1, <2>4 DEF Finishes, FateOf
    <3>2. Fates' = [Fates EXCEPT ![e] = FateOf(e)']
      BY <2>2 DEF Fates
    <3>3. \E o \in {"settled", "discarded"} : D!Ends(e, o)
      BY <1>a, <2>2, <3>1, <3>2 DEF D!Ends, Fates
    <3> QED BY <3>3 DEF D!Next
  <2> QED BY <2>3, <2>4
<1>4. CASE Crash
  <2>1. InMemory' = {} /\ UNCHANGED <<settled, abandoned, dropped, missed>>
    BY <1>4, CrashEmpty DEF outcomes
  <2>2. (crashes > 0)' = TRUE
    BY <1>4, ConsumerAssumption DEF Crash, TypeOK
  <2>3. \A e \in Events : FateOf(e)' # "inflight"
    BY <2>1 DEF FateOf
  <2>4. \A e \in Events : FateOf(e)' # FateOf(e) =>
          FateOf(e) = "inflight" /\ FateOf(e)' \in {"ahead", "discarded"}
    BY <2>1 DEF FateOf, FateInv
  <2>5. D!Crash
    BY <1>a, <1>b, <2>2, <2>3, <2>4 DEF D!Crash, D!Moves, Fates
  <2> QED BY <2>5 DEF D!Next
<1>5. CASE \/ Commit \/ CommitFails \/ ReadConfig \/ LoadDepth \/ Signal \/ NothingToDrop
           \/ CountEvicted \/ Send \/ CountSent \/ Receive \/ CountReceived
           \/ Produce \/ UNCHANGED AllVars \/ \E on \in BOOLEAN : SetFlow(on)
  <2>1. Quiet
    BY <1>5, QuietSteps
  <2> QED BY <2>1 DEF Quiet, outcomes, Fates, FateOf
<1> QED BY <1>1, <1>2, <1>3, <1>4, <1>5, Steps

\* Neither the channel nor its counter, neither the offsets nor the goroutines show
\* in what becomes of the events.
THEOREM DeliveryImplemented == Spec => ImplementsDelivery
BY FatesConsistent, RefineInit, RefineStep, PTL DEF Spec, ImplementsDelivery, D!Spec

=============================================================================
