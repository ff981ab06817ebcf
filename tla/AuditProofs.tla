---------------------------- MODULE AuditProofs ----------------------------
(***************************************************************************)
(* What holds of the audit tables and the replays for every number of       *)
(* events and of replays.                                                   *)
(***************************************************************************)
EXTENDS AuditTables, FiniteSetTheorems, TLAPS

(* The inductive invariants, in parts.                                      *)

\* A worker with a record in its hands is inside its batch, and the batch ends
\* within the topic.
Positions ==
  \A w \in Workers :
    /\ pos[w] <= end[w] /\ end[w] <= logEnd
    /\ at[w] \in {"record", "insert"} => pos[w] < end[w]

\* Replays are numbered by their requests; all but the last are cancelled.
Superseded ==
  \A r \in Replays :
    /\ r > requested => at[r] = "none" /\ pos[r] = 0
    /\ r < requested => r \in cancelled

\* Once a cancelled replay has written its row it is not about to write one.
LateOnce ==
  \A r \in Replays :
    /\ late[r] <= 1
    /\ late[r] = 1 => r \in cancelled /\ at[r] # "insert"

\* Once a worker has written its stray row it has not decided on another one.
StrayOnce ==
  \A w \in Workers :
    /\ stray[w] <= 1
    /\ stray[w] = 1 => /\ mode = "idempotent"
                       /\ ~(at[w] = "insert" /\ hMode[w] = "naive")

\* The steps of Next, one by one: the case split of every proof below.
LEMMA Steps ==
  ASSUME [Next]_vars
  PROVE  \/ Produce \/ Reset \/ RequestReplay \/ Receive \/ Restart \/ Rejoin
         \/ \E m \in Modes : SetMode(m)
         \/ \E r \in Replays, m \in Modes : Launch(r, m)
         \/ \E r \in Replays : Fetch(r) \/ Return(r) \/ GiveUp(r)
                               \/ RejoinReplay(r)
         \/ \E w \in Workers : Begin(w) \/ Refused(w) \/ InsertFails(w)
                               \/ Insert(w)
         \/ UNCHANGED <<logEnd, audit, naive, mode, requested, cancelled,
                        resumes, at, pos, end, hMode, late, stray, incomplete>>
  BY DEF Next, ReplayLoop, Handle, Workers, vars, delivery, tables, replay,
         worker, history

\* The live handler is no replay.
LEMMA LiveApart == Live \notin Replays /\ Workers \subseteq Nat
  BY AuditAssumption DEF Live, Replays, Workers

\* A record in the hands of a worker is an event of the topic.
LEMMA InHand ==
  ASSUME TypeOK, Positions, NEW w \in Workers, at[w] \in {"record", "insert"}
  PROVE  Event(w) \in Events /\ Event(w) <= end[w] /\ Event(w) = pos[w] + 1
  BY AuditAssumption DEF TypeOK, Positions, Events, Event

-----------------------------------------------------------------------------
\* NextRecord keeps the worker typed and within its batch.
LEMMA NextRecordKeeps ==
  ASSUME TypeOK, Positions, NEW w \in Workers,
         at[w] \in {"record", "insert"}, NextRecord(w)
  PROVE  /\ logEnd' = logEnd /\ mode' = mode /\ requested' = requested
         /\ cancelled' = cancelled /\ resumes' = resumes /\ end' = end
         /\ at' \in [Workers -> {"none", "posted", "idle", "poll", "record",
                                 "insert", "done"}]
         /\ pos' \in [Workers -> 0..MaxEvents]
         /\ hMode' \in [Workers -> Modes \cup {Unset}]
         /\ Positions'
         /\ pos' = [pos EXCEPT ![w] = pos[w] + 1]
         /\ at'[w] \notin {"none", "insert"}
         /\ \A v \in Workers \ {w} : at'[v] = at[v] /\ hMode'[v] = hMode[v]
<1>1. Event(w) \in Events /\ Event(w) <= end[w] /\ Event(w) = pos[w] + 1
  BY InHand
<1>2. UNCHANGED <<logEnd, mode, requested, cancelled, resumes, end>>
  BY DEF NextRecord, delivery, replay
<1>3. pos' = [pos EXCEPT ![w] = pos[w] + 1]
      /\ pos' \in [Workers -> 0..MaxEvents]
  BY <1>1, AuditAssumption DEF NextRecord, TypeOK, Events
<1>4. at' = [at EXCEPT ![w] = IF Event(w) < end[w] THEN "record"
                              ELSE IF w = Live THEN "idle" ELSE "poll"]
  BY DEF NextRecord, Goto
<1>5. hMode' \in [Workers -> Modes \cup {Unset}]
      /\ \A v \in Workers \ {w} : hMode'[v] = hMode[v]
  BY DEF NextRecord, TypeOK
<1>6. Positions'
  BY <1>1, <1>2, <1>3, <1>4, AuditAssumption DEF Positions, TypeOK
<1> QED
  BY <1>1, <1>2, <1>3, <1>4, <1>5, <1>6 DEF TypeOK

\* Every reachable state is well typed and every worker is inside its batch.
THEOREM TypeCorrect == Spec => [](TypeOK /\ Positions)
<1>1. Init => TypeOK /\ Positions
  BY AuditAssumption DEF Init, TypeOK, Positions, Workers, Live, Events, Unset
<1>2. TypeOK /\ Positions /\ [Next]_vars => TypeOK' /\ Positions'
  <2> SUFFICES ASSUME TypeOK, Positions, [Next]_vars
               PROVE  TypeOK' /\ Positions'
    OBVIOUS
  <2> USE AuditAssumption
  <2>1. CASE Produce
    BY <2>1 DEF Produce, TypeOK, Positions, tables, replay, worker, history
  <2>2. CASE Reset
    BY <2>2 DEF Reset, TypeOK, Positions, Replays, delivery, replay, worker
  <2>3. CASE RequestReplay
    <3>1. requested' \in Replays /\ requested' \in Workers
      BY <2>3 DEF RequestReplay, TypeOK, Replays, Workers
    <3>2. at' = [at EXCEPT ![requested'] = "posted"]
      BY <2>3 DEF RequestReplay, Goto
    <3>3. cancelled' \subseteq Replays /\ requested' \in 0..MaxReplays
      BY <2>3 DEF RequestReplay, TypeOK, Replays
    <3>4. UNCHANGED <<delivery, tables, mode, pos, end, hMode, history>>
      BY <2>3 DEF RequestReplay
    <3> QED
      BY <3>1, <3>2, <3>3, <3>4
      DEF TypeOK, Positions, delivery, tables, history
  <2>4. CASE Receive
    BY <2>4 DEF Receive, Goto, TypeOK, Positions, Workers, Live, delivery,
                tables, replay, history
  <2>5. CASE \E m \in Modes : SetMode(m)
    BY <2>5 DEF SetMode, AssignMode, TypeOK, Positions, delivery, tables,
                replay, worker
  <2>6. CASE \E r \in Replays, m \in Modes : Launch(r, m)
    BY <2>6 DEF Launch, Goto, AssignMode, TypeOK, Positions, Workers,
                delivery, tables, replay
  <2>7. ASSUME NEW r \in Replays,
               Fetch(r) \/ Return(r) \/ GiveUp(r) \/ RejoinReplay(r)
        PROVE  TypeOK' /\ Positions'
    <3>1. CASE Fetch(r)
      BY <3>1 DEF Fetch, Goto, TypeOK, Positions, Workers, delivery, tables,
                  replay, history
    <3>2. CASE Return(r)
      BY <3>2 DEF Return, Goto, TypeOK, Positions, Workers, delivery, tables,
                  replay, history
    <3>3. CASE GiveUp(r)
      BY <3>3 DEF GiveUp, Goto, TypeOK, Positions, Workers, delivery, tables,
                  history
    <3>4. CASE RejoinReplay(r)
      BY <3>4 DEF RejoinReplay, Resume, TypeOK, Positions, Workers, tables,
                  replay, history
    <3> QED BY <2>7, <3>1, <3>2, <3>3, <3>4
  <2>8. ASSUME NEW w \in Workers,
               Begin(w) \/ Refused(w) \/ InsertFails(w) \/ Insert(w)
        PROVE  TypeOK' /\ Positions'
    <3>1. CASE Begin(w)
      BY <3>1 DEF Begin, Goto, TypeOK, Positions, delivery, tables, replay,
                  history
    <3>2. CASE Refused(w) \/ InsertFails(w)
      <4>1. NoRow(w) /\ at[w] \in {"record", "insert"}
        BY <3>2 DEF Refused, InsertFails
      <4>2. incomplete' \subseteq Replays
        BY <4>1 DEF NoRow, TypeOK, Workers
      <4> QED
        BY <4>1, <4>2, NextRecordKeeps DEF NoRow, TypeOK, tables
    <3>3. CASE Insert(w)
      <4>1. NextRecord(w) /\ WriteRow(w) /\ at[w] = "insert"
        BY <3>3 DEF Insert
      <4>2. Event(w) \in Events
        BY <4>1, InHand
      <4>3. /\ audit' \subseteq Events /\ naive' \in [Events -> Nat]
            /\ incomplete' \subseteq Replays
        BY <4>1, <4>2 DEF WriteRow, TypeOK, Workers
      <4>4. late' \in [Replays -> Nat]
        BY <3>3 DEF Insert, TypeOK
      <4>5. stray' \in [Workers -> Nat]
        BY <3>3 DEF Insert, TypeOK
      <4> QED
        BY <4>1, <4>3, <4>4, <4>5, NextRecordKeeps DEF TypeOK
    <3> QED BY <2>8, <3>1, <3>2, <3>3
  <2>9. CASE Restart
    <3>1. PICK c \in 0..pos[Live] : Resume(Live, c)
      BY <2>9 DEF Restart
    <3>2. /\ pos' = [pos EXCEPT ![Live] = c] /\ c \in 0..MaxEvents
          /\ c <= pos[Live] /\ resumes' \in 0..MaxResumes
      BY <3>1 DEF Resume, TypeOK, Workers, Live
    <3>3. \A w \in Workers : pos'[w] \in 0..MaxEvents /\ pos'[w] <= logEnd'
      BY <2>9, <3>2 DEF Restart, TypeOK, Positions
    <3>4. \A w \in Workers : at'[w] \in {"idle", "done", "none"}
      BY <2>9 DEF Restart
    <3>5. Positions'
      BY <2>9, <3>2, <3>3, <3>4 DEF Restart, TypeOK, Positions
    <3>6. /\ cancelled' \subseteq Replays
          /\ mode' \in Modes /\ stray' \in [Workers -> Nat]
          /\ UNCHANGED <<logEnd, audit, naive, requested, late, incomplete>>
          /\ hMode' \in [Workers -> Modes \cup {Unset}] /\ end' = pos'
      BY <2>9 DEF Restart, AssignMode, TypeOK, Replays, tables
    <3>7. /\ at' \in [Workers -> {"none", "posted", "idle", "poll", "record",
                                  "insert", "done"}]
          /\ pos' \in [Workers -> 0..MaxEvents]
      BY <2>9, <3>2 DEF Restart, TypeOK
    <3>8. TypeOK'
      BY <3>2, <3>6, <3>7 DEF TypeOK
    <3> QED BY <3>5, <3>8
  <2>10. CASE Rejoin
    BY <2>10 DEF Rejoin, Resume, TypeOK, Positions, Workers, Live, tables,
                 replay, history
  <2>11. CASE UNCHANGED <<logEnd, audit, naive, mode, requested, cancelled,
                         resumes, at, pos, end, hMode, late, stray, incomplete>>
    BY <2>11 DEF TypeOK, Positions
  <2> QED
    BY Steps, <2>1, <2>2, <2>3, <2>4, <2>5, <2>6, <2>7, <2>8, <2>9,
       <2>10, <2>11
<1> QED
  BY <1>1, <1>2, PTL DEF Spec

-----------------------------------------------------------------------------
\* The replays that were never requested are untouched, and of the requested
\* ones only the last can have a context that is not done.
THEOREM LastOnly == Spec => []Superseded
<1>1. Init => Superseded
  BY AuditAssumption, LiveApart
  DEF Init, Superseded, Workers, Replays, Live
<1>2. TypeOK /\ Positions /\ Superseded /\ [Next]_vars => Superseded'
  <2> SUFFICES ASSUME TypeOK, Positions, Superseded, [Next]_vars
               PROVE  Superseded'
    OBVIOUS
  <2> USE AuditAssumption
  <2>1. CASE Produce
    BY <2>1 DEF Produce, Superseded, replay, worker
  <2>2. CASE Reset
    BY <2>2 DEF Reset, Superseded, replay, worker
  <2>3. CASE RequestReplay
    BY <2>3 DEF RequestReplay, Goto, TypeOK, Superseded, Replays, Workers
  <2>4. CASE Receive
    BY <2>4, LiveApart DEF Receive, Goto, TypeOK, Superseded, replay, Workers
  <2>5. CASE \E m \in Modes : SetMode(m)
    BY <2>5 DEF SetMode, Superseded, replay, worker
  <2>6. CASE \E r \in Replays, m \in Modes : Launch(r, m)
    BY <2>6 DEF Launch, Goto, TypeOK, Superseded, Workers, Replays, replay
  <2>7. ASSUME NEW r \in Replays,
               Fetch(r) \/ Return(r) \/ GiveUp(r) \/ RejoinReplay(r)
        PROVE  Superseded'
    <3>1. CASE Fetch(r)
      BY <3>1 DEF Fetch, Goto, TypeOK, Superseded, Workers, Replays, replay
    <3>2. CASE Return(r)
      BY <3>2 DEF Return, Goto, TypeOK, Superseded, Workers, Replays, replay
    <3>3. CASE GiveUp(r)
      <4>1. /\ at[r] = "poll" /\ at' = [at EXCEPT ![r] = "done"]
            /\ cancelled' = cancelled \cup {r}
            /\ UNCHANGED <<requested, pos>>
        BY <3>3 DEF GiveUp, Goto
      <4> QED
        BY <4>1 DEF TypeOK, Superseded, Workers, Replays
    <3>4. CASE RejoinReplay(r)
      BY <3>4 DEF RejoinReplay, Resume, TypeOK, Superseded, Workers, Replays,
                  replay
    <3> QED BY <2>7, <3>1, <3>2, <3>3, <3>4
  <2>8. ASSUME NEW w \in Workers,
               Begin(w) \/ Refused(w) \/ InsertFails(w) \/ Insert(w)
        PROVE  Superseded'
    <3>1. CASE Begin(w)
      BY <3>1 DEF Begin, Goto, TypeOK, Superseded, Workers, Replays, replay
    <3>2. CASE Refused(w) \/ InsertFails(w) \/ Insert(w)
      <4>1. NextRecord(w) /\ at[w] \in {"record", "insert"}
        BY <3>2 DEF Refused, InsertFails, NoRow, Insert
      <4>2. w \in Replays => ~(w > requested)
        BY <4>1 DEF Superseded
      <4> QED
        BY <4>1, <4>2, NextRecordKeeps
        DEF Superseded, Workers, Replays, TypeOK
    <3> QED BY <2>8, <3>1, <3>2
  <2>9. CASE Restart
    <3>1. /\ requested' = requested /\ cancelled \subseteq cancelled'
          /\ \A w \in Replays : w > requested => at'[w] = "none"
      BY <2>9, LiveApart DEF Restart, TypeOK, Workers, Replays
    <3>2. \A w \in Replays : pos'[w] = pos[w]
      BY <2>9, LiveApart DEF Restart, Resume, TypeOK, Workers
    <3> QED BY <3>1, <3>2 DEF Superseded
  <2>10. CASE Rejoin
    BY <2>10, LiveApart
    DEF Rejoin, Resume, TypeOK, Superseded, Workers, replay
  <2>11. CASE UNCHANGED <<logEnd, audit, naive, mode, requested, cancelled,
                         resumes, at, pos, end, hMode, late, stray, incomplete>>
    BY <2>11 DEF Superseded
  <2> QED
    BY Steps, <2>1, <2>2, <2>3, <2>4, <2>5, <2>6, <2>7, <2>8, <2>9,
       <2>10, <2>11
<1> QED
  BY <1>1, <1>2, TypeCorrect, PTL DEF Spec

\* However POST /replay requests overlap, at most one replay is active with a
\* context that is not done.
THEOREM OneAtATime == Spec => []OneReplayAtATime
<1>1. TypeOK /\ Superseded => OneReplayAtATime
  <2> SUFFICES ASSUME TypeOK, Superseded, NEW r \in Replays, Active(r),
                      r \notin cancelled
               PROVE  r = requested
    BY DEF OneReplayAtATime
  <2> QED
    BY AuditAssumption DEF TypeOK, Superseded, Active, Replays
<1> QED
  BY <1>1, TypeCorrect, LastOnly, PTL

-----------------------------------------------------------------------------
\* A cancelled replay writes at most the row whose INSERT was under way.
THEOREM CancelledStops == Spec => []CancelledWritesAtMostOne
<1>1. Init => LateOnce
  BY DEF Init, LateOnce
<1>2. TypeOK /\ Positions /\ LateOnce /\ [Next]_vars => LateOnce'
  <2> SUFFICES ASSUME TypeOK, Positions, LateOnce, [Next]_vars
               PROVE  LateOnce'
    OBVIOUS
  <2> USE AuditAssumption
  <2>1. CASE Produce
    BY <2>1 DEF Produce, LateOnce, replay, worker, history
  <2>2. CASE Reset
    BY <2>2 DEF Reset, LateOnce, replay, worker
  <2>3. CASE RequestReplay
    BY <2>3 DEF RequestReplay, Goto, TypeOK, LateOnce, Replays, Workers,
                history
  <2>4. CASE Receive
    BY <2>4, LiveApart
    DEF Receive, Goto, TypeOK, LateOnce, replay, Workers, history
  <2>5. CASE \E m \in Modes : SetMode(m)
    BY <2>5 DEF SetMode, LateOnce, replay, worker
  <2>6. CASE \E r \in Replays, m \in Modes : Launch(r, m)
    BY <2>6 DEF Launch, Goto, TypeOK, LateOnce, Workers, replay
  <2>7. ASSUME NEW r \in Replays,
               Fetch(r) \/ Return(r) \/ GiveUp(r) \/ RejoinReplay(r)
        PROVE  LateOnce'
    <3>1. CASE Fetch(r)
      BY <3>1 DEF Fetch, Goto, TypeOK, LateOnce, Workers, replay, history
    <3>2. CASE Return(r)
      BY <3>2 DEF Return, Goto, TypeOK, LateOnce, Workers, replay, history
    <3>3. CASE GiveUp(r)
      BY <3>3 DEF GiveUp, Goto, TypeOK, LateOnce, Workers, history
    <3>4. CASE RejoinReplay(r)
      BY <3>4 DEF RejoinReplay, LateOnce, replay, history
    <3> QED BY <2>7, <3>1, <3>2, <3>3, <3>4
  <2>8. ASSUME NEW w \in Workers,
               Begin(w) \/ Refused(w) \/ InsertFails(w) \/ Insert(w)
        PROVE  LateOnce'
    <3>1. CASE Begin(w)
      BY <3>1 DEF Begin, Goto, TypeOK, LateOnce, Workers, replay, history
    <3>2. CASE Refused(w) \/ InsertFails(w)
      <4>1. NextRecord(w) /\ at[w] \in {"record", "insert"} /\ late' = late
        BY <3>2 DEF Refused, InsertFails, NoRow
      <4> QED
        BY <4>1, NextRecordKeeps DEF LateOnce, Workers
    <3>3. CASE Insert(w)
      <4>1. NextRecord(w) /\ at[w] = "insert"
        BY <3>3 DEF Insert
      <4>2. CASE w \in cancelled
        <5>1. w \in Replays /\ late[w] = 0
          BY <4>1, <4>2 DEF LateOnce, TypeOK
        <5>2. late' = [late EXCEPT ![w] = late[w] + 1]
          BY <3>3, <4>2 DEF Insert
        <5> QED
          BY <4>1, <4>2, <5>1, <5>2, NextRecordKeeps
          DEF LateOnce, Workers, TypeOK
      <4>3. CASE w \notin cancelled
        <5>1. late' = late
          BY <3>3, <4>3 DEF Insert
        <5> QED
          BY <4>1, <5>1, NextRecordKeeps DEF LateOnce, Workers
      <4> QED BY <4>2, <4>3
    <3> QED BY <2>8, <3>1, <3>2, <3>3
  <2>9. CASE Restart
    BY <2>9 DEF Restart, LateOnce, Workers
  <2>10. CASE Rejoin
    BY <2>10 DEF Rejoin, LateOnce, replay, history
  <2>11. CASE UNCHANGED <<logEnd, audit, naive, mode, requested, cancelled,
                         resumes, at, pos, end, hMode, late, stray, incomplete>>
    BY <2>11 DEF LateOnce
  <2> QED
    BY Steps, <2>1, <2>2, <2>3, <2>4, <2>5, <2>6, <2>7, <2>8, <2>9,
       <2>10, <2>11
<1>3. LateOnce => CancelledWritesAtMostOne
  BY DEF LateOnce, CancelledWritesAtMostOne
<1> QED
  BY <1>1, <1>2, <1>3, TypeCorrect, PTL DEF Spec

-----------------------------------------------------------------------------
\* A worker writes at most one naive row after the mode became idempotent.
THEOREM SwitchTakesEffect == Spec => []SwitchIsPrompt
<1>1. Init => StrayOnce
  BY DEF Init, StrayOnce
<1>2. TypeOK /\ Positions /\ StrayOnce /\ [Next]_vars => StrayOnce'
  <2> SUFFICES ASSUME TypeOK, Positions, StrayOnce, [Next]_vars
               PROVE  StrayOnce'
    OBVIOUS
  <2> USE AuditAssumption
  <2>1. CASE Produce
    BY <2>1 DEF Produce, StrayOnce, worker, history
  <2>2. CASE Reset
    BY <2>2 DEF Reset, StrayOnce, worker
  <2>3. CASE RequestReplay
    BY <2>3 DEF RequestReplay, Goto, TypeOK, StrayOnce, Replays, Workers,
                history
  <2>4. CASE Receive
    BY <2>4 DEF Receive, Goto, TypeOK, StrayOnce, Workers, history
  <2>5. CASE \E m \in Modes : SetMode(m)
    BY <2>5 DEF SetMode, AssignMode, StrayOnce
  <2>6. CASE \E r \in Replays, m \in Modes : Launch(r, m)
    BY <2>6 DEF Launch, AssignMode, StrayOnce
  <2>7. ASSUME NEW r \in Replays,
               Fetch(r) \/ Return(r) \/ GiveUp(r) \/ RejoinReplay(r)
        PROVE  StrayOnce'
    <3>1. CASE Fetch(r)
      BY <3>1 DEF Fetch, Goto, TypeOK, StrayOnce, Workers, history
    <3>2. CASE Return(r)
      BY <3>2 DEF Return, Goto, TypeOK, StrayOnce, Workers, history
    <3>3. CASE GiveUp(r)
      BY <3>3 DEF GiveUp, Goto, TypeOK, StrayOnce, Workers, history
    <3>4. CASE RejoinReplay(r)
      BY <3>4 DEF RejoinReplay, StrayOnce, history
    <3> QED BY <2>7, <3>1, <3>2, <3>3, <3>4
  <2>8. ASSUME NEW w \in Workers,
               Begin(w) \/ Refused(w) \/ InsertFails(w) \/ Insert(w)
        PROVE  StrayOnce'
    <3>1. CASE Begin(w)
      BY <3>1 DEF Begin, Goto, TypeOK, StrayOnce, history
    <3>2. CASE Refused(w) \/ InsertFails(w)
      <4>1. NextRecord(w) /\ at[w] \in {"record", "insert"} /\ stray' = stray
        BY <3>2 DEF Refused, InsertFails, NoRow
      <4> QED
        BY <4>1, NextRecordKeeps DEF StrayOnce
    <3>3. CASE Insert(w)
      <4>1. NextRecord(w) /\ at[w] = "insert"
        BY <3>3 DEF Insert
      <4>2. CASE hMode[w] = "naive" /\ mode = "idempotent"
        <5>1. stray[w] = 0
          BY <4>1, <4>2 DEF StrayOnce, TypeOK
        <5>2. stray' = [stray EXCEPT ![w] = stray[w] + 1]
          BY <3>3, <4>2 DEF Insert
        <5> QED
          BY <4>1, <4>2, <5>1, <5>2, NextRecordKeeps DEF StrayOnce, TypeOK
      <4>3. CASE ~(hMode[w] = "naive" /\ mode = "idempotent")
        <5>1. stray' = stray
          BY <3>3, <4>3 DEF Insert
        <5> QED
          BY <4>1, <5>1, NextRecordKeeps DEF StrayOnce
      <4> QED BY <4>2, <4>3
    <3> QED BY <2>8, <3>1, <3>2, <3>3
  <2>9. CASE Restart
    BY <2>9 DEF Restart, AssignMode, StrayOnce
  <2>10. CASE Rejoin
    BY <2>10 DEF Rejoin, StrayOnce, history
  <2>11. CASE UNCHANGED <<logEnd, audit, naive, mode, requested, cancelled,
                         resumes, at, pos, end, hMode, late, stray, incomplete>>
    BY <2>11 DEF StrayOnce
  <2> QED
    BY Steps, <2>1, <2>2, <2>3, <2>4, <2>5, <2>6, <2>7, <2>8, <2>9,
       <2>10, <2>11
<1>3. StrayOnce => SwitchIsPrompt
  BY DEF StrayOnce, SwitchIsPrompt
<1> QED
  BY <1>1, <1>2, <1>3, TypeCorrect, PTL DEF Spec

-----------------------------------------------------------------------------
\* What a replay has read in idempotent mode is in the idempotent table.  That
\* TRUNCATE does not break it needs Superseded: a replay not yet requested has
\* read nothing.
THEOREM Covered == Spec => []ReplayCovers
<1>1. Init => ReplayCovers
  BY DEF Init, ReplayCovers, Workers
<1>2. /\ TypeOK /\ Positions /\ Superseded /\ ReplayCovers /\ [Next]_vars
      => ReplayCovers'
  <2> SUFFICES ASSUME TypeOK, Positions, Superseded, ReplayCovers, [Next]_vars
               PROVE  ReplayCovers'
    OBVIOUS
  <2> USE AuditAssumption
  <2>1. CASE Produce
    BY <2>1 DEF Produce, ReplayCovers, tables, worker, history
  <2>2. CASE Reset
    <3>1. \A r \in Replays \ incomplete' : pos'[r] = 0
      BY <2>2 DEF Reset, worker, Superseded, TypeOK, Replays
    <3> QED
      BY <3>1 DEF ReplayCovers
  <2>3. CASE RequestReplay
    BY <2>3 DEF RequestReplay, ReplayCovers, tables, history
  <2>4. CASE Receive
    BY <2>4, LiveApart DEF Receive, TypeOK, ReplayCovers, tables, history,
                           Workers
  <2>5. CASE \E m \in Modes : SetMode(m)
    BY <2>5 DEF SetMode, ReplayCovers, tables, worker
  <2>6. CASE \E r \in Replays, m \in Modes : Launch(r, m)
    BY <2>6 DEF Launch, ReplayCovers, tables
  <2>7. ASSUME NEW r \in Replays,
               Fetch(r) \/ Return(r) \/ GiveUp(r) \/ RejoinReplay(r)
        PROVE  ReplayCovers'
    <3>1. CASE Fetch(r) \/ Return(r) \/ GiveUp(r)
      BY <3>1 DEF Fetch, Return, GiveUp, ReplayCovers, tables, history
    <3>2. CASE RejoinReplay(r)
      BY <3>2, LiveApart DEF RejoinReplay, Resume, TypeOK, ReplayCovers,
                             Workers, tables, history
    <3> QED BY <2>7, <3>1, <3>2
  <2>8. ASSUME NEW w \in Workers,
               Begin(w) \/ Refused(w) \/ InsertFails(w) \/ Insert(w)
        PROVE  ReplayCovers'
    <3>1. CASE Begin(w)
      BY <3>1 DEF Begin, ReplayCovers, tables, history
    <3>2. CASE Refused(w) \/ InsertFails(w)
      <4>1. /\ NextRecord(w) /\ at[w] \in {"record", "insert"}
            /\ audit' = audit /\ incomplete' = incomplete \cup ({w} \ {Live})
        BY <3>2 DEF Refused, InsertFails, NoRow, tables
      <4> QED
        BY <4>1, NextRecordKeeps, LiveApart
        DEF ReplayCovers, Workers, TypeOK
    <3>3. CASE Insert(w)
      <4>1. NextRecord(w) /\ WriteRow(w) /\ at[w] = "insert"
        BY <3>3 DEF Insert
      <4>2. Event(w) = pos[w] + 1 /\ pos' = [pos EXCEPT ![w] = pos[w] + 1]
        BY <4>1, InHand, NextRecordKeeps
      <4>3. CASE hMode[w] = "naive"
        BY <4>1, <4>2, <4>3, LiveApart
        DEF WriteRow, ReplayCovers, Workers, TypeOK
      <4>4. CASE hMode[w] # "naive"
        <5>1. audit' = audit \cup {pos[w] + 1} /\ incomplete' = incomplete
          BY <4>1, <4>2, <4>4 DEF WriteRow
        <5> QED
          BY <4>2, <5>1 DEF ReplayCovers, Workers, TypeOK
      <4> QED BY <4>3, <4>4
    <3> QED BY <2>8, <3>1, <3>2, <3>3
  <2>9. CASE Restart
    <3>1. \A r \in Replays : pos'[r] = pos[r]
      BY <2>9, LiveApart DEF Restart, Resume, TypeOK, Workers
    <3> QED BY <2>9, <3>1 DEF Restart, ReplayCovers, tables
  <2>10. CASE Rejoin
    BY <2>10, LiveApart DEF Rejoin, Resume, TypeOK, ReplayCovers, Workers,
                            tables, history
  <2>11. CASE UNCHANGED <<logEnd, audit, naive, mode, requested, cancelled,
                         resumes, at, pos, end, hMode, late, stray, incomplete>>
    BY <2>11 DEF ReplayCovers
  <2> QED
    BY Steps, <2>1, <2>2, <2>3, <2>4, <2>5, <2>6, <2>7, <2>8, <2>9,
       <2>10, <2>11
<1> QED
  BY <1>1, <1>2, TypeCorrect, LastOnly, PTL DEF Spec
-----------------------------------------------------------------------------
(* The copies in the naive table.                                          *)

\* The workers that are done with event e.
PassedBy(e) == {w \in Workers : e <= pos[w]}

\* Every copy of an event was written by another worker, one that is done with
\* it, but for one copy each time that a worker was sent back.
CopiesHaveAuthors ==
  \A e \in Events : naive[e] <= Cardinality(PassedBy(e)) + resumes

\* No worker goes back in the topic, but for one that is sent back.
LEMMA NoWayBack ==
  ASSUME TypeOK, Positions, [Next]_vars,
         ~Restart, ~Rejoin, \A r \in Replays : ~RejoinReplay(r)
  PROVE  resumes' = resumes /\ \A v \in Workers : pos[v] <= pos'[v]
<1> USE AuditAssumption
<1>1. CASE Receive
  BY <1>1 DEF Receive, TypeOK, Workers, delivery
<1>2. ASSUME NEW w \in Workers, Refused(w) \/ InsertFails(w) \/ Insert(w)
      PROVE  resumes' = resumes /\ \A v \in Workers : pos[v] <= pos'[v]
  <2>1. NextRecord(w) /\ at[w] \in {"record", "insert"}
    BY <1>2 DEF Refused, InsertFails, NoRow, Insert
  <2>2. pos' = [pos EXCEPT ![w] = pos[w] + 1] /\ resumes' = resumes
    BY <2>1, NextRecordKeeps
  <2> QED
    BY <2>2 DEF TypeOK
<1>3. CASE pos' = pos /\ resumes' = resumes
  BY <1>3 DEF TypeOK
<1>4. ASSUME NEW r \in Replays, Fetch(r) \/ Return(r) \/ GiveUp(r)
      PROVE  pos' = pos /\ resumes' = resumes
  BY <1>4 DEF Fetch, Return, GiveUp, delivery
<1>5. ASSUME NEW w \in Workers, Begin(w) PROVE pos' = pos /\ resumes' = resumes
  BY <1>5 DEF Begin, delivery
<1>6. Produce \/ Reset \/ RequestReplay \/ (\E m \in Modes : SetMode(m))
        \/ (\E r \in Replays, m \in Modes : Launch(r, m))
      => pos' = pos /\ resumes' = resumes
  BY DEF Produce, Reset, RequestReplay, SetMode, Launch, worker, delivery
<1> QED
  BY Steps, <1>1, <1>2, <1>3, <1>4, <1>5, <1>6

\* A worker that is sent back writes nothing on the way.
LEMMA WayBack ==
  ASSUME TypeOK,
         Restart \/ Rejoin \/ \E r \in Replays : RejoinReplay(r)
  PROVE  /\ naive' = naive /\ resumes' = resumes + 1
         /\ \E w \in Workers, c \in Nat : pos' = [pos EXCEPT ![w] = c]
<1> USE AuditAssumption DEF Resume, tables
<1>0. pos[Live] \in Nat /\ Live \in Workers
  BY DEF TypeOK, Live, Workers
<1>1. CASE Restart
  <2>1. PICK c \in 0..pos[Live] : Resume(Live, c)
    BY <1>1 DEF Restart
  <2>2. naive' = naive
    BY <1>1 DEF Restart
  <2>3. c \in Nat /\ pos' = [pos EXCEPT ![Live] = c] /\ resumes' = resumes + 1
    BY <1>0, <2>1
  <2> QED BY <1>0, <2>2, <2>3
<1>2. CASE Rejoin
  <2>1. PICK c \in 0..(pos[Live] - 1) : Resume(Live, c)
    BY <1>2 DEF Rejoin
  <2>2. naive' = naive
    BY <1>2 DEF Rejoin
  <2>3. c \in Nat /\ pos' = [pos EXCEPT ![Live] = c] /\ resumes' = resumes + 1
    BY <1>0, <2>1
  <2> QED BY <1>0, <2>2, <2>3
<1>3. CASE \E r \in Replays : RejoinReplay(r)
  BY <1>3 DEF RejoinReplay, Workers
<1> QED BY <1>1, <1>2, <1>3

\* The workers are finitely many, and so those that are done with an event.
LEMMA PassedByFinite ==
  ASSUME NEW e \in Events
  PROVE  /\ IsFiniteSet(PassedBy(e)) /\ Cardinality(PassedBy(e)) \in Nat
         /\ IsFiniteSet(PassedBy(e)')
<1>1. IsFiniteSet(Replays)
  BY AuditAssumption, FS_Interval DEF Replays
<1>2. IsFiniteSet(Workers)
  <2>1. Workers = Replays \cup {Live}
    BY DEF Workers
  <2> QED BY <1>1, <2>1, FS_AddElement
<1>3. PassedBy(e) \in SUBSET Workers /\ PassedBy(e)' \in SUBSET Workers
  BY DEF PassedBy
<1> QED BY <1>2, <1>3, FS_Subset, FS_CardinalityType

\* As long as no worker goes back, no fewer of them are done with an event.
LEMMA PassedByGrows ==
  ASSUME NEW e \in Events, TypeOK, TypeOK',
         \A v \in Workers : pos[v] <= pos'[v]
  PROVE  PassedBy(e) \subseteq PassedBy(e)'
         /\ Cardinality(PassedBy(e)) <= Cardinality(PassedBy(e)')
<1>1. PassedBy(e) \in SUBSET PassedBy(e)'
  BY AuditAssumption DEF PassedBy, TypeOK, Events
<1> QED BY <1>1, PassedByFinite, FS_Subset

\* When one worker is sent back, all the others are done with what they were.
LEMMA PassedByAllButOne ==
  ASSUME NEW e \in Events, TypeOK, NEW w \in Workers, NEW c \in Nat,
         pos' = [pos EXCEPT ![w] = c]
  PROVE  Cardinality(PassedBy(e)) <= Cardinality(PassedBy(e)') + 1
<1>1. PassedBy(e) \ {w} \in SUBSET PassedBy(e)'
  BY DEF PassedBy, TypeOK
<1>2. /\ IsFiniteSet(PassedBy(e) \ {w})
      /\ Cardinality(PassedBy(e) \ {w}) <= Cardinality(PassedBy(e)')
      /\ Cardinality(PassedBy(e) \ {w}) \in Nat
      /\ Cardinality(PassedBy(e)') \in Nat
  <2> HIDE DEF PassedBy
  <2> QED BY <1>1, PassedByFinite, FS_Subset, FS_CardinalityType
<1>3. Cardinality(PassedBy(e) \ {w})
        = IF w \in PassedBy(e) THEN Cardinality(PassedBy(e)) - 1
                               ELSE Cardinality(PassedBy(e))
  BY PassedByFinite, FS_RemoveElement
<1>4. Cardinality(PassedBy(e)) \in Nat
  BY PassedByFinite
<1> QED BY <1>2, <1>3, <1>4

\* The naive table has at most one copy of an event for each worker that is done
\* with it, and so at most one for the live handler and each replay requested,
\* and one more for each time that a worker was sent back behind it.
THEOREM CopiesHaveReasons == Spec => []CopiesAreAccounted
<1>1. Init => CopiesHaveAuthors
  BY PassedByFinite DEF Init, CopiesHaveAuthors
<1>2. /\ TypeOK /\ Positions /\ TypeOK' /\ CopiesHaveAuthors /\ [Next]_vars
      => CopiesHaveAuthors'
  <2> SUFFICES ASSUME TypeOK, Positions, TypeOK', CopiesHaveAuthors, [Next]_vars,
                      NEW e \in Events
               PROVE  naive'[e] <= Cardinality(PassedBy(e)') + resumes'
    BY DEF CopiesHaveAuthors
  <2>1. /\ naive[e] <= Cardinality(PassedBy(e)) + resumes /\ naive[e] \in Nat
        /\ resumes \in Nat
        /\ naive'[e] \in Nat /\ Cardinality(PassedBy(e)) \in Nat
        /\ IsFiniteSet(PassedBy(e)) /\ IsFiniteSet(PassedBy(e)')
        /\ Cardinality(PassedBy(e)') \in Nat
    BY PassedByFinite, FS_CardinalityType, AuditAssumption
    DEF CopiesHaveAuthors, TypeOK
  <2>2. CASE Restart \/ Rejoin \/ \E r \in Replays : RejoinReplay(r)
    <3>1. Cardinality(PassedBy(e)) <= Cardinality(PassedBy(e)') + 1
      BY <2>2, WayBack, PassedByAllButOne
    <3> QED BY <2>1, <2>2, <3>1, WayBack
  <2>3. CASE ~(Restart \/ Rejoin \/ \E r \in Replays : RejoinReplay(r))
    <3>1. /\ resumes' = resumes /\ PassedBy(e) \subseteq PassedBy(e)'
          /\ Cardinality(PassedBy(e)) <= Cardinality(PassedBy(e)')
      BY <2>3, NoWayBack, PassedByGrows
    <3>2. CASE naive'[e] <= naive[e]
      BY <2>1, <3>1, <3>2
    <3>3. ASSUME NEW w \in Workers, Insert(w), hMode[w] = "naive"
          PROVE  naive'[e] <= Cardinality(PassedBy(e)') + resumes'
      <4>1. NextRecord(w) /\ WriteRow(w) /\ at[w] = "insert"
        BY <3>3 DEF Insert
      <4>2. Event(w) = pos[w] + 1 /\ pos' = [pos EXCEPT ![w] = pos[w] + 1]
        BY <4>1, InHand, NextRecordKeeps
      <4>3. naive' = [naive EXCEPT ![Event(w)] = naive[Event(w)] + 1]
        BY <3>3, <4>1 DEF WriteRow
      <4>4. CASE e = Event(w)
        <5>1. w \notin PassedBy(e) /\ w \in PassedBy(e)'
          BY <4>2, <4>4, AuditAssumption DEF PassedBy, TypeOK, Events
        <5>2. PassedBy(e) \cup {w} \in SUBSET PassedBy(e)'
          BY <3>1, <5>1
        <5>3. Cardinality(PassedBy(e) \cup {w}) = Cardinality(PassedBy(e)) + 1
          BY <2>1, <5>1, FS_AddElement
        <5>4. Cardinality(PassedBy(e) \cup {w}) <= Cardinality(PassedBy(e)')
          BY <2>1, <5>2, FS_Subset
        <5>5. naive'[e] = naive[e] + 1
          BY <4>3, <4>4 DEF TypeOK
        <5> QED BY <2>1, <3>1, <5>3, <5>4, <5>5
      <4>5. CASE e # Event(w)
        <5>1. naive'[e] = naive[e]
          BY <4>3, <4>5 DEF TypeOK
        <5> QED BY <2>1, <3>1, <5>1
      <4> QED BY <4>4, <4>5
    <3>4. ASSUME NEW w \in Workers,
                 Begin(w) \/ Refused(w) \/ InsertFails(w)
                 \/ (Insert(w) /\ hMode[w] # "naive")
          PROVE  naive' = naive
      BY <3>4 DEF Begin, Refused, InsertFails, NoRow, Insert, WriteRow, tables
    <3>5. ASSUME NEW r \in Replays,
                 Fetch(r) \/ Return(r) \/ GiveUp(r)
          PROVE  naive' = naive
      BY <3>5 DEF Fetch, Return, GiveUp, tables
    <3>6. Produce \/ RequestReplay \/ Receive \/ (\E m \in Modes : SetMode(m))
            \/ (\E r \in Replays, m \in Modes : Launch(r, m)) => naive' = naive
      BY DEF Produce, RequestReplay, Receive, SetMode, Launch, tables
    <3>7. Reset => naive'[e] = 0
      BY DEF Reset
    <3> QED
      BY <2>1, <2>3, <3>1, <3>2, <3>3, <3>4, <3>5, <3>6, <3>7, Steps, NoWayBack
  <2> QED BY <2>2, <2>3
<1>3. TypeOK /\ Superseded /\ CopiesHaveAuthors => CopiesAreAccounted
  <2> SUFFICES ASSUME TypeOK, Superseded, CopiesHaveAuthors, NEW e \in Events
               PROVE  naive[e] <= 1 + requested + resumes
    BY DEF CopiesAreAccounted
  <2>1. requested \in Nat /\ resumes \in Nat
    BY AuditAssumption DEF TypeOK
  <2>2. \A w \in Workers : w \in PassedBy(e) => w \in 0..requested
    <3> SUFFICES ASSUME NEW w \in Workers, e <= pos[w] PROVE w \in 0..requested
      BY DEF PassedBy
    <3>1. pos[w] \in Nat /\ pos[w] # 0
      BY AuditAssumption DEF TypeOK, Events
    <3>2. w = Live \/ (w \in Replays /\ ~(w > requested))
      BY <3>1 DEF Superseded, Workers
    <3> QED BY <2>1, <3>2 DEF Live, Replays
  <2>3. PassedBy(e) \in SUBSET (0..requested)
    BY <2>2 DEF PassedBy
  <2>4. IsFiniteSet(0..requested) /\ Cardinality(0..requested) = requested + 1
    BY <2>1, FS_Interval
  <2>5. Cardinality(PassedBy(e)) <= requested + 1
    <3> HIDE DEF PassedBy
    <3> QED BY <2>3, <2>4, FS_Subset
  <2> QED
    BY <2>1, <2>5, PassedByFinite DEF CopiesHaveAuthors, TypeOK
<1> QED
  BY <1>1, <1>2, <1>3, TypeCorrect, LastOnly, PTL DEF Spec

=============================================================================
