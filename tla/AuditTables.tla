---------------------------- MODULE AuditTables ----------------------------
(***************************************************************************)
(* What the consumer of labs/3-2 writes to Postgres: handleOne inserts an   *)
(* event into the naive or the idempotent audit table, for the live         *)
(* handler goroutine and for the goroutine of every POST /replay, which     *)
(* reads the topic from its beginning; POST /mode and /reset change the     *)
(* mode and empty the tables meanwhile.  Delivery is at least once: a       *)
(* process that is started again, or a group that lost its session, goes    *)
(* through events it had handled once more.                                 *)
(*                                                                         *)
(* Replay r is the r-th POST /replay.  The events are the offsets of the    *)
(* records that parse.  How events reach the live handler through the       *)
(* channel, and what becomes of those that could not be inserted, is the    *)
(* subject of ConsumerQueue: here the live handler takes some events in     *)
(* order and goes on after a failure.                                       *)
(***************************************************************************)
EXTENDS Naturals

CONSTANTS MaxEvents,  \* bound: events ever produced
          MaxReplays, \* bound: replays ever requested
          MaxResumes  \* bound: times that a worker is sent back in the topic

ASSUME AuditAssumption ==
  MaxEvents \in Nat /\ MaxReplays \in Nat /\ MaxResumes \in Nat

Events == 1..MaxEvents
Replays == 1..MaxReplays
Live == 0                  \* the goroutine runHandlers
Workers == {Live} \cup Replays

\* /mode accepts these; /replay takes any name, and handleOne treats all but
\* "naive" as "idempotent".
Modes == {"naive", "idempotent"}
Unset == "unset"           \* no event is being handled

VARIABLES
  logEnd,     \* number of events in the topic
  audit,      \* event_ids in events_audit, whose primary key they are
  naive,      \* rows of each event in events_audit_naive
  mode,       \* cfg.mode
  requested,  \* number of POST /replay so far
  cancelled,  \* replays whose context is done
  at,         \* where each worker is
  pos,        \* offset up to which it has finished
  end,        \* offset up to which its batch reaches
  hMode,      \* handleOne's local mode, kept to the end of the batch
  late,       \* history: rows a replay wrote after it was cancelled
  stray,      \* history: naive rows written since the mode is idempotent
  incomplete, \* history: replays without one of their idempotent rows
  resumes     \* number of times that a worker was sent back in the topic

tables == <<audit, naive>>
replay == <<requested, cancelled>>
worker == <<at, pos, end, hMode>>
history == <<late, stray, incomplete>>
delivery == <<logEnd, resumes>>
vars == <<delivery, tables, mode, replay, worker, history>>

Init ==
  /\ logEnd = 0
  /\ audit = {} /\ naive = [e \in Events |-> 0]
  /\ mode \in Modes
  /\ requested = 0
  /\ cancelled = {}
  /\ at = [w \in Workers |-> IF w = Live THEN "idle" ELSE "none"]
  /\ pos = [w \in Workers |-> 0] /\ end = pos
  /\ hMode = [w \in Workers |-> Unset]
  /\ late = [r \in Replays |-> 0]
  /\ stray = [w \in Workers |-> 0]
  /\ incomplete = {}
  /\ resumes = 0

Goto(w, l) == at' = [at EXCEPT ![w] = l]

\* cfg.mode is assigned.
AssignMode(m) ==
  /\ mode' = m
  /\ stray' = [w \in Workers |-> 0]

-----------------------------------------------------------------------------
(* The topic, POST /mode and POST /reset.                                  *)

Produce ==
  /\ logEnd < MaxEvents
  /\ logEnd' = logEnd + 1
  /\ UNCHANGED <<resumes, tables, mode, replay, worker, history>>

SetMode(m) ==
  /\ AssignMode(m)
  /\ UNCHANGED <<delivery, tables, replay, worker, late, incomplete>>

\* TRUNCATE empties both tables; the workers go on.
Reset ==
  /\ audit' = {}
  /\ naive' = [e \in Events |-> 0]
  /\ incomplete' = incomplete \cup 1..requested
  /\ UNCHANGED <<delivery, mode, replay, worker, late, stray>>

-----------------------------------------------------------------------------
(* POST /replay.                                                           *)

\* Slip: the previous replay is not cancelled.
RequestWithoutCancel ==
  /\ requested < MaxReplays
  /\ requested' = requested + 1
  /\ Goto(requested', "posted")
  /\ UNCHANGED <<delivery, tables, mode, cancelled, pos, end, hMode,
                 history>>

\* Under replayMu: the previous replay, if there is one, is cancelled and this
\* one takes its place.  (Cancelling one that ended changes nothing.)
RequestReplay ==
  /\ requested < MaxReplays
  /\ requested' = requested + 1
  /\ cancelled' = cancelled \cup ({requested} \ {0})
  /\ Goto(requested', "posted")
  /\ UNCHANGED <<delivery, tables, mode, pos, end, hMode, history>>

\* Then, under cfgMu, the mode it asks for becomes that of the process, and the
\* goroutine starts polling.
Launch(r, m) ==
  /\ at[r] = "posted"
  /\ AssignMode(m)
  /\ Goto(r, "poll")
  /\ UNCHANGED <<delivery, tables, replay, pos, end, hMode, late, incomplete>>

\* Slip: every batch starts with the last record of the one before.
FetchOverlapping(r) ==
  /\ at[r] = "poll"
  /\ \E e \in (pos[r] + 1)..logEnd : end' = [end EXCEPT ![r] = e]
  /\ pos' = [pos EXCEPT ![r] = IF @ > 0 THEN @ - 1 ELSE 0]
  /\ Goto(r, "record")
  /\ UNCHANGED <<delivery, tables, mode, replay, hMode, history>>

\* Slip: of a batch only the last record is handled.
FetchLastOnly(r) ==
  /\ at[r] = "poll"
  /\ \E e \in (pos[r] + 1)..logEnd :
       /\ end' = [end EXCEPT ![r] = e]
       /\ pos' = [pos EXCEPT ![r] = e - 1]
  /\ Goto(r, "record")
  /\ UNCHANGED <<delivery, tables, mode, replay, hMode, history>>

\* Slip: the batch reaches one record too far.
FetchPastEnd(r) ==
  /\ at[r] = "poll"
  /\ \E e \in (pos[r] + 1)..(logEnd + 1) : end' = [end EXCEPT ![r] = e]
  /\ Goto(r, "record")
  /\ UNCHANGED <<delivery, tables, mode, replay, pos, hMode, history>>

\* PollFetches returns records.  (Without records and with its context not done,
\* after an error of the broker, the goroutine polls again.)
Fetch(r) ==
  /\ at[r] = "poll"
  /\ \E e \in (pos[r] + 1)..logEnd : end' = [end EXCEPT ![r] = e]
  /\ Goto(r, "record")
  /\ UNCHANGED <<delivery, tables, mode, replay, pos, hMode, history>>

\* Slip: a poll that returns nothing is repeated.
PollUntilRecords(r) ==
  /\ at[r] = "poll"
  /\ r \in cancelled
  /\ UNCHANGED vars

\* The context is done: the poll returns nothing, and the goroutine returns.
\* Until then it waits for records, whatever the time.
Return(r) ==
  /\ at[r] = "poll"
  /\ r \in cancelled
  /\ Goto(r, "done")
  /\ UNCHANGED <<delivery, tables, mode, replay, pos, end, hMode, history>>

\* The goroutine returns on its own, and cancels its context: it got no client,
\* or the time, at which it looks between the polls, is up.
GiveUp(r) ==
  /\ at[r] = "poll"
  /\ Goto(r, "done")
  /\ cancelled' = cancelled \cup {r}
  /\ UNCHANGED <<delivery, tables, mode, requested, pos, end, hMode, history>>

-----------------------------------------------------------------------------
(* handleOne, for any worker.                                              *)

\* The live handler receives an event from its queue; those before it were
\* dropped there.
Receive ==
  /\ at[Live] = "idle"
  /\ \E e \in (pos[Live] + 1)..logEnd :
       /\ pos' = [pos EXCEPT ![Live] = e - 1]
       /\ end' = [end EXCEPT ![Live] = e]
  /\ Goto(Live, "record")
  /\ UNCHANGED <<delivery, tables, mode, replay, hMode, history>>

Event(w) == pos[w] + 1

\* The event is done with: on to the next one of the batch.
NextRecord(w) ==
  /\ pos' = [pos EXCEPT ![w] = Event(w)]
  /\ Goto(w, IF Event(w) < end[w] THEN "record"
             ELSE IF w = Live THEN "idle" ELSE "poll")
  /\ hMode' = [hMode EXCEPT ![w] = IF Event(w) < end[w] THEN @ ELSE Unset]
  /\ UNCHANGED <<delivery, mode, replay, end>>

\* Slip: the mode is read once for the whole batch.
BeginInModeOfBatch(w) ==
  /\ at[w] = "record"
  /\ w \notin cancelled
  /\ hMode' = [hMode EXCEPT ![w] = IF @ = Unset THEN mode ELSE @]
  /\ Goto(w, "insert")
  /\ UNCHANGED <<delivery, tables, mode, replay, pos, end, history>>

\* Slip: the INSERT is sent without the context.
BeginWithoutContext(w) ==
  /\ at[w] = "record"
  /\ hMode' = [hMode EXCEPT ![w] = mode]
  /\ Goto(w, "insert")
  /\ UNCHANGED <<delivery, tables, mode, replay, pos, end, history>>

\* handleOne copies the mode and sends its INSERT.
Begin(w) ==
  /\ at[w] = "record"
  /\ w \notin cancelled
  /\ hMode' = [hMode EXCEPT ![w] = mode]
  /\ Goto(w, "insert")
  /\ UNCHANGED <<delivery, tables, mode, replay, pos, end, history>>

\* No row is written for the event.
NoRow(w) ==
  /\ NextRecord(w)
  /\ incomplete' = incomplete \cup ({w} \ {Live})
  /\ UNCHANGED <<tables, late, stray>>

\* Its context done, Exec returns an error at once.
Refused(w) == at[w] = "record" /\ w \in cancelled /\ NoRow(w)

\* The INSERT fails in the database or on the way to it.
InsertFails(w) == at[w] = "insert" /\ NoRow(w)

\* A row, or for the idempotent table ON CONFLICT DO NOTHING.
WriteRow(w) ==
  IF hMode[w] = "naive"
    THEN /\ naive' = [naive EXCEPT ![Event(w)] = @ + 1]
         /\ incomplete' = incomplete \cup ({w} \ {Live})
         /\ UNCHANGED audit
    ELSE /\ audit' = audit \cup {Event(w)}
         /\ UNCHANGED <<naive, incomplete>>

\* The INSERT is committed, whether its result arrives or, because of a lost
\* connection or a cancellation, an error does.
Insert(w) ==
  /\ at[w] = "insert"
  /\ WriteRow(w)
  /\ late' = IF w \in cancelled THEN [late EXCEPT ![w] = @ + 1] ELSE late
  /\ stray' = IF hMode[w] = "naive" /\ mode = "idempotent"
                THEN [stray EXCEPT ![w] = @ + 1] ELSE stray
  /\ NextRecord(w)

-----------------------------------------------------------------------------
(* Delivered again.  The live group goes on at its commit, or at the end of *)
(* the topic if it has none (see ConsumerQueue): here it is any offset, and *)
(* to one ahead of the handler Receive takes it.                            *)

\* Worker w goes on behind offset c, which it had passed.
Resume(w, c) ==
  /\ resumes < MaxResumes
  /\ resumes' = resumes + 1
  /\ pos' = [pos EXCEPT ![w] = c]

\* The process ends at any point, an INSERT under way before it or not at all,
\* and is started again: the replays are gone, and the mode is that of the
\* environment.
Restart ==
  /\ \E c \in 0..pos[Live] : Resume(Live, c)
  /\ end' = pos'
  /\ at' = [w \in Workers |-> IF w = Live THEN "idle"
                              ELSE IF w <= requested THEN "done" ELSE "none"]
  /\ hMode' = [w \in Workers |-> Unset]
  /\ cancelled' = cancelled \cup 1..requested
  /\ \E m \in Modes : AssignMode(m)
  /\ UNCHANGED <<logEnd, tables, requested, late, incomplete>>

\* The live group lost its session and the poller was sent back; what it had
\* enqueued before is through, and the first event delivered again comes next.
Rejoin ==
  /\ at[Live] = "idle"
  /\ \E c \in 0..(pos[Live] - 1) :
       Resume(Live, c) /\ end' = [end EXCEPT ![Live] = c]
  /\ UNCHANGED <<logEnd, tables, mode, replay, at, hMode, history>>

\* The group of a replay never commits.  When it loses its session while the
\* goroutine polls, it is given the topic from its beginning once more.
RejoinReplay(r) ==
  /\ at[r] = "poll"
  /\ Resume(r, 0)
  /\ UNCHANGED <<logEnd, tables, mode, replay, at, end, hMode, history>>

-----------------------------------------------------------------------------
Handle(w) == Begin(w) \/ Refused(w) \/ InsertFails(w) \/ Insert(w)
ReplayLoop(r) == Fetch(r) \/ Return(r) \/ Handle(r)

Next ==
  \/ Produce \/ Reset \/ RequestReplay \/ Receive \/ Handle(Live)
  \/ Restart \/ Rejoin
  \/ \E m \in Modes : SetMode(m)
  \/ \E r \in Replays, m \in Modes : Launch(r, m)
  \/ \E r \in Replays : GiveUp(r) \/ RejoinReplay(r) \/ ReplayLoop(r)

Spec == Init /\ [][Next]_vars

\* The request handler and the goroutine of a replay run, and the database
\* answers or the INSERT fails.  Nothing is assumed of the producer, the users,
\* the clock or the live handler.
Fairness ==
  \A r \in Replays : WF_vars(ReplayLoop(r) \/ \E m \in Modes : Launch(r, m))

FairSpec == Spec /\ Fairness

-----------------------------------------------------------------------------
(* Properties.                                                             *)

\* Types of the state.
TypeOK ==
  /\ logEnd \in 0..MaxEvents
  /\ audit \subseteq Events /\ naive \in [Events -> Nat]
  /\ mode \in Modes
  /\ requested \in 0..MaxReplays
  /\ cancelled \subseteq Replays
  /\ at \in [Workers -> {"none", "posted", "idle", "poll", "record", "insert",
                         "done"}]
  /\ pos \in [Workers -> 0..MaxEvents] /\ end \in [Workers -> 0..MaxEvents]
  /\ hMode \in [Workers -> Modes \cup {Unset}]
  /\ late \in [Replays -> Nat] /\ stray \in [Workers -> Nat]
  /\ incomplete \subseteq Replays
  /\ resumes \in 0..MaxResumes

Active(r) == at[r] \notin {"none", "done"}

\* However POST /replay requests overlap, at most one replay is active with a
\* context that is not done.
OneReplayAtATime ==
  \A r, q \in Replays :
    Active(r) /\ Active(q) /\ r \notin cancelled /\ q \notin cancelled => r = q

\* A cancelled replay, which goes on through the rest of its batch, writes at
\* most the row whose INSERT was already under way.
CancelledWritesAtMostOne == \A r \in Replays : late[r] <= 1

\* When the mode is switched to idempotent, every worker writes at most the
\* naive row it had already decided on.
SwitchIsPrompt == \A w \in Workers : stray[w] <= 1

\* Delivery is at least once, and every copy of an event in the naive table has
\* a delivery for its reason: the one to the live group, the one to each replay,
\* also to one that was cancelled, and one more for every time that a worker was
\* sent back in the topic.
CopiesAreAccounted == \A e \in Events : naive[e] <= 1 + requested + resumes

\* What a replay has read in idempotent mode, without a failed INSERT, is in the
\* idempotent table, whatever else writes or switches modes meanwhile.
ReplayCovers == \A r \in Replays \ incomplete : 1..pos[r] \subseteq audit

\* A replay ends once the next one is requested, wherever it is: waiting for
\* records, or in the middle of a batch.
SupersededReplayEnds ==
  \A r \in 1..(MaxReplays - 1) : requested > r ~> at[r] = "done"

=============================================================================
