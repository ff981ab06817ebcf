------------------------------ MODULE Delivery ------------------------------
(***************************************************************************)
(* What becomes of the events of a topic when an in-memory consumer reads   *)
(* them, without the consumer's queue, counters, offsets or goroutines: the *)
(* abstract specification that ConsumerQueue implements.                    *)
(*                                                                         *)
(*   ahead      not read, or read by a process that crashed and to be read *)
(*              again                                                       *)
(*   inflight   in the memory of the process                                *)
(*   settled    its effect is in the database or it is in the dead letters  *)
(*   discarded  given up by the process: overflow, bad record, or an error  *)
(*              that could not be dead-lettered                             *)
(*   missed     behind the offset at which the group resumed, no outcome    *)
(***************************************************************************)
CONSTANT Events

VARIABLES fate,
          crashed   \* the process has died at least once

vars == <<fate, crashed>>

Fate == {"ahead", "inflight", "settled", "discarded", "missed"}

Init == fate = [e \in Events |-> "ahead"] /\ crashed = FALSE

\* Any number of events move from a fate in From to a fate in To.
Moves(From, To) ==
  /\ fate' \in [Events -> Fate]
  /\ \A e \in Events : fate'[e] # fate[e] => fate[e] \in From /\ fate'[e] \in To

\* A batch is read.  Only after a crash is one read again that was discarded.
Read ==
  /\ Moves({"ahead"} \cup (IF crashed THEN {"discarded"} ELSE {}), {"inflight"})
  /\ UNCHANGED crashed

\* The event gets its outcome.
Ends(e, outcome) ==
  /\ fate[e] = "inflight"
  /\ fate' = [fate EXCEPT ![e] = outcome]
  /\ UNCHANGED crashed

\* The process dies with all it has in memory, which is then ahead again or
\* what an earlier life had made of it.
Crash ==
  /\ Moves({"inflight"}, {"ahead", "discarded"})
  /\ \A e \in Events : fate'[e] # "inflight"
  /\ crashed' = TRUE

\* The process resumes beyond events that have no outcome.
Miss == Moves({"ahead"}, {"missed"}) /\ UNCHANGED crashed

Next ==
  \/ Read \/ Crash \/ Miss
  \/ \E e \in Events, outcome \in {"settled", "discarded"} : Ends(e, outcome)

Spec == Init /\ [][Next]_vars
=============================================================================
