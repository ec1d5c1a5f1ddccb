---------------------------- MODULE AtLeastOnce ----------------------------
(***************************************************************************)
(* What a stage of the pipeline is promised by the event bus, without      *)
(* copies, workers or acknowledgements: a message that entered the queue   *)
(* leaves it only when a handler has completed for it or it is parked in   *)
(* the dead-letter queue, and a parked or completed message stays so.      *)
(***************************************************************************)
CONSTANT Msgs

VARIABLES
  pending,    \* messages that some worker still has to process
  completed,  \* messages for which some handler run has returned
  parked      \* messages in the dead-letter queue

avars == <<pending, completed, parked>>

AInit == pending = {} /\ completed = {} /\ parked = {}

Enqueue(m) ==
  /\ pending' = pending \cup {m}
  /\ UNCHANGED <<completed, parked>>

\* A run may also complete for a message that has left the queue meanwhile:
\* the worker whose delivery was taken over by another one.
Complete(m) ==
  /\ m \in pending \cup completed \cup parked
  /\ completed' = completed \cup {m}
  /\ UNCHANGED <<pending, parked>>

Park(m) ==
  /\ m \in pending
  /\ parked' = parked \cup {m}
  /\ pending' \in {pending, pending \ {m}}
  /\ UNCHANGED completed

Remove(m) ==
  /\ m \in pending
  /\ m \in completed \cup parked
  /\ pending' = pending \ {m}
  /\ UNCHANGED <<completed, parked>>

ANext == \E m \in Msgs : Enqueue(m) \/ Complete(m) \/ Park(m) \/ Remove(m)

ASpec == AInit /\ [][ANext]_avars
=============================================================================
