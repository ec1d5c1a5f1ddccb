---------------------------- MODULE AlbumBuffer ----------------------------
(***************************************************************************)
(* Ingestion of one Telegram post: each listener's handle_update           *)
(* (services/telegram_listener.py, TelegramAccountListener), its album     *)
(* debounce buffer (services/media_buffer.py, TelegramAlbumBuffer) and the *)
(* idempotent publisher behind it (QueueRawTelegramEventPublisher).        *)
(*                                                                         *)
(* Every listener has a buffer of its own; the idempotency key of the post *)
(* is shared through Redis.  A listener stands for one listener object: an *)
(* account that is listened to again after a refresh is another element.   *)
(* The seen check, the publish and the mark of a flush are separate steps, *)
(* since the event loop runs others at each await.                         *)
(***************************************************************************)
EXTENDS Integers

CONSTANTS
  Listeners,
  Parts,      \* the messages a post may have
  MaxFaults,  \* bound on crashes, failed publishes and failed Redis calls
  None        \* no update in hand

ASSUME AlbumAssumption ==
  /\ MaxFaults \in Nat
  /\ None \notin Parts

VARIABLES
  post,       \* the messages of the post
  grouped,    \* they carry a media_group_id; if not the post is one message
  phase,      \* listener: run, stop and exit of the listener object
  inhand,     \* listener: the update handle_update awaits the seen check for
  group,      \* buffer: _groups[key], the events waiting
  timer,      \* buffer: _flush_tasks[key] is set
  flights,    \* downstream publishes under way
  seen,       \* Redis: the post's idempotency key
  queue,      \* the raw events stored in the raw announcements queue
  delivered,  \* history: the parts each listener handed to its publisher
  retained,   \* history: the parts put back after a failed publish
  faults

source == <<post, grouped>>
listener == <<phase, inhand>>
buffer == <<group, timer>>
history == <<delivered, retained>>
vars == <<source, listener, buffer, flights, seen, queue, history, faults>>

Phases == {"idle", "up", "stopping", "ending", "down", "dead"}

\* awaited: flush_all gathers this flush, so that the listener waits for it.
Flights ==
  [by : Listeners, parts : SUBSET Parts, at : {"check", "publish", "mark"}, awaited : BOOLEAN]

\* Type invariant: the shape of the listeners', the buffers' and Redis' state.
TypeOK ==
  /\ post \subseteq Parts /\ grouped \in BOOLEAN
  /\ phase \in [Listeners -> Phases]
  /\ inhand \in [Listeners -> Parts \cup {None}]
  /\ group \in [Listeners -> SUBSET Parts]
  /\ timer \in [Listeners -> BOOLEAN]
  /\ flights \subseteq Flights
  /\ seen \in BOOLEAN
  /\ queue \subseteq [by : Listeners, parts : SUBSET Parts]
  /\ delivered \in [Listeners -> SUBSET Parts]
  /\ retained \in [Listeners -> SUBSET Parts]
  /\ faults \in 0..MaxFaults

Init ==
  /\ post \in SUBSET Parts /\ post # {}
  /\ grouped \in BOOLEAN
  /\ ~grouped => \A p, q \in post : p = q
  /\ phase = [l \in Listeners |-> "idle"]
  /\ inhand = [l \in Listeners |-> None]
  /\ group = [l \in Listeners |-> {}]
  /\ timer = [l \in Listeners |-> FALSE]
  /\ flights = {}
  /\ seen = FALSE
  /\ queue = {}
  /\ delivered = [l \in Listeners |-> {}]
  /\ retained = [l \in Listeners |-> {}]
  /\ faults = 0

Fault ==
  /\ faults < MaxFaults
  /\ faults' = faults + 1

Running(l) == phase[l] \in {"up", "stopping"}

\* handle_update awaits the publish of a message outside an album.
Publishing(l) == ~grouped /\ \E f \in flights : f.by = l

Flight(l, parts, awaited) == [by |-> l, parts |-> parts, at |-> "check", awaited |-> awaited]

-----------------------------------------------------------------------------
(* TelegramAccountListener                                                 *)

Start(l) ==
  /\ phase[l] = "idle"
  /\ phase' = [phase EXCEPT ![l] = "up"]
  /\ UNCHANGED <<source, inhand, buffer, flights, seen, queue, history, faults>>

\* The key handle_update asks for is the single message's.  For a part of an
\* album that key is never marked; for a single message it is the post's.
Receive(l, p) ==
  /\ phase[l] = "up"
  /\ inhand[l] = None
  /\ p \notin delivered[l]
  /\ ~Publishing(l)
  /\ inhand' = [inhand EXCEPT ![l] = p]
  /\ UNCHANGED <<source, phase, buffer, flights, seen, queue, history, faults>>

SkipDuplicate(l) ==
  /\ Running(l) /\ inhand[l] # None
  /\ ~grouped /\ seen
  /\ inhand' = [inhand EXCEPT ![l] = None]
  /\ UNCHANGED <<source, phase, buffer, flights, seen, queue, history, faults>>

\* Mutant of Buffer: the previous timer is cancelled and none is started.
BufferCancelsOnly(l) ==
  /\ Running(l) /\ inhand[l] # None
  /\ grouped
  /\ group' = [group EXCEPT ![l] = @ \cup {inhand[l]}]
  /\ timer' = [timer EXCEPT ![l] = ~@]
  /\ inhand' = [inhand EXCEPT ![l] = None]
  /\ delivered' = [delivered EXCEPT ![l] = @ \cup {inhand[l]}]
  /\ UNCHANGED <<source, phase, flights, seen, queue, retained, faults>>

\* publish of the album buffer: append, cancel the timer, start a new one.
Buffer(l) ==
  /\ Running(l) /\ inhand[l] # None
  /\ grouped
  /\ group' = [group EXCEPT ![l] = @ \cup {inhand[l]}]
  /\ timer' = [timer EXCEPT ![l] = TRUE]
  /\ inhand' = [inhand EXCEPT ![l] = None]
  /\ delivered' = [delivered EXCEPT ![l] = @ \cup {inhand[l]}]
  /\ UNCHANGED <<source, phase, flights, seen, queue, retained, faults>>

\* A message outside an album goes downstream within handle_update.
PublishDirect(l) ==
  /\ Running(l) /\ inhand[l] # None
  /\ ~grouped /\ ~seen
  /\ flights' = flights \cup {Flight(l, {inhand[l]}, TRUE)}
  /\ inhand' = [inhand EXCEPT ![l] = None]
  /\ delivered' = [delivered EXCEPT ![l] = @ \cup {inhand[l]}]
  /\ UNCHANGED <<source, phase, buffer, seen, queue, retained, faults>>

-----------------------------------------------------------------------------
(* TelegramAlbumBuffer                                                     *)

\* flush pops the whole group and its timer and publishes downstream.
Flush(l, awaited) ==
  /\ flights' = IF group[l] = {} THEN flights
                ELSE flights \cup {Flight(l, group[l], awaited)}
  /\ group' = [group EXCEPT ![l] = {}]
  /\ timer' = [timer EXCEPT ![l] = FALSE]

TimerFires(l) ==
  /\ timer[l]
  /\ Flush(l, FALSE)
  /\ UNCHANGED <<source, listener, seen, queue, history, faults>>

\* Mutant of Restore: a failed flush overwrites the group it put back.
RestoreOverwrites(f) == group' = [group EXCEPT ![f.by] = f.parts]
Restore(f) == group' = [group EXCEPT ![f.by] = @ \cup f.parts]

\* stop: the stop request and flush_all.  An update may be in hand.
Stop(l) ==
  /\ phase[l] = "up"
  /\ phase' = [phase EXCEPT ![l] = "stopping"]
  /\ Flush(l, TRUE)
  /\ UNCHANGED <<source, inhand, seen, queue, history, faults>>

\* The update loop of run ends (stop request, Telegram error, end of the
\* stream) and its finally clause calls flush_all.
RunEnds(l) ==
  /\ Running(l)
  /\ inhand[l] = None
  /\ ~Publishing(l)
  /\ phase' = [phase EXCEPT ![l] = "ending"]
  /\ Flush(l, TRUE)
  /\ UNCHANGED <<source, inhand, seen, queue, history, faults>>

\* The seen check of handle_update raises: the update is gone and run ends.
LookupRaises(l) ==
  /\ Running(l) /\ inhand[l] # None
  /\ Fault
  /\ inhand' = [inhand EXCEPT ![l] = None]
  /\ phase' = [phase EXCEPT ![l] = "ending"]
  /\ Flush(l, TRUE)
  /\ UNCHANGED <<source, seen, queue, history>>

\* The gather of flush_all is over; a flush a timer began is not waited for.
Exit(l) ==
  /\ phase[l] = "ending"
  /\ \A f \in flights : f.by = l => ~f.awaited
  /\ phase' = [phase EXCEPT ![l] = "down"]
  /\ UNCHANGED <<source, inhand, buffer, flights, seen, queue, history, faults>>

\* The listener process is killed: what it holds in memory is gone.
Crash ==
  /\ \E l \in Listeners : phase[l] \notin {"idle", "dead"}
  /\ Fault
  /\ phase' = [l \in Listeners |-> IF phase[l] = "idle" THEN "idle" ELSE "dead"]
  /\ inhand' = [l \in Listeners |-> None]
  /\ group' = [l \in Listeners |-> {}]
  /\ timer' = [l \in Listeners |-> FALSE]
  /\ flights' = {}
  /\ UNCHANGED <<source, seen, queue, history>>

-----------------------------------------------------------------------------
(* QueueRawTelegramEventPublisher.publish                                  *)

Advance(f, at) == flights' = (flights \ {f}) \cup {[f EXCEPT !.at = at]}

Stored(f) == queue \cup {[by |-> f.by, parts |-> f.parts]}

DropSeen(f) ==
  /\ f.at = "check" /\ seen
  /\ flights' = flights \ {f}
  /\ UNCHANGED <<source, listener, buffer, seen, queue, history, faults>>

NotSeen(f) ==
  /\ f.at = "check" /\ ~seen
  /\ Advance(f, "publish")
  /\ UNCHANGED <<source, listener, buffer, seen, queue, history, faults>>

Publish(f) ==
  /\ f.at = "publish"
  /\ queue' = Stored(f)
  /\ Advance(f, "mark")
  /\ UNCHANGED <<source, listener, buffer, seen, history, faults>>

MarkSeen(f) ==
  /\ f.at = "mark"
  /\ seen' = TRUE
  /\ flights' = flights \ {f}
  /\ UNCHANGED <<source, listener, buffer, queue, history, faults>>

\* Mutant of Fails: the key is claimed before the publish that then fails.
FailsClaimed(f) ==
  /\ Fault
  /\ \/ UNCHANGED queue
     \/ f.at = "publish" /\ queue' = Stored(f)
  /\ flights' = flights \ {f}
  /\ seen' = (f.at # "check")
  /\ IF grouped
       THEN /\ Restore(f)
            /\ retained' = [retained EXCEPT ![f.by] = @ \cup f.parts]
            /\ UNCHANGED phase
       ELSE /\ phase' = [phase EXCEPT ![f.by] = "ending"]
            /\ UNCHANGED <<group, retained>>
  /\ UNCHANGED <<source, inhand, timer, delivered>>

\* The check, the publish (which may have been stored all the same) or the
\* mark raises.  flush puts the events back, without a timer; a message
\* published directly is gone and run ends.
Fails(f) ==
  /\ Fault
  /\ \/ UNCHANGED queue
     \/ f.at = "publish" /\ queue' = Stored(f)
  /\ flights' = flights \ {f}
  /\ IF grouped
       THEN /\ Restore(f)
            /\ retained' = [retained EXCEPT ![f.by] = @ \cup f.parts]
            /\ UNCHANGED phase
       ELSE /\ phase' = [phase EXCEPT ![f.by] = "ending"]
            /\ UNCHANGED <<group, retained>>
  /\ UNCHANGED <<source, inhand, timer, seen, delivered>>

-----------------------------------------------------------------------------
ListenerStep(l) ==
  \/ Start(l)
  \/ \E p \in post : Receive(l, p)
  \/ SkipDuplicate(l)
  \/ Buffer(l)
  \/ PublishDirect(l)
  \/ TimerFires(l)
  \/ Stop(l)
  \/ RunEnds(l)
  \/ LookupRaises(l)
  \/ Exit(l)

FlightStep(f) == DropSeen(f) \/ NotSeen(f) \/ Publish(f) \/ MarkSeen(f) \/ Fails(f)

Next ==
  \/ \E l \in Listeners : ListenerStep(l)
  \/ \E f \in flights : FlightStep(f)
  \/ Crash

Spec == Init /\ [][Next]_vars

-----------------------------------------------------------------------------
(* Properties                                                              *)

Queued == UNION {e.parts : e \in queue}
InFlight(l) == UNION {f.parts : f \in {g \in flights : g.by = l}}

\* The key is marked only after a publish was stored, by whichever listener
\* and after whatever failures: a marked post has an event in the raw queue.
SeenMeansQueued == seen => queue # {}

\* A part handed to the publisher of a listener whose process lives is waiting
\* in the buffer, being published, in the raw queue, or belongs to a post that
\* was already marked; a failed flush loses none, also when parts came in
\* while it was publishing (media_buffer.py flush, the except branch).
PartsAccounted ==
  grouped =>
    \A l \in Listeners : phase[l] # "dead" =>
      \/ seen
      \/ delivered[l] \subseteq group[l] \cup InFlight(l) \cup Queued

\* A buffered part waits without a timer only when a publish failed before: no
\* order of arrivals, timers and flushes strands an album.
StrandedOnlyByFailure ==
  \A l \in Listeners : group[l] # {} => timer[l] \/ retained[l] # {}

=============================================================================
