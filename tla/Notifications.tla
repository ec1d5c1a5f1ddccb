--------------------------- MODULE Notifications ---------------------------
(***************************************************************************)
(* Saved-filter notifications for one persisted announcement               *)
(* (services/notifications.py with the SQLAlchemy repositories of          *)
(* repositories/sqlalchemy.py): matcher processes turn the announcement's  *)
(* message into one job row and one delivery message per matching filter,  *)
(* delivery processes claim the row, send through Telegram and record the  *)
(* outcome.  Every database statement, publish and send is a step of its   *)
(* own.  The compatibility worker (workers/serve.py) delivers too, but     *)
(* polls the rows that are ready instead of consuming delivery messages.   *)
(*                                                                         *)
(* The two queues are as EventBus shows them: a handler that raises is     *)
(* retried up to MaxRetries times and then dead-lettered, a process that   *)
(* ends has its message requeued, and a lost connection requeues a message *)
(* whose handler goes on.                                                  *)
(***************************************************************************)
EXTENDS Integers

CONSTANTS
  Filters,         \* the saved filters; a job row is keyed by its filter
  Matchers,        \* processes of worker_notification_match
  Senders,         \* processes of worker_notification_delivery
  Pollers,         \* compatibility workers, stage notification or all
  Polling,         \* whether a deployment runs them: a set of truth values
  Schemas,         \* what ck_notifications_status may allow: sets of statuses
  MaxRetries,      \* of the two queues
  MaxFaults,       \* bound on crashes and failed publishes, writes and sends
  MaxOverlaps,     \* bound on redeliveries to a second process
  None             \* no filter in hand

Statuses == {"pending", "sending", "sent", "failed", "suppressed"}

ASSUME NotificationsAssumption ==
  /\ Schemas \subseteq SUBSET Statuses
  /\ \A s \in Schemas : (Statuses \ {"sending"}) \subseteq s
  /\ Polling \subseteq BOOLEAN
  /\ MaxRetries \in Nat /\ MaxFaults \in Nat /\ MaxOverlaps \in Nat
  /\ None \notin Filters
  /\ Matchers \cap Senders = {} /\ Matchers \cap Pollers = {} /\ Senders \cap Pollers = {}

VARIABLES
  polling,    \* the pollers run
  schema,     \* database: the statuses its check constraint allows
  saved,      \* database: the filters not deleted
  row,        \* database: status of each job row
  due,        \* database: next_attempt_at is null or in the past
  tried,      \* database: attempts > 0
  announced,  \* copies of the announcement message waiting
  retries,    \* retries of the announcement message so far
  queued,     \* copies of each delivery message waiting
  reruns,     \* retries of each delivery message so far
  dead,       \* delivery messages in the dead-letter queue
  at,         \* process: the point its handler has reached
  todo,       \* matcher: filters of list_for_matching still to look at;
              \* poller: jobs of list_ready still to deliver
  job,        \* process: the filter or job in hand
  outcome,    \* sender or poller: what Telegram answered
  published,  \* history: delivery messages published by matchers, per job
  telegram,   \* history: messages Telegram accepted, per job
  doubtful,   \* history: of those, the ones answered by a transient error
  faults,
  overlaps

database == <<polling, schema, saved, row, due, tried>>
bus == <<announced, retries, queued, reruns, dead>>
process == <<at, todo, job, outcome>>
history == <<published, telegram, doubtful>>
counters == <<faults, overlaps>>
vars == <<database, bus, process, history, counters>>

Deliverers == Senders \cup Pollers
Processes == Matchers \cup Deliverers
Points == {"idle", "select", "insert", "publish", "claim", "send", "record", "ack"}
Outcomes == {"sent", "retryable", "blocked", "permanent"}

\* Type invariant: the shape of the database, the queues and the processes.
TypeOK ==
  /\ polling \in Polling
  /\ schema \in Schemas
  /\ saved \subseteq Filters
  /\ row \in [Filters -> schema \cup {"none"}]
  /\ due \in [Filters -> BOOLEAN] /\ tried \in [Filters -> BOOLEAN]
  /\ announced \in Nat /\ retries \in 0..MaxRetries
  /\ queued \in [Filters -> Nat] /\ reruns \in [Filters -> 0..MaxRetries]
  /\ dead \subseteq Filters
  /\ at \in [Processes -> Points]
  /\ todo \in [Matchers \cup Pollers -> SUBSET Filters]
  /\ job \in [Processes -> Filters \cup {None}]
  /\ outcome \in [Deliverers -> Outcomes]
  /\ published \in [Filters -> Nat]
  /\ telegram \in [Filters -> Nat] /\ doubtful \in [Filters -> Nat]
  /\ faults \in 0..MaxFaults /\ overlaps \in 0..MaxOverlaps

Init ==
  /\ polling \in Polling
  /\ schema \in Schemas
  /\ saved = Filters
  /\ row = [f \in Filters |-> "none"]
  /\ due = [f \in Filters |-> TRUE] /\ tried = [f \in Filters |-> FALSE]
  /\ announced = 1 /\ retries = 0
  /\ queued = [f \in Filters |-> 0] /\ reruns = [f \in Filters |-> 0]
  /\ dead = {}
  /\ at = [p \in Processes |-> "idle"]
  /\ todo = [p \in Matchers \cup Pollers |-> {}]
  /\ job = [p \in Processes |-> None]
  /\ outcome = [w \in Deliverers |-> "sent"]
  /\ published = [f \in Filters |-> 0]
  /\ telegram = [f \in Filters |-> 0] /\ doubtful = [f \in Filters |-> 0]
  /\ faults = 0 /\ overlaps = 0

Goto(p, point, f) ==
  /\ at' = [at EXCEPT ![p] = point]
  /\ job' = [job EXCEPT ![p] = f]

Fault ==
  /\ faults < MaxFaults
  /\ faults' = faults + 1
  /\ UNCHANGED overlaps

\* A user deletes a saved filter; the foreign key keeps one that has a job.
DeleteFilter(f) ==
  /\ f \in saved
  /\ row[f] = "none"
  /\ saved' = saved \ {f}
  /\ UNCHANGED <<polling, schema, row, due, tried, bus, process, history, counters>>

-----------------------------------------------------------------------------
(* NotificationMatchingEngine.match_announcement                           *)

Match(m) ==
  /\ at[m] = "idle" /\ announced > 0
  /\ announced' = announced - 1
  /\ todo' = [todo EXCEPT ![m] = saved]
  /\ Goto(m, "select", None)
  /\ UNCHANGED <<database, retries, queued, reruns, dead, outcome, history, counters>>

Looked(m, f) == todo' = [todo EXCEPT ![m] = @ \ {f}]

\* The filter is disabled, does not match, or its user is not active.
Skip(m, f) ==
  /\ at[m] = "select" /\ f \in todo[m]
  /\ Looked(m, f)
  /\ UNCHANGED <<database, bus, at, job, outcome, history, counters>>

\* create_pending finds the row (created = False) and nothing is published ...
Existing(m, f) ==
  /\ at[m] = "select" /\ f \in todo[m]
  /\ row[f] # "none"
  /\ Looked(m, f)
  /\ UNCHANGED <<database, bus, at, job, outcome, history, counters>>

\* ... or it does not, and goes on to insert one.
Absent(m, f) ==
  /\ at[m] = "select" /\ f \in todo[m]
  /\ row[f] = "none"
  /\ Looked(m, f)
  /\ Goto(m, "insert", f)
  /\ UNCHANGED <<database, bus, outcome, history, counters>>

\* The unique constraint and the foreign key to user_filters.
MayInsert(f) == row[f] = "none" /\ f \in saved

Insert(m) ==
  /\ at[m] = "insert"
  /\ MayInsert(job[m])
  /\ row' = [row EXCEPT ![job[m]] = "pending"]
  /\ Goto(m, "publish", job[m])
  /\ UNCHANGED <<polling, schema, saved, due, tried, bus, todo, outcome, history, counters>>

PublishJob(m) ==
  /\ at[m] = "publish"
  /\ queued' = [queued EXCEPT ![job[m]] = @ + 1]
  /\ published' = [published EXCEPT ![job[m]] = @ + 1]
  /\ Goto(m, "select", None)
  /\ UNCHANGED <<database, announced, retries, reruns, dead, todo, outcome,
                 telegram, doubtful, counters>>

\* match_announcement returned; the message is acknowledged.
Matched(m) ==
  /\ at[m] = "select" /\ todo[m] = {}
  /\ Goto(m, "idle", None)
  /\ UNCHANGED <<database, bus, todo, outcome, history, counters>>

\* The handler raised: the message is retried, or dead-lettered at the limit.
RetryAnnouncement(m) ==
  /\ IF retries < MaxRetries
       THEN announced' = announced + 1 /\ retries' = retries + 1
       ELSE UNCHANGED <<announced, retries>>
  /\ todo' = [todo EXCEPT ![m] = {}]
  /\ Goto(m, "idle", None)

InsertRaises(m) ==
  /\ at[m] = "insert"
  /\ ~MayInsert(job[m])
  /\ RetryAnnouncement(m)
  /\ UNCHANGED <<database, queued, reruns, dead, outcome, history, counters>>

\* A statement of the matcher fails.
MatchRaises(m) ==
  /\ at[m] \in {"select", "insert"}
  /\ Fault
  /\ RetryAnnouncement(m)
  /\ UNCHANGED <<database, queued, reruns, dead, outcome, history>>

\* The publish raises; the broker may have stored the message all the same.
PublishRaises(m) ==
  /\ at[m] = "publish"
  /\ Fault
  /\ \/ UNCHANGED <<queued, published>>
     \/ /\ queued' = [queued EXCEPT ![job[m]] = @ + 1]
        /\ published' = [published EXCEPT ![job[m]] = @ + 1]
  /\ RetryAnnouncement(m)
  /\ UNCHANGED <<database, reruns, dead, outcome, telegram, doubtful>>

-----------------------------------------------------------------------------
(* NotificationDeliveryWorker: process_job and process_batch               *)

\* Mutant of Claimable: a row left in sending is claimed again.
ClaimableSending(f) == row[f] \in {"pending", "sending"} /\ due[f]
\* The row mark_sending selects.
Claimable(f) == row[f] = "pending" /\ due[f]

Take(s, f) ==
  /\ at[s] = "idle" /\ queued[f] > 0
  /\ queued' = [queued EXCEPT ![f] = @ - 1]
  /\ Goto(s, "select", f)
  /\ UNCHANGED <<database, announced, retries, reruns, dead, todo, outcome, history, counters>>

\* Mutant of Ready: a row is listed until its first attempt only.
ReadyUntried == {f \in Filters : row[f] = "pending" /\ due[f] /\ ~tried[f]}
\* The rows list_ready selects.
Ready == {f \in Filters : row[f] = "pending" /\ due[f]}

\* process_batch; a batch without rows changes nothing.
Poll(w) ==
  /\ polling
  /\ at[w] = "idle" /\ todo[w] = {}
  /\ Ready # {}
  /\ todo' = [todo EXCEPT ![w] = Ready]
  /\ UNCHANGED <<database, bus, at, job, outcome, history, counters>>

\* The next job of the batch; jobs of a batch differ in nothing but their rank.
Pick(w, f) ==
  /\ at[w] = "idle" /\ f \in todo[w]
  /\ todo' = [todo EXCEPT ![w] = @ \ {f}]
  /\ Goto(w, "select", f)
  /\ UNCHANGED <<database, bus, outcome, history, counters>>

\* No row to claim: the attempt is skipped and the message acknowledged.
SkipJob(s) ==
  /\ at[s] = "select" /\ ~Claimable(job[s])
  /\ Goto(s, "idle", None)
  /\ UNCHANGED <<database, bus, todo, outcome, history, counters>>

Select(s) ==
  /\ at[s] = "select" /\ Claimable(job[s])
  /\ Goto(s, "claim", job[s])
  /\ UNCHANGED <<database, bus, todo, outcome, history, counters>>

\* The commit of mark_sending updates the row by its primary key, whatever
\* its status is by now.
Claim(s) ==
  /\ at[s] = "claim"
  /\ "sending" \in schema
  /\ row' = [row EXCEPT ![job[s]] = "sending"]
  /\ tried' = [tried EXCEPT ![job[s]] = TRUE]
  /\ Goto(s, "send", job[s])
  /\ UNCHANGED <<polling, schema, saved, due, bus, todo, outcome, history, counters>>

\* Mutant of RetryDelivery: the queue has no dead-letter exchange.
RetryDeliveryDiscards(s) ==
  /\ IF reruns[job[s]] < MaxRetries
       THEN /\ queued' = [queued EXCEPT ![job[s]] = @ + 1]
            /\ reruns' = [reruns EXCEPT ![job[s]] = @ + 1]
       ELSE UNCHANGED <<queued, reruns>>
  /\ Goto(s, "idle", None)
  /\ UNCHANGED <<announced, retries, dead>>

RetryDelivery(s) ==
  /\ IF reruns[job[s]] < MaxRetries
       THEN /\ queued' = [queued EXCEPT ![job[s]] = @ + 1]
            /\ reruns' = [reruns EXCEPT ![job[s]] = @ + 1]
            /\ UNCHANGED dead
       ELSE dead' = dead \cup {job[s]} /\ UNCHANGED <<queued, reruns>>
  /\ Goto(s, "idle", None)
  /\ UNCHANGED <<announced, retries>>

\* An error leaves process_job, and the message is retried; it leaves
\* process_batch, and run_forever logs it: the rest of the batch is dropped.
HandlerRaises(w) ==
  \/ /\ w \in Senders
     /\ RetryDelivery(w)
     /\ UNCHANGED todo
  \/ /\ w \in Pollers
     /\ todo' = [todo EXCEPT ![w] = {}]
     /\ Goto(w, "idle", None)
     /\ UNCHANGED bus

\* The check constraint refuses the status: the handler raises.
ClaimRaises(s) ==
  /\ at[s] = "claim"
  /\ "sending" \notin schema
  /\ HandlerRaises(s)
  /\ UNCHANGED <<database, outcome, history, counters>>

\* Telegram accepts the message or refuses it for good or for now.
Answer(s, o) ==
  /\ at[s] = "send"
  /\ outcome' = [outcome EXCEPT ![s] = o]
  /\ telegram' = IF o = "sent" THEN [telegram EXCEPT ![job[s]] = @ + 1] ELSE telegram
  /\ Goto(s, "record", job[s])
  /\ UNCHANGED <<database, bus, todo, published, doubtful, counters>>

\* Telegram accepts the message and the connection breaks before it says so.
AnswerLost(s) ==
  /\ at[s] = "send"
  /\ Fault
  /\ outcome' = [outcome EXCEPT ![s] = "retryable"]
  /\ telegram' = [telegram EXCEPT ![job[s]] = @ + 1]
  /\ doubtful' = [doubtful EXCEPT ![job[s]] = @ + 1]
  /\ Goto(s, "record", job[s])
  /\ UNCHANGED <<database, bus, todo, published>>

StatusOf(o) ==
  CASE o = "sent" -> "sent"
    [] o = "retryable" -> "pending"
    [] o = "blocked" -> "suppressed"
    [] o = "permanent" -> "failed"

\* mark_sent, mark_retryable_failure or mark_permanent_failure; process_job
\* returns normally in all cases ...
Record(s) ==
  /\ at[s] = "record"
  /\ row' = [row EXCEPT ![job[s]] = StatusOf(outcome[s])]
  /\ due' = [due EXCEPT ![job[s]] = outcome[s] # "retryable"]
  /\ Goto(s, "ack", job[s])
  /\ UNCHANGED <<polling, schema, saved, tried, bus, todo, outcome, history, counters>>

\* ... and the message, if there is one, is acknowledged, a retry recorded in the
\* row or not.
Ack(s) ==
  /\ at[s] = "ack"
  /\ Goto(s, "idle", None)
  /\ UNCHANGED <<database, bus, todo, outcome, history, counters>>

\* The send raises an error no except clause names, or a statement fails.
DeliveryRaises(s) ==
  /\ at[s] \in {"select", "claim", "send", "record"}
  /\ Fault
  /\ HandlerRaises(s)
  /\ UNCHANGED <<database, outcome, history>>

\* next_attempt_at passes.
Due(f) ==
  /\ ~due[f]
  /\ due' = [due EXCEPT ![f] = TRUE]
  /\ UNCHANGED <<polling, schema, saved, row, tried, bus, process, history, counters>>

-----------------------------------------------------------------------------
(* Processes and connections                                               *)

Requeue(p) ==
  \/ /\ p \in Matchers
     /\ announced' = announced + 1 /\ UNCHANGED queued
  \/ /\ p \in Senders
     /\ queued' = [queued EXCEPT ![job[p]] = @ + 1] /\ UNCHANGED announced

Crash(p) ==
  /\ at[p] # "idle" \/ (p \in Pollers /\ todo[p] # {})
  /\ Fault
  /\ \/ Requeue(p)
     \/ p \in Pollers /\ UNCHANGED <<announced, queued>>
  /\ todo' = [q \in DOMAIN todo |-> IF q = p THEN {} ELSE todo[q]]
  /\ Goto(p, "idle", None)
  /\ UNCHANGED <<database, retries, reruns, dead, outcome, history>>

Overlap(p) ==
  /\ at[p] # "idle"
  /\ overlaps < MaxOverlaps
  /\ overlaps' = overlaps + 1
  /\ Requeue(p)
  /\ UNCHANGED <<database, retries, reruns, dead, process, history, faults>>

MatcherStep(m) ==
  \/ Match(m) \/ Matched(m)
  \/ \E f \in Filters : Skip(m, f) \/ Existing(m, f) \/ Absent(m, f)
  \/ Insert(m) \/ InsertRaises(m)
  \/ PublishJob(m)

DeliveryStep(s) ==
  \/ SkipJob(s) \/ Select(s) \/ Claim(s) \/ ClaimRaises(s)
  \/ \E o \in Outcomes : Answer(s, o)
  \/ Record(s) \/ Ack(s)

SenderStep(s) == DeliveryStep(s) \/ \E f \in Filters : Take(s, f)

PollerStep(w) == DeliveryStep(w) \/ Poll(w) \/ \E f \in Filters : Pick(w, f)

Failure ==
  \/ \E m \in Matchers : MatchRaises(m) \/ PublishRaises(m)
  \/ \E s \in Deliverers : AnswerLost(s) \/ DeliveryRaises(s)
  \/ \E p \in Processes : Crash(p) \/ Overlap(p)

Next ==
  \/ \E m \in Matchers : MatcherStep(m)
  \/ \E s \in Senders : SenderStep(s)
  \/ \E w \in Pollers : PollerStep(w)
  \/ \E f \in Filters : DeleteFilter(f) \/ Due(f)
  \/ Failure

Spec == Init /\ [][Next]_vars

\* The processes keep running and time passes; failures are not fair.
FairSpec ==
  /\ Spec
  /\ \A m \in Matchers : WF_vars(MatcherStep(m))
  /\ \A s \in Senders : WF_vars(SenderStep(s))
  /\ \A w \in Pollers : WF_vars(PollerStep(w))
  /\ \A f \in Filters : WF_vars(Due(f))

-----------------------------------------------------------------------------
(* Properties                                                              *)

\* Crashes, failed writes, retries and dead-lettering never send a notification
\* twice, since a claimed row is not claimed again: only a send in doubt, or a
\* second process that got the message or polled the row while the first went on,
\* can.
NoDuplicateWithoutOverlap ==
  overlaps = 0 /\ ~polling => \A f \in Filters : telegram[f] <= 1 + doubtful[f]

\* One delivery message is published for a job, whichever matchers race for it and
\* whatever fails; without failures it is waiting, in hand or dead-lettered until
\* the job is attempted, whatever filters are deleted meanwhile and whatever
\* statuses the schema allows.
JobReachesQueue ==
  /\ \A f \in Filters : published[f] <= 1
  /\ faults = 0 =>
    \A f \in Filters :
      row[f] = "pending" /\ ~tried[f] =>
        \/ queued[f] > 0 \/ f \in dead
        \/ \E m \in Matchers : at[m] = "publish" /\ job[m] = f
        \/ \E s \in Senders : at[s] \in {"select", "claim"} /\ job[s] = f

\* Without failures a created job is eventually attempted.  Where a poller runs,
\* every job leaves pending, failures or not: one whose delivery message was never
\* published, and one that an attempt put back for later, whichever process made
\* the attempt and however the two race for the row.
EventuallyAttempted ==
  \A f \in Filters :
    row[f] = "pending" ~>
      IF polling THEN row[f] # "pending" ELSE tried[f] \/ faults > 0

\* Documented: the delivery handler sends what it is given; without failures no
\* delivery message ends in the dead-letter queue.
DeliveryNeedsNoOperator == faults = 0 /\ overlaps = 0 => dead = {}

=============================================================================
