--------------------------- MODULE QueueConsumer ---------------------------
(***************************************************************************)
(* The queue worker of WORKER_STAGE (services/queue_consumer.py,           *)
(* application/worker_stages.py): one process polls the raw, AI and        *)
(* post-AI queues in turn, or one process a stage does.  The queues are    *)
(* RabbitMQ's or lists in Redis, where a popped message is gone.           *)
(*                                                                         *)
(* What a handler decides is left open (PreAiIngestion, AiStage and        *)
(* PostAiDedup model it): it may pass the post on, then return or raise.   *)
(* A RabbitMQ connection lost under a running handler is in EventBus.      *)
(***************************************************************************)
EXTENDS Naturals, Sequences

CONSTANTS
  Posts,       \* posts published to the raw queue
  MaxRetries,  \* rabbitmq_max_retries, also of the Redis queue
  MaxFaults    \* bound: ended processes and publishes that raise

VARIABLES
  backend,     \* settings.queue_backend
  serves,      \* the stages each process was started for
  configured,  \* openrouter_api_key is set
  published,   \* posts the listener has published
  queue,       \* messages of each stage's queue, [post, attempt]
  loop,        \* each process: where process_batch_once is, with which message
  saved,       \* posts the post-AI stage saved
  left,        \* posts acknowledged without being passed on
  dead,        \* posts in a dead-letter queue
  faults,
  dropped      \* history: posts whose last copy in Redis was popped and not put back

vars == <<backend, serves, configured, published, queue, loop, saved, left, dead, faults, dropped>>
settings == <<backend, serves, configured>>

Stages == 1 .. 3     \* pre_ai, ai, dedup
Processes == Stages

Message(p, attempt) == [post |-> p, attempt |-> attempt]
Polls(s) == [at |-> "poll", stage |-> s]
Down == [at |-> "down"]

\* The combined worker of build_runtime, and the one-stage workers of run_worker_stage.
Combined == [w \in Processes |-> IF w = 1 THEN Stages ELSE {}]
Split    == [w \in Processes |-> {w}]

Init ==
  /\ backend \in {"rabbitmq", "redis"}
  /\ serves \in {Combined, Split}
  /\ configured \in BOOLEAN
  /\ published = {}
  /\ queue = [s \in Stages |-> << >>]
  /\ loop = [w \in Processes |-> Down]
  /\ saved = {} /\ left = {} /\ dead = {} /\ dropped = {}
  /\ faults = 0

Fault == faults < MaxFaults /\ faults' = faults + 1

-----------------------------------------------------------------------------
(* The queues                                                              *)

Put(q, s, m) == [q EXCEPT ![s] = Append(@, m)]

\* RabbitMQ takes an unacknowledged message back to the head of its queue.
Requeued(q, s, m) == [q EXCEPT ![s] = <<m>> \o @]

Publish(p) ==
  /\ p \notin published
  /\ published' = published \cup {p}
  /\ queue' = Put(queue, 1, Message(p, 0))
  /\ UNCHANGED <<settings, loop, saved, left, dead, faults, dropped>>

\* The process of w ends with message m in hand: RabbitMQ still has it, Redis does not.
EndsHolding(w, m) ==
  /\ loop' = [loop EXCEPT ![w] = Down]
  /\ IF backend = "rabbitmq"
       THEN queue' = Requeued(queue, loop[w].stage, m) /\ UNCHANGED dropped
       ELSE dropped' = dropped \cup {m.post} /\ UNCHANGED queue

-----------------------------------------------------------------------------
(* process_batch_once                                                      *)

\* A split AI worker without a key does not start: _build_ai_worker raises.
Starts(w) == serves[w] # {} /\ (serves[w] = {2} => configured)

Start(w) ==
  /\ loop[w] = Down /\ Starts(w)
  /\ loop' = [loop EXCEPT ![w] = Polls(w)]
  /\ UNCHANGED <<settings, published, queue, saved, left, dead, faults, dropped>>

\* The queues of other stages are not polled.
After(w) == Polls(IF serves[w] = Stages THEN 1 + (loop[w].stage % 3) ELSE w)

\* An empty queue is passed over.
Nothing(w) ==
  /\ loop[w].at = "poll"
  /\ queue[loop[w].stage] = << >>
  /\ loop' = [loop EXCEPT ![w] = After(w)]
  /\ UNCHANGED <<settings, published, queue, saved, left, dead, faults, dropped>>

Pop(w) ==
  /\ loop[w].at = "poll"
  /\ queue[loop[w].stage] # << >>
  /\ LET s == loop[w].stage IN
     /\ queue' = [queue EXCEPT ![s] = Tail(@)]
     /\ loop' = [loop EXCEPT ![w] = [at |-> "handle", stage |-> s,
                                     message |-> Head(queue[s]), passed |-> FALSE]]
  /\ UNCHANGED <<settings, published, saved, left, dead, faults, dropped>>

Handles(w) == loop[w].at = "handle"

\* The combined worker without a key has no AI worker and runs no handler.
HasHandler(w) == loop[w].stage = 2 => configured

\* The handler publishes to the next stage, or saves the announcement.
PassOn(w) ==
  /\ Handles(w) /\ HasHandler(w) /\ ~loop[w].passed
  /\ LET s == loop[w].stage
         p == loop[w].message.post IN
     /\ queue' = IF s < 3 THEN Put(queue, s + 1, Message(p, 0)) ELSE queue
     /\ saved' = IF s = 3 THEN saved \cup {p} ELSE saved
  /\ loop' = [loop EXCEPT ![w].passed = TRUE]
  /\ UNCHANGED <<settings, published, left, dead, faults, dropped>>

\* It returns and the message is acknowledged, whatever became of the post: the
\* pre-AI filter may have dropped it, the AI worker have recorded a failure.
Acked(w) ==
  /\ Handles(w) /\ HasHandler(w)
  /\ loop[w].stage = 3 => loop[w].passed
  /\ left' = IF loop[w].passed THEN left ELSE left \cup {loop[w].message.post}
  /\ loop' = [loop EXCEPT ![w] = After(w)]
  /\ UNCHANGED <<settings, published, queue, saved, dead, faults, dropped>>

\* Both queues: a message at the limit goes to the dead letters, or nowhere in Redis.
MayRetry(m) == m.attempt < MaxRetries

\* queue.retry: the next attempt is stored and this one settled.
RetryStores(w) ==
  /\ MayRetry(loop[w].message)
  /\ queue' = Put(queue, loop[w].stage,
                  Message(loop[w].message.post, loop[w].message.attempt + 1))
  /\ loop' = [loop EXCEPT ![w] = After(w)]
  /\ UNCHANGED <<dead, faults, dropped>>

RetryExhausted(w) ==
  /\ ~MayRetry(loop[w].message)
  /\ LET p == loop[w].message.post IN
     IF backend = "rabbitmq" THEN dead' = dead \cup {p} /\ UNCHANGED dropped
                             ELSE dropped' = dropped \cup {p} /\ UNCHANGED dead
  /\ loop' = [loop EXCEPT ![w] = After(w)]
  /\ UNCHANGED <<queue, faults>>

\* Its publish raises out of process_batch_once and run_forever: the process ends.
RetryRaises(w) ==
  /\ MayRetry(loop[w].message)
  /\ Fault
  /\ EndsHolding(w, loop[w].message)
  /\ UNCHANGED dead

\* The handler raises, before or after it passed the post on, or the ack does.
Raised(w) ==
  /\ Handles(w) /\ HasHandler(w)
  /\ RetryStores(w) \/ RetryExhausted(w) \/ RetryRaises(w)
  /\ UNCHANGED <<settings, published, saved, left>>

\* Mutant: a message that cannot be handled is acknowledged.
SkippedAcked(w) ==
  /\ Handles(w) /\ ~HasHandler(w)
  /\ loop' = [loop EXCEPT ![w] = After(w)]
  /\ UNCHANGED <<settings, published, queue, saved, left, dead, faults, dropped>>

\* "AI worker not configured": the message is retried until it is used up.
Skipped(w) ==
  /\ Handles(w) /\ ~HasHandler(w)
  /\ RetryStores(w) \/ RetryExhausted(w) \/ RetryRaises(w)
  /\ UNCHANGED <<settings, published, saved, left>>

Crash(w) ==
  /\ Handles(w)
  /\ Fault
  /\ EndsHolding(w, loop[w].message)
  /\ UNCHANGED <<settings, published, saved, left, dead>>

Next ==
  \/ \E p \in Posts : Publish(p)
  \/ \E w \in Processes : \/ Start(w) \/ Nothing(w) \/ Pop(w) \/ PassOn(w) \/ Acked(w)
                          \/ Raised(w) \/ Skipped(w) \/ Crash(w)

Spec == Init /\ [][Next]_vars

-----------------------------------------------------------------------------
(* Properties                                                              *)

Queued(p) == \E s \in Stages : \E i \in DOMAIN queue[s] : queue[s][i].post = p
InHand(p) == \E w \in Processes : Handles(w) /\ loop[w].message.post = p

\* Through the three stages, however they are split over processes: a published
\* post is in a queue or in hand, was saved, was let go by a handler that
\* returned, or is a dead letter.  Only Redis, which keeps no copy of a popped
\* message and has no dead letters, may have lost it, when a process ended with
\* it, a retry could not be stored, or its attempts were used up.  A handler that
\* returned may have had no reason to: that it has one is said in PreAiIngestion
\* and AiStage (AckedIsAccounted, LeavesWithReason).
PostAccounted ==
  \A p \in published :
    \/ Queued(p) \/ InHand(p) \/ p \in saved \cup left \cup dead
    \/ backend = "redis" /\ p \in dropped
=============================================================================
