------------------------------ MODULE EventBus ------------------------------
(***************************************************************************)
(* The durable event bus between the pipeline's processes: the RabbitMQ    *)
(* transport (services/queue.py, RabbitMQEventQueue) and the loop every    *)
(* stage runs on it (services/stage_consumer.py, RabbitStageConsumer).     *)
(*                                                                         *)
(* One queue and its dead-letter queue.  The broker's side of a message is *)
(* a copy slot; a retry is a new copy with retry_count + 1, published      *)
(* BEFORE the failed delivery is acknowledged.  Workers crash, connections *)
(* drop (the broker then requeues what was not acknowledged while the      *)
(* worker goes on with a delivery that is no longer its own), and publishes*)
(* raise, with or without the broker having stored the message.            *)
(*                                                                         *)
(* Queue order is not modelled: with several workers and requeues the      *)
(* broker promises none.                                                   *)
(***************************************************************************)
EXTENDS Integers

CONSTANTS
  Msgs,         \* messages (a payload with its correlation id)
  Malformed,    \* the messages whose body does not decode as JSON
  Workers,      \* consumer processes of the queue
  Copies,       \* broker slots; a bound on the copies stored at one time
  MaxRetries,   \* max_retries of RabbitMQEventQueue
  MaxFaults,    \* bound on crashes, lost connections and failed publishes
  None          \* no worker, no copy, no message

ASSUME BusAssumption ==
  /\ Malformed \subseteq Msgs
  /\ MaxRetries \in Nat
  /\ MaxFaults \in Nat
  /\ None \notin Msgs \cup Workers \cup Copies

VARIABLES
  st,           \* broker: where each copy is
  holder,       \* broker: the worker an unacknowledged copy is delivered to
  of,           \* broker: the message a stored copy carries
  rc,           \* broker: its retry_count
  pc,           \* worker: the point run_forever has reached
  delivery,     \* worker: the copy its delivery_token stands for
  msg,          \* worker: the message in hand
  attempt,      \* worker: its retry_count
  accepted,     \* history: messages whose publish returned to the producer
  completions,  \* history: handler runs that returned, per message, up to 2
  failures,     \* history: handler runs that raised, up to MaxRetries + 1
  faults        \* faults so far

broker == <<st, holder, of, rc>>
worker == <<pc, delivery, msg, attempt>>
history == <<accepted, completions, failures>>
vars == <<broker, worker, history, faults>>

Places == {"free", "ready", "unacked", "dead"}
Points == {"idle", "handling", "ok", "failed", "retried", "down"}

\* Type invariant: the shape of the broker's and the workers' state.
TypeOK ==
  /\ st \in [Copies -> Places]
  /\ holder \in [Copies -> Workers \cup {None}]
  /\ of \in [Copies -> Msgs \cup {None}]
  /\ rc \in [Copies -> 0..MaxRetries]
  /\ pc \in [Workers -> Points]
  /\ delivery \in [Workers -> Copies \cup {None}]
  /\ msg \in [Workers -> Msgs \cup {None}]
  /\ attempt \in [Workers -> 0..MaxRetries]
  /\ accepted \subseteq Msgs
  /\ completions \in [Msgs -> 0..2]
  /\ failures \in [Msgs -> 0..(MaxRetries + 1)]
  /\ faults \in 0..MaxFaults

Init ==
  /\ st = [c \in Copies |-> "free"]
  /\ holder = [c \in Copies |-> None]
  /\ of = [c \in Copies |-> None]
  /\ rc = [c \in Copies |-> 0]
  /\ pc = [w \in Workers |-> "idle"]
  /\ delivery = [w \in Workers |-> None]
  /\ msg = [w \in Workers |-> None]
  /\ attempt = [w \in Workers |-> 0]
  /\ accepted = {}
  /\ completions = [m \in Msgs |-> 0]
  /\ failures = [m \in Msgs |-> 0]
  /\ faults = 0

-----------------------------------------------------------------------------
(* The broker                                                              *)

Store(c, m, r) ==
  /\ st[c] = "free"
  /\ st' = [st EXCEPT ![c] = "ready"]
  /\ of' = [of EXCEPT ![c] = m]
  /\ rc' = [rc EXCEPT ![c] = r]
  /\ UNCHANGED holder

\* Settling a delivery removes its copy from the queue (ack) or moves it to
\* the dead-letter queue (reject with requeue=False).
Settle(c, place) ==
  /\ st' = [st EXCEPT ![c] = place]
  /\ holder' = [holder EXCEPT ![c] = None]
  /\ UNCHANGED <<of, rc>>

\* Mutant of Requeue: pop with no_ack=True leaves nothing to requeue.
RequeueNothing(w) ==
  /\ st' = [c \in Copies |-> IF holder[c] = w THEN "free" ELSE st[c]]
  /\ holder' = [c \in Copies |-> IF holder[c] = w THEN None ELSE holder[c]]
  /\ UNCHANGED <<of, rc>>

\* The broker requeues every copy delivered to w that w did not settle.
Requeue(w) ==
  /\ st' = [c \in Copies |-> IF holder[c] = w THEN "ready" ELSE st[c]]
  /\ holder' = [c \in Copies |-> IF holder[c] = w THEN None ELSE holder[c]]
  /\ UNCHANGED <<of, rc>>

Fault ==
  /\ faults < MaxFaults
  /\ faults' = faults + 1

\* The worker's delivery is still its own: no connection loss since the pop.
OwnsDelivery(w) == delivery[w] # None /\ holder[delivery[w]] = w

Drop(w, point) ==
  /\ pc' = [pc EXCEPT ![w] = point]
  /\ delivery' = [delivery EXCEPT ![w] = None]
  /\ msg' = [msg EXCEPT ![w] = None]
  /\ attempt' = [attempt EXCEPT ![w] = 0]

-----------------------------------------------------------------------------
(* Producers                                                               *)

Publish(m) ==
  /\ m \notin accepted
  /\ \E c \in Copies : Store(c, m, 0)
  /\ accepted' = accepted \cup {m}
  /\ UNCHANGED <<worker, completions, failures, faults>>

\* publish raises QueuePublishError although the broker stored the message;
\* when the broker did not store it nothing changes.
PublishInDoubt(m) ==
  /\ m \notin accepted
  /\ Fault
  /\ \E c \in Copies : Store(c, m, 0)
  /\ UNCHANGED <<worker, history>>

-----------------------------------------------------------------------------
(* RabbitStageConsumer.run_forever                                         *)

Pop(w) ==
  /\ pc[w] = "idle"
  /\ \E c \in Copies :
       /\ st[c] = "ready"
       /\ of[c] \notin Malformed
       /\ st' = [st EXCEPT ![c] = "unacked"]
       /\ holder' = [holder EXCEPT ![c] = w]
       /\ pc' = [pc EXCEPT ![w] = "handling"]
       /\ delivery' = [delivery EXCEPT ![w] = c]
       /\ msg' = [msg EXCEPT ![w] = of[c]]
       /\ attempt' = [attempt EXCEPT ![w] = rc[c]]
  /\ UNCHANGED <<of, rc, history, faults>>

\* The except branch of pop: the body does not decode, the delivery is
\* rejected and the loop sees None.
PopMalformed(w) ==
  /\ pc[w] = "idle"
  /\ \E c \in Copies :
       /\ st[c] = "ready"
       /\ of[c] \in Malformed
       /\ Settle(c, "dead")
  /\ UNCHANGED <<worker, history, faults>>

AtMost(n, bound) == IF n > bound THEN bound ELSE n

HandlerReturns(w) ==
  /\ pc[w] = "handling"
  /\ pc' = [pc EXCEPT ![w] = "ok"]
  /\ completions' = [completions EXCEPT ![msg[w]] = AtMost(@ + 1, 2)]
  /\ UNCHANGED <<broker, delivery, msg, attempt, accepted, failures, faults>>

HandlerRaises(w) ==
  /\ pc[w] = "handling"
  /\ pc' = [pc EXCEPT ![w] = "failed"]
  /\ failures' = [failures EXCEPT ![msg[w]] = AtMost(@ + 1, MaxRetries + 1)]
  /\ UNCHANGED <<broker, delivery, msg, attempt, accepted, completions, faults>>

\* ack of the delivery, after the handler returned or after retry stored the
\* copy of the next attempt.
Ack(w) ==
  /\ pc[w] \in {"ok", "retried"}
  /\ OwnsDelivery(w)
  /\ Settle(delivery[w], "free")
  /\ Drop(w, "idle")
  /\ UNCHANGED <<history, faults>>

MayRetryOnceLess(w) == attempt[w] + 1 < MaxRetries   \* mutant of MayRetry
MayRetry(w) == attempt[w] < MaxRetries

SameAttempt(w) == attempt[w]                         \* mutant of NextAttempt
NextAttempt(w) == attempt[w] + 1

\* retry below the limit stores the next attempt; the ack is a later step, so
\* that a publish that stored the copy and still raised is this step and a
\* Crash.
Retry(w) ==
  /\ pc[w] = "failed"
  /\ MayRetry(w)
  /\ \E c \in Copies : Store(c, msg[w], NextAttempt(w))
  /\ pc' = [pc EXCEPT ![w] = "retried"]
  /\ UNCHANGED <<delivery, msg, attempt, history, faults>>

\* Mutant of DeadLetter: the queue was declared without a dead-letter exchange.
DeadLetterDiscards(w) ==
  /\ pc[w] = "failed"
  /\ ~MayRetry(w)
  /\ OwnsDelivery(w)
  /\ Settle(delivery[w], "free")
  /\ Drop(w, "idle")
  /\ UNCHANGED <<history, faults>>

\* retry at the limit rejects the delivery into the dead-letter queue.
DeadLetter(w) ==
  /\ pc[w] = "failed"
  /\ ~MayRetry(w)
  /\ OwnsDelivery(w)
  /\ Settle(delivery[w], "dead")
  /\ Drop(w, "idle")
  /\ UNCHANGED <<history, faults>>

\* Settling a delivery the broker has already requeued: the call raises, and
\* the exception leaves run_forever, or it has no effect.
SettleStale(w) ==
  /\ \/ pc[w] \in {"ok", "retried"}
     \/ pc[w] = "failed" /\ ~MayRetry(w)
  /\ ~OwnsDelivery(w)
  /\ \E point \in {"idle", "down"} : Drop(w, point)
  /\ UNCHANGED <<broker, history, faults>>

\* The process ends anywhere: killed, stopped, or by an exception of ack or
\* retry that leaves run_forever (a retry publish that raised and stored
\* nothing).  aclose or the broken connection makes the broker requeue.
Crash(w) ==
  /\ pc[w] # "down"
  /\ Fault
  /\ Requeue(w)
  /\ Drop(w, "down")
  /\ UNCHANGED history

\* The connection is lost and re-established (connect_robust) under a worker
\* that has a message in hand.
ConnectionLost(w) ==
  /\ OwnsDelivery(w)
  /\ Fault
  /\ Requeue(w)
  /\ UNCHANGED <<worker, history>>

Restart(w) ==
  /\ pc[w] = "down"
  /\ pc' = [pc EXCEPT ![w] = "idle"]
  /\ UNCHANGED <<broker, delivery, msg, attempt, history, faults>>

-----------------------------------------------------------------------------
WorkerStep(w) ==
  \/ Pop(w)
  \/ PopMalformed(w)
  \/ HandlerReturns(w)
  \/ HandlerRaises(w)
  \/ Ack(w)
  \/ Retry(w)
  \/ DeadLetter(w)
  \/ SettleStale(w)
  \/ Restart(w)

Next ==
  \/ \E m \in Msgs : Publish(m) \/ PublishInDoubt(m)
  \/ \E w \in Workers : WorkerStep(w) \/ Crash(w) \/ ConnectionLost(w)

Spec == Init /\ [][Next]_vars

\* Every worker keeps polling and is restarted by its supervisor (compose
\* runs the services with restart: unless-stopped); faults are not fair.
FairSpec == Spec /\ \A w \in Workers : WF_vars(WorkerStep(w))

-----------------------------------------------------------------------------
(* Properties                                                              *)

Handled(m) == completions[m] > 0

\* A copy that will be processed again or is kept for an operator: waiting,
\* dead-lettered, or with a worker that has not yet replaced it by a retry.
Live(c) ==
  \/ st[c] \in {"ready", "dead"}
  \/ st[c] = "unacked" /\ pc[holder[c]] # "retried"

\* No accepted message is lost: until some handler run has returned for it, a
\* live copy of it is stored, whatever crashes, disconnections and failed
\* publishes happen between a retry's publish and its ack (queue.py retry).
NoMessageLost ==
  \A m \in accepted : Handled(m) \/ \E c \in Copies : of[c] = m /\ Live(c)

\* A well-formed message is dead-lettered only when its handler has raised on
\* max_retries + 1 runs, and never by a redelivery or a lost connection.
DeadLetterOnlyExhausted ==
  \A c \in Copies :
    st[c] = "dead" /\ of[c] \notin Malformed => failures[of[c]] = MaxRetries + 1

Busy == {"handling", "ok", "failed", "retried"}

\* What the three invariants above rest on: an unacknowledged copy is the one
\* its holder has in hand; a worker that is about to acknowledge has a handled
\* message; retry_count never exceeds the handler runs that raised.
Bookkeeping ==
  /\ \A c \in Copies :
       /\ st[c] = "unacked" <=> holder[c] # None
       /\ st[c] # "free" => of[c] \in Msgs /\ rc[c] <= failures[of[c]]
       /\ holder[c] # None =>
            /\ pc[holder[c]] \in Busy
            /\ delivery[holder[c]] = c
            /\ msg[holder[c]] = of[c]
            /\ of[c] \notin Malformed
  /\ \A w \in Workers :
       /\ pc[w] \in Busy => msg[w] \in Msgs /\ attempt[w] <= failures[msg[w]]
       /\ pc[w] = "ok" => Handled(msg[w])
       /\ pc[w] = "failed" => attempt[w] < failures[msg[w]]

\* Every accepted message is eventually handled or parked in the dead-letter
\* queue (run_forever keeps popping; retries are bounded).
EventuallySettled ==
  \A m \in Msgs :
    m \in accepted ~> (Handled(m) \/ \E c \in Copies : of[c] = m /\ st[c] = "dead")

\* The bus implements the abstract promise: no message leaves the queue
\* without a completed handler run or a dead-letter copy.
Promise == INSTANCE AtLeastOnce WITH
  pending <- {m \in Msgs : \E c \in Copies : of[c] = m /\ st[c] \in {"ready", "unacked"}},
  completed <- {m \in Msgs : Handled(m)},
  parked <- {m \in Msgs : \E c \in Copies : of[c] = m /\ st[c] = "dead"}

ImplementsPromise == Promise!ASpec
=============================================================================
