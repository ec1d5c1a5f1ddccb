------------------------------ MODULE AiStage ------------------------------
(***************************************************************************)
(* The AI extraction stage (services/ai_worker.py, AiExtractionWorker, run *)
(* by services/worker_ai/main.py) on the event bus.  The handler between   *)
(* Pop and HandlerReturns/HandlerRaises of EventBus is opened up: the      *)
(* record lookup, the extraction with its failure classes, the publish to  *)
(* the post-AI queue and the mark post_ai_published are separate steps, and*)
(* the processing records live in the memory of one process (what the      *)
(* deployment constructs) or, as the repository protocol allows, in a      *)
(* store that the processes share and that outlives them.                  *)
(***************************************************************************)
EXTENDS EventBus

CONSTANT MaxOutages  \* bound on failed publishes to the post-AI queue

ASSUME AiAssumption == MaxOutages \in Nat

VARIABLES
  shared,    \* the records are kept in one store outside the processes
  step,      \* worker: the point process_raw_queue_message has reached
  result,    \* worker: how the run ended (the record it returns)
  local,     \* worker: the record the run works on
  record,    \* the AiProcessingRepository of each process, or the shared one
  postAi,    \* messages stored in the post-AI dedup queue
  ended,     \* history: the results of the runs that returned, per message
  outages    \* failed publishes so far

ai == <<shared, step, result, local, record, postAi, ended, outages>>
aiVars == <<vars, ai>>

Publishable == {"succeeded", "manual_review"}
Statuses == Publishable \cup {"none", "failed"}
Records == [status : Statuses, published : BOOLEAN]
NoRecord == [status |-> "none", published |-> FALSE]
Failed == [status |-> "failed", published |-> FALSE]

\* What error_type and failure_reason of the returned record tell apart.
\* "published" stands for a publishable record; "publish" is QueuePublishError.
Retryable == {"all_models_failed", "storage_retryable"}
Terminal == {"rejected", "storage_permanent", "invalid"}
Results == {"published", "publish"} \cup Retryable \cup Terminal

Repositories == Workers \cup {None}
Repository(w) == IF shared THEN None ELSE w
Empty == [m \in Msgs |-> NoRecord]

Steps == {"off", "lookup", "extract", "publish", "republish", "mark", "return", "raise"}

\* Type invariant: the bus's, and the shape of the stage's own state.
AiTypeOK ==
  /\ TypeOK
  /\ shared \in BOOLEAN
  /\ step \in [Workers -> Steps]
  /\ result \in [Workers -> Results]
  /\ local \in [Workers -> Records]
  /\ record \in [Repositories -> [Msgs -> Records]]
  /\ postAi \subseteq Msgs
  /\ ended \in [Msgs -> SUBSET Results]
  /\ outages \in 0..MaxOutages

AiInit ==
  /\ Init
  /\ shared \in BOOLEAN
  /\ step = [w \in Workers |-> "off"]
  /\ result = [w \in Workers |-> "published"]
  /\ local = [w \in Workers |-> NoRecord]
  /\ record = [r \in Repositories |-> Empty]
  /\ postAi = {}
  /\ ended = [m \in Msgs |-> {}]
  /\ outages = 0

-----------------------------------------------------------------------------
(* process_raw_queue_message                                               *)

Goto(w, s) == step' = [step EXCEPT ![w] = s]
Existing(w) == record[Repository(w)][msg[w]]

Save(w, r) ==
  /\ local' = [local EXCEPT ![w] = r]
  /\ record' = [record EXCEPT ![Repository(w)][msg[w]] = r]

Outage ==
  /\ outages < MaxOutages
  /\ outages' = outages + 1

Start(w) ==
  /\ Pop(w)
  /\ Goto(w, "lookup")
  /\ UNCHANGED <<shared, result, local, record, postAi, ended, outages>>

Reusable(r) == r.status \in Publishable

\* A publishable record of an earlier delivery is not extracted again: it is
\* returned when it was published and republished otherwise.
Lookup(w) ==
  /\ step[w] = "lookup"
  /\ Goto(w, IF ~Reusable(Existing(w)) THEN "extract"
             ELSE IF Existing(w).published THEN "return" ELSE "republish")
  /\ result' = [result EXCEPT ![w] = "published"]
  /\ local' = [local EXCEPT ![w] = Existing(w)]
  /\ UNCHANGED <<shared, vars, record, postAi, ended, outages>>

\* Mutant of Extract: the record is saved as published before the publish.
ExtractMarks(w) ==
  /\ step[w] = "extract"
  /\ \E s \in Publishable : Save(w, [status |-> s, published |-> TRUE])
  /\ Goto(w, "publish")
  /\ UNCHANGED <<shared, vars, result, postAi, ended, outages>>

\* Media, model call, validation and normalisation end in a publishable
\* listing, saved before it is published ...
Extract(w) ==
  /\ step[w] = "extract"
  /\ \E s \in Publishable : Save(w, [status |-> s, published |-> FALSE])
  /\ Goto(w, "publish")
  /\ UNCHANGED <<shared, vars, result, postAi, ended, outages>>

\* ... or in a failed record, which is returned like any other, ...
ExtractFails(w) ==
  /\ step[w] = "extract"
  /\ \E r \in Retryable \cup Terminal : result' = [result EXCEPT ![w] = r]
  /\ Save(w, Failed)
  /\ Goto(w, "return")
  /\ UNCHANGED <<shared, vars, postAi, ended, outages>>

\* ... or in an exception no except clause names.
ExtractRaises(w) ==
  /\ step[w] = "extract"
  /\ Goto(w, "raise")
  /\ UNCHANGED <<shared, vars, result, local, record, postAi, ended, outages>>

PublishPostAi(w) ==
  /\ step[w] \in {"publish", "republish"}
  /\ postAi' = postAi \cup {msg[w]}
  /\ Goto(w, "mark")
  /\ UNCHANGED <<shared, vars, result, local, record, ended, outages>>

\* QueuePublishError is a RuntimeError: raised inside the try block it is
\* caught with the model errors, the record becomes failed and is returned.
\* The broker may have stored the message all the same.
PublishRaises(w) ==
  /\ step[w] = "publish"
  /\ Outage
  /\ postAi' \in {postAi, postAi \cup {msg[w]}}
  /\ Save(w, Failed)
  /\ result' = [result EXCEPT ![w] = "publish"]
  /\ Goto(w, "return")
  /\ UNCHANGED <<shared, vars, ended>>

\* The publish of a reused record is outside the try block: its exception
\* leaves the handler.
RepublishRaises(w) ==
  /\ step[w] = "republish"
  /\ Outage
  /\ postAi' \in {postAi, postAi \cup {msg[w]}}
  /\ Goto(w, "raise")
  /\ UNCHANGED <<shared, vars, result, local, record, ended>>

Mark(w) ==
  /\ step[w] = "mark"
  /\ Save(w, [local[w] EXCEPT !.published = TRUE])
  /\ Goto(w, "return")
  /\ UNCHANGED <<shared, vars, result, postAi, ended, outages>>

\* Mutant of RetriesOn: the isolated worker's handler without its re-raise.
RetriesOnNothing(r) == FALSE
\* _handler of services/worker_ai raises for the failures worth a retry.
RetriesOn(r) == r \in Retryable

Return(w) ==
  /\ step[w] = "return"
  /\ ~RetriesOn(result[w])
  /\ HandlerReturns(w)
  /\ ended' = [ended EXCEPT ![msg[w]] = @ \cup {result[w]}]
  /\ Goto(w, "off")
  /\ UNCHANGED <<shared, result, local, record, postAi, outages>>

Raise(w) ==
  /\ \/ step[w] = "raise"
     \/ step[w] = "return" /\ RetriesOn(result[w])
  /\ HandlerRaises(w)
  /\ Goto(w, "off")
  /\ UNCHANGED <<shared, result, local, record, postAi, ended, outages>>

-----------------------------------------------------------------------------
(* The bus around the handler (bodies that do not decode never reach it)   *)

Produce(m) == (Publish(m) \/ PublishInDoubt(m)) /\ UNCHANGED ai

\* What the process holds in memory is gone when it ends.
Forget(w) == record' = [record EXCEPT ![w] = Empty]

RunLoop(w) ==
  /\ Ack(w) \/ Retry(w) \/ DeadLetter(w) \/ SettleStale(w) \/ Restart(w) \/ ConnectionLost(w)
  /\ IF pc'[w] = "down" THEN Forget(w) ELSE UNCHANGED record
  /\ UNCHANGED <<shared, step, result, local, postAi, ended, outages>>

Die(w) ==
  /\ Crash(w)
  /\ Goto(w, "off")
  /\ result' = [result EXCEPT ![w] = "published"]
  /\ local' = [local EXCEPT ![w] = NoRecord]
  /\ Forget(w)
  /\ UNCHANGED <<shared, postAi, ended, outages>>

AiNext ==
  \/ \E m \in Msgs : Produce(m)
  \/ \E w \in Workers :
       \/ Start(w) \/ Lookup(w) \/ Extract(w) \/ ExtractFails(w) \/ ExtractRaises(w)
       \/ PublishPostAi(w) \/ PublishRaises(w) \/ RepublishRaises(w) \/ Mark(w)
       \/ Return(w) \/ Raise(w)
       \/ RunLoop(w) \/ Die(w)

AiSpec == AiInit /\ [][AiNext]_aiVars

-----------------------------------------------------------------------------
(* Properties                                                              *)

\* A message leaves the AI stage only with a listing in the post-AI queue, a
\* terminal verdict, or the one swallowed publish error: outages of the models
\* and of the object storage are never acknowledged away (worker_ai _handler).
LeavesWithReason ==
  \A m \in Msgs : Handled(m) => m \in postAi \/ ended[m] \cap (Terminal \cup {"publish"}) # {}

\* post_ai_published is never ahead of the queue: a record that says so has its
\* message in the post-AI queue, across crashes, redeliveries and republishing.
PublishedMeansQueued ==
  \A r \in Repositories, m \in Msgs : record[r][m].published => m \in postAi

\* What PublishedMeansQueued rests on: a handler step is taken only while its
\* message is in hand, and the mark only after the publish.
MarkAfterPublish ==
  \A w \in Workers :
    /\ step[w] # "off" => pc[w] = "handling"
    /\ step[w] = "mark" => msg[w] \in postAi

\* Documented: a listing whose publish failed is retried (the record is
\* reused), so a handled message is queued or was given a terminal verdict.
PublishFailureRetried ==
  \A m \in Msgs : Handled(m) => m \in postAi \/ ended[m] \cap Terminal # {}
=============================================================================
