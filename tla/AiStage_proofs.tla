--------------------------- MODULE AiStage_proofs ---------------------------
(***************************************************************************)
(* Proofs about AiStage: the stage is an event bus, so no message sent to  *)
(* it is lost by the transport, and post_ai_published is never ahead of    *)
(* the post-AI queue.                                                      *)
(***************************************************************************)
EXTENDS AiStage, EventBus_proofs

\* Every step of the stage is a step of the event bus or leaves it alone.
LEMMA AiStepIsBusStep == ASSUME [AiNext]_aiVars PROVE [Next]_vars
<1>1. ASSUME NEW m \in Msgs, Produce(m) PROVE Next
  BY <1>1 DEF Produce, Next
<1>2. ASSUME NEW w \in Workers, Start(w) \/ Return(w) \/ Raise(w) PROVE Next
  BY <1>2 DEF Start, Return, Raise, Next, WorkerStep
<1>3. ASSUME NEW w \in Workers, RunLoop(w) \/ Die(w) PROVE Next
  BY <1>3 DEF RunLoop, Die, Next, WorkerStep
<1>4. ASSUME NEW w \in Workers,
             \/ Lookup(w) \/ Extract(w) \/ ExtractFails(w) \/ ExtractRaises(w)
             \/ PublishPostAi(w) \/ PublishRaises(w) \/ RepublishRaises(w) \/ Mark(w)
      PROVE  UNCHANGED vars
  BY <1>4 DEF Lookup, Extract, ExtractFails, ExtractRaises, PublishPostAi,
    PublishRaises, RepublishRaises, Mark
<1>5. CASE UNCHANGED aiVars
  BY <1>5 DEF aiVars
<1> QED
  BY <1>1, <1>2, <1>3, <1>4, <1>5 DEF AiNext

\* The AI stage implements the event bus: opening the handler up adds no
\* transport behaviour.
THEOREM AiStageIsEventBus == AiSpec => Spec
<1>1. AiInit => Init
  BY DEF AiInit
<1>2. [AiNext]_aiVars => [Next]_vars
  BY AiStepIsBusStep
<1> QED
  BY <1>1, <1>2, PTL DEF AiSpec, Spec

\* So a message the AI queue accepted is stored until a handler run returned.
THEOREM AiMessagesSurvive == AiSpec => []NoMessageLost
  BY AiStageIsEventBus, MessagesSurvive, PTL

-----------------------------------------------------------------------------
AiInv == PublishedMeansQueued /\ MarkAfterPublish

\* A step of the handler keeps the shape of the records; that a handler step
\* has a message in hand comes from the bookkeeping of the bus.
LEMMA AiTypeStep ==
  ASSUME AiTypeOK, TypeOK', Bookkeeping, MarkAfterPublish, [AiNext]_aiVars
  PROVE  AiTypeOK'
<1>m. \A w \in Workers : step[w] # "off" => msg[w] \in Msgs
  BY DEF MarkAfterPublish, Bookkeeping, Busy
<1> USE BusAssumption, AiAssumption
    DEF AiTypeOK, Steps, Results, Retryable, Terminal, Records, Statuses, Publishable,
        NoRecord, Failed, Empty, Repositories, Repository, Goto
<1>1. ASSUME NEW m \in Msgs, Produce(m) PROVE AiTypeOK'
  BY <1>1 DEF Produce, ai
<1>2. ASSUME NEW w \in Workers, Start(w) \/ ExtractRaises(w) PROVE AiTypeOK'
  BY <1>2 DEF Start, ExtractRaises
<1>3. ASSUME NEW w \in Workers, Lookup(w) PROVE AiTypeOK'
  <2>1. Existing(w) \in Records
    BY <1>m, <1>3 DEF Existing, Lookup
  <2>2. local' \in [Workers -> Records]
    BY <1>3, <2>1 DEF Lookup
  <2> QED
    BY <1>3, <2>2 DEF Lookup
<1>4. ASSUME NEW w \in Workers, NEW r \in Records, Save(w, r)
      PROVE  /\ local' \in [Workers -> Records]
             /\ record' \in [Repositories -> [Msgs -> Records]]
  BY <1>4 DEF Save
<1>5. ASSUME NEW w \in Workers, Extract(w) PROVE AiTypeOK'
  <2>1. PICK s \in Publishable : Save(w, [status |-> s, published |-> FALSE])
    BY <1>5 DEF Extract
  <2> QED
    BY <1>4, <1>5, <2>1 DEF Extract
<1>6. ASSUME NEW w \in Workers, ExtractFails(w) PROVE AiTypeOK'
  BY <1>4, <1>6 DEF ExtractFails
<1>7. ASSUME NEW w \in Workers, PublishPostAi(w) PROVE AiTypeOK'
  BY <1>m, <1>7 DEF PublishPostAi
<1>8. ASSUME NEW w \in Workers, PublishRaises(w) PROVE AiTypeOK'
  <2>1. Failed \in Records
    OBVIOUS
  <2>2. /\ local' \in [Workers -> Records]
        /\ record' \in [Repositories -> [Msgs -> Records]]
    BY <1>4, <1>8, <2>1 DEF PublishRaises
  <2>3. outages' \in 0..MaxOutages
    BY <1>8 DEF PublishRaises, Outage
  <2>4. postAi' \subseteq Msgs
    BY <1>m, <1>8 DEF PublishRaises
  <2> QED
    BY <1>8, <2>2, <2>3, <2>4 DEF PublishRaises
<1>9. ASSUME NEW w \in Workers, RepublishRaises(w) PROVE AiTypeOK'
  <2>1. outages' \in 0..MaxOutages
    BY <1>9 DEF RepublishRaises, Outage
  <2>2. postAi' \subseteq Msgs
    BY <1>m, <1>9 DEF RepublishRaises
  <2> QED
    BY <1>9, <2>1, <2>2 DEF RepublishRaises
<1>10. ASSUME NEW w \in Workers, Mark(w) PROVE AiTypeOK'
  <2>1. \A r \in Records : [r EXCEPT !.published = TRUE] \in Records
    OBVIOUS
  <2> QED
    BY <1>4, <1>10, <2>1 DEF Mark
<1>11. ASSUME NEW w \in Workers, Return(w) \/ Raise(w) PROVE AiTypeOK'
  <2>1. ended' \in [Msgs -> SUBSET Results]
    <3>1. CASE Return(w)
      <4>1. result[w] \in Results
        OBVIOUS
      <4> HIDE DEF Results
      <4> QED
        BY <3>1, <4>1 DEF Return
    <3>2. CASE Raise(w)
      BY <3>2 DEF Raise
    <3> QED
      BY <1>11, <3>1, <3>2
  <2> QED
    BY <1>11, <2>1 DEF Return, Raise
<1>12. ASSUME NEW w \in Workers, RunLoop(w) \/ Die(w) PROVE AiTypeOK'
  <2>0. Empty \in [Msgs -> Records] /\ NoRecord \in Records
    OBVIOUS
  <2>1. record' \in [Repositories -> [Msgs -> Records]]
    <3> HIDE DEF Empty, Records
    <3> QED
      BY <1>12, <2>0 DEF RunLoop, Die, Forget
  <2>2. local' \in [Workers -> Records]
    <3> HIDE DEF NoRecord, Records
    <3> QED
      BY <1>12, <2>0 DEF RunLoop, Die
  <2>3. CASE RunLoop(w)
    BY <2>1, <2>2, <2>3 DEF RunLoop
  <2>4. CASE Die(w)
    BY <2>1, <2>2, <2>4 DEF Die
  <2> QED
    BY <1>12, <2>3, <2>4
<1>13. CASE UNCHANGED aiVars
  BY <1>13 DEF aiVars, ai
<1> QED
  BY <1>1, <1>2, <1>3, <1>5, <1>6, <1>7, <1>8, <1>9, <1>10, <1>11, <1>12, <1>13
     DEF AiNext

\* No step breaks the relation of records, queue and handlers.
LEMMA AiInvStep ==
  ASSUME AiTypeOK, AiInv, [AiNext]_aiVars
  PROVE  AiInv'
<1> USE BusAssumption, AiAssumption
    DEF TypeOK, AiTypeOK, AiInv, PublishedMeansQueued, MarkAfterPublish, Steps, ai, history,
        Repositories, Repository
<1>1. ASSUME NEW m \in Msgs, Produce(m) PROVE AiInv'
  BY <1>1 DEF Produce, Publish, PublishInDoubt, worker
<1>2. ASSUME NEW w \in Workers, Start(w) PROVE AiInv'
  BY <1>2 DEF Start, Pop, Goto
<1>3. ASSUME NEW w \in Workers, Lookup(w) PROVE AiInv'
  BY <1>3 DEF Lookup, Goto, vars, worker
<1>4. ASSUME NEW w \in Workers, Extract(w) PROVE AiInv'
  BY <1>4 DEF Extract, Goto, Save, vars, worker
<1>5. ASSUME NEW w \in Workers, ExtractFails(w) PROVE AiInv'
  BY <1>5 DEF ExtractFails, Goto, Save, Failed, vars, worker
<1>6. ASSUME NEW w \in Workers, ExtractRaises(w) PROVE AiInv'
  BY <1>6 DEF ExtractRaises, Goto, vars, worker
<1>7. ASSUME NEW w \in Workers, PublishPostAi(w) PROVE AiInv'
  BY <1>7 DEF PublishPostAi, Goto, vars, worker
<1>8. ASSUME NEW w \in Workers, PublishRaises(w) PROVE AiInv'
  BY <1>8 DEF PublishRaises, Goto, Save, Failed, vars, worker
<1>9. ASSUME NEW w \in Workers, RepublishRaises(w) PROVE AiInv'
  BY <1>9 DEF RepublishRaises, Goto, vars, worker
<1>10. ASSUME NEW w \in Workers, Mark(w) PROVE AiInv'
  <2>1. msg[w] \in postAi /\ postAi' = postAi
    BY <1>10 DEF Mark
  <2>2. \A r \in Repositories, m \in Msgs :
          record'[r][m] = record[r][m] \/ m = msg[w]
    BY <1>10 DEF Mark, Save
  <2>3. PublishedMeansQueued'
    BY <2>1, <2>2
  <2>4. MarkAfterPublish'
    BY <1>10 DEF Mark, Goto, vars, worker
  <2> QED
    BY <2>3, <2>4
<1>11. ASSUME NEW w \in Workers, Return(w) \/ Raise(w) PROVE AiInv'
  <2>1. step'[w] = "off" /\ \A v \in Workers : v # w => step'[v] = step[v]
    BY <1>11 DEF Return, Raise, Goto
  <2>2. /\ msg' = msg /\ postAi' = postAi /\ record' = record
        /\ \A v \in Workers : v # w => pc'[v] = pc[v]
    BY <1>11 DEF Return, Raise, HandlerReturns, HandlerRaises
  <2> QED
    BY <2>1, <2>2
<1>12. ASSUME NEW w \in Workers, RunLoop(w) PROVE AiInv'
  <2>1. step' = step /\ postAi' = postAi
    BY <1>12 DEF RunLoop
  <2>2. MarkAfterPublish'
    <3>1. CASE Ack(w) \/ DeadLetter(w) \/ SettleStale(w)
      <4>1. pc[w] # "handling"
        BY <3>1 DEF Ack, DeadLetter, SettleStale
      <4>2. \A v \in Workers : v # w => pc'[v] = pc[v] /\ msg'[v] = msg[v]
        BY <3>1 DEF Ack, DeadLetter, SettleStale, Drop
      <4> QED
        BY <2>1, <4>1, <4>2
    <3>2. CASE Retry(w) \/ Restart(w)
      BY <2>1, <3>2 DEF Retry, Restart
    <3>3. CASE ConnectionLost(w)
      BY <2>1, <3>3 DEF ConnectionLost, worker
    <3> QED
      BY <1>12, <3>1, <3>2, <3>3 DEF RunLoop
  <2>3. PublishedMeansQueued'
    <3>1. CASE Forget(w)
      BY <2>1, <3>1 DEF Forget, Empty, NoRecord
    <3>2. CASE record' = record
      BY <2>1, <3>2
    <3> QED
      BY <1>12, <3>1, <3>2 DEF RunLoop
  <2> QED
    BY <2>2, <2>3
<1>13. ASSUME NEW w \in Workers, Die(w) PROVE AiInv'
  BY <1>13 DEF Die, Crash, Drop, Goto, Forget, Empty, NoRecord
<1>14. CASE UNCHANGED aiVars
  BY <1>14 DEF aiVars, vars, worker
<1> QED
  BY <1>1, <1>2, <1>3, <1>4, <1>5, <1>6, <1>7, <1>8, <1>9, <1>10, <1>11,
     <1>12, <1>13, <1>14 DEF AiNext
\* The AI stage keeps its types and that relation.
LEMMA AiInvariant == AiSpec => [](AiTypeOK /\ AiInv)
<1>1. AiInit => AiTypeOK /\ AiInv
  <2> SUFFICES ASSUME AiInit PROVE AiTypeOK /\ AiInv
    OBVIOUS
  <2>1. TypeOK
    BY BusAssumption DEF AiInit, Init, TypeOK, Places, Points
  <2>2. AiTypeOK
    BY <2>1, AiAssumption DEF AiInit, AiTypeOK, Steps, Results, Records, Statuses,
      NoRecord, Empty
  <2>3. AiInv
    BY DEF AiInit, AiInv, PublishedMeansQueued, MarkAfterPublish, Empty, NoRecord
  <2> QED
    BY <2>2, <2>3
<1>2. AiTypeOK /\ AiInv /\ BusInv /\ BusInv' /\ [AiNext]_aiVars => AiTypeOK' /\ AiInv'
  BY AiTypeStep, AiInvStep DEF BusInv, AiInv
<1> QED
  BY <1>1, <1>2, AiStageIsEventBus, BusInvariant, PTL DEF AiSpec

\* Type correctness of the stage: processing records and the handler's program
\* counters keep their shape.
THEOREM AiTypeCorrect == AiSpec => []AiTypeOK
  BY AiInvariant, PTL

\* A record marked post_ai_published has its message in the post-AI queue, for
\* private and for shared record stores and any number of workers and faults.
THEOREM PublishedRecordsQueued == AiSpec => []PublishedMeansQueued
  BY AiInvariant, PTL DEF AiInv

-----------------------------------------------------------------------------
\* What LeavesWithReason rests on: a run that reaches a publish has not
\* failed, and one that returns a publishable record has its message queued.
ReturnKnown ==
  \A w \in Workers :
    /\ step[w] \in {"extract", "publish", "republish", "mark"} => result[w] = "published"
    /\ step[w] = "return" /\ result[w] = "published" => msg[w] \in postAi

\* No step makes a handler return without its reason on record.
LEMMA ReturnKnownStep ==
  ASSUME AiTypeOK, AiTypeOK', Bookkeeping, AiInv, ReturnKnown, [AiNext]_aiVars
  PROVE  ReturnKnown'
<1>m. \A w \in Workers : step[w] # "off" => msg[w] \in Msgs
  BY DEF AiInv, MarkAfterPublish, Bookkeeping, Busy
<1>o. ASSUME NEW w \in Workers, UNCHANGED <<postAi, result, step>>,
             pc[w] # "handling" \/ msg'[w] = msg[w],
             \A v \in Workers : v # w => msg'[v] = msg[v]
      PROVE  ReturnKnown'
  BY <1>o DEF ReturnKnown, AiInv, MarkAfterPublish
<1> USE DEF ReturnKnown, AiTypeOK, Steps, Goto
<1>1. ASSUME NEW m \in Msgs, Produce(m) PROVE ReturnKnown'
  BY <1>1 DEF Produce, Publish, PublishInDoubt, ai, worker
<1>2. ASSUME NEW w \in Workers, Start(w) PROVE ReturnKnown'
  BY <1>2 DEF Start, Pop, TypeOK
<1>3. ASSUME NEW w \in Workers, Lookup(w) PROVE ReturnKnown'
  <2>1. step'[w] = "return" => msg[w] \in postAi
    <3>1. step'[w] = "return" => Existing(w).published
      BY <1>3 DEF Lookup
    <3>2. Existing(w).published => msg[w] \in postAi
      BY <1>m, <1>3, BusAssumption DEF Lookup, Existing, Repository, Repositories,
        AiInv, PublishedMeansQueued
    <3> QED
      BY <3>1, <3>2
  <2> QED
    BY <1>3, <2>1 DEF Lookup, vars, worker
<1>4. ASSUME NEW w \in Workers, Extract(w) \/ ExtractRaises(w) PROVE ReturnKnown'
  BY <1>4 DEF Extract, ExtractRaises, vars, worker
<1>5. ASSUME NEW w \in Workers, ExtractFails(w) PROVE ReturnKnown'
  BY <1>5 DEF ExtractFails, vars, worker, Retryable, Terminal
<1>6. ASSUME NEW w \in Workers, PublishPostAi(w) PROVE ReturnKnown'
  BY <1>6 DEF PublishPostAi, vars, worker
<1>7. ASSUME NEW w \in Workers, PublishRaises(w) \/ RepublishRaises(w)
      PROVE  ReturnKnown'
  BY <1>7 DEF PublishRaises, RepublishRaises, vars, worker
<1>8. ASSUME NEW w \in Workers, Mark(w) PROVE ReturnKnown'
  BY <1>8 DEF Mark, AiInv, MarkAfterPublish, vars, worker
<1>9. ASSUME NEW w \in Workers, Return(w) \/ Raise(w) PROVE ReturnKnown'
  BY <1>9 DEF Return, Raise, HandlerReturns, HandlerRaises
<1>10. ASSUME NEW w \in Workers, RunLoop(w) PROVE ReturnKnown'
  <2>1. CASE Ack(w) \/ DeadLetter(w) \/ SettleStale(w)
    BY <1>10, <1>o, <2>1 DEF RunLoop, Ack, DeadLetter, SettleStale, Drop, TypeOK
  <2>2. CASE Retry(w) \/ Restart(w) \/ ConnectionLost(w)
    BY <1>10, <1>o, <2>2 DEF RunLoop, Retry, Restart, ConnectionLost, worker
  <2> QED
    BY <1>10, <2>1, <2>2 DEF RunLoop
<1>11. ASSUME NEW w \in Workers, Die(w) PROVE ReturnKnown'
  BY <1>11 DEF Die, Crash, Drop, TypeOK
<1>12. CASE UNCHANGED aiVars
  BY <1>12 DEF aiVars, vars, ai, worker
<1> QED
  BY <1>1, <1>2, <1>3, <1>4, <1>5, <1>6, <1>7, <1>8, <1>9, <1>10, <1>11, <1>12
  DEF AiNext

\* Only Return completes a handler run, and it leaves its reason in ended or
\* found the message already queued.
LEMMA LeavesWithReasonStep ==
  ASSUME AiTypeOK, AiTypeOK', Bookkeeping, AiInv, ReturnKnown, LeavesWithReason,
         [AiNext]_aiVars
  PROVE  LeavesWithReason'
<1> SUFFICES ASSUME NEW m \in Msgs, Handled(m)'
             PROVE  (m \in postAi \/ ended[m] \cap (Terminal \cup {"publish"}) # {})'
  BY DEF LeavesWithReason
<1>1. CASE \E w \in Workers : Return(w)
  <2>1. PICK w \in Workers : Return(w)
    BY <1>1
  <2>2. msg[w] \in Msgs /\ postAi' = postAi
    BY <2>1 DEF Return, AiInv, MarkAfterPublish, Bookkeeping, Busy
  <2>3. CASE m = msg[w]
    <3>1. ended'[m] = ended[m] \cup {result[w]}
      BY <2>1, <2>2, <2>3 DEF Return, AiTypeOK
    <3>2. result[w] \in {"published", "publish"} \cup Terminal
      BY <2>1 DEF Return, RetriesOn, AiTypeOK, Results
    <3>3. result[w] = "published" => m \in postAi
      BY <2>1, <2>3 DEF Return, ReturnKnown
    <3> QED
      BY <2>2, <3>1, <3>2, <3>3
  <2>4. CASE m # msg[w]
    <3>1. ended'[m] = ended[m] /\ completions'[m] = completions[m]
      BY <2>1, <2>4 DEF Return, HandlerReturns, AiTypeOK, TypeOK
    <3> QED
      BY <2>2, <3>1 DEF LeavesWithReason, Handled
  <2> QED
    BY <2>3, <2>4
<1>2. CASE ~\E w \in Workers : Return(w)
  <2>1. ended' = ended /\ completions' = completions
    BY <1>2 DEF AiNext, aiVars, vars, ai, history, Produce, Publish, PublishInDoubt,
      Start, Pop, Lookup, Extract, ExtractFails, ExtractRaises, PublishPostAi,
      PublishRaises, RepublishRaises, Mark, Raise, HandlerRaises, RunLoop, Ack,
      Retry, DeadLetter, SettleStale, Restart, ConnectionLost, Die, Crash
  <2>2. postAi \subseteq postAi'
    BY <1>2 DEF AiNext, aiVars, ai, Produce, Start, Lookup, Extract, ExtractFails,
      ExtractRaises, PublishPostAi, PublishRaises, RepublishRaises, Mark, Raise,
      RunLoop, Die
  <2> QED
    BY <2>1, <2>2 DEF LeavesWithReason, Handled
<1> QED
  BY <1>1, <1>2

\* For any number of workers, outages and crashes and either record store, a
\* message the AI stage acknowledged is in the post-AI queue, was given a
\* terminal verdict, or is the swallowed publish error of ai_worker.py: what
\* the models or the object storage refuse is never acknowledged away.
THEOREM HandledMessagesHaveReason == AiSpec => []LeavesWithReason
<1> DEFINE I == ReturnKnown /\ LeavesWithReason
<1>1. AiInit => I
  BY DEF AiInit, Init, ReturnKnown, LeavesWithReason, Handled
<1>2. /\ AiTypeOK /\ AiInv /\ BusInv /\ I /\ AiTypeOK' /\ [AiNext]_aiVars
      => I'
  BY ReturnKnownStep, LeavesWithReasonStep DEF BusInv
<1> QED
  BY <1>1, <1>2, AiInvariant, AiStageIsEventBus, BusInvariant, PTL DEF AiSpec

\* The opened-up handler keeps the abstract promise of the bus.
THEOREM AiKeepsPromise == AiSpec => ImplementsPromise
  BY AiStageIsEventBus, BusImplementsPromise, PTL

=============================================================================
