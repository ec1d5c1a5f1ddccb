------------------------ MODULE Notifications_proofs ------------------------
(***************************************************************************)
(* Proofs about Notifications for every set of filters and processes, both *)
(* schemas, any retry limit and any number of faults and redeliveries.     *)
(***************************************************************************)
EXTENDS Notifications, TLAPS

\* Whom a handler works for: a process that is not idle has a job in hand
\* where its next step needs one, and stays within its own handler.
InHand ==
  /\ \A m \in Matchers :
       /\ at[m] \in {"idle", "select", "insert", "publish"}
       /\ at[m] \in {"insert", "publish"} => job[m] \in Filters
  /\ \A s \in Deliverers :
       /\ at[s] \in {"idle", "select", "claim", "send", "record", "ack"}
       /\ at[s] = "idle" => job[s] = None
       /\ at[s] # "idle" => job[s] \in Filters

\* A recorded outcome is a status other than sending.
LEMMA StatusOfOutcome ==
  ASSUME NEW o \in Outcomes
  PROVE  StatusOf(o) \in Statuses \ {"sending"}
  BY DEF Outcomes, StatusOf, Statuses

\* What a process holds stays well-formed.
LEMMA InHandStep ==
  ASSUME TypeOK, InHand, [Next]_vars
  PROVE  InHand'
<1> USE NotificationsAssumption
    DEF TypeOK, InHand, Goto, Processes, Deliverers, process
<1>1. ASSUME NEW m \in Matchers,
             Match(m) \/ Matched(m) \/ InsertRaises(m) \/ MatchRaises(m) \/ PublishRaises(m)
      PROVE  InHand'
  BY <1>1 DEF Match, Matched, InsertRaises, MatchRaises, PublishRaises, RetryAnnouncement
<1>2. ASSUME NEW m \in Matchers, NEW f \in Filters,
             Skip(m, f) \/ Existing(m, f) \/ Absent(m, f)
      PROVE  InHand'
  BY <1>2 DEF Skip, Existing, Absent
<1>3. ASSUME NEW m \in Matchers, Insert(m) \/ PublishJob(m) PROVE InHand'
  BY <1>3 DEF Insert, PublishJob
<1>4. ASSUME NEW s \in Deliverers, NEW f \in Filters, Take(s, f) \/ Pick(s, f)
      PROVE  InHand'
  BY <1>4 DEF Take, Pick
<1>5. ASSUME NEW s \in Deliverers,
             Poll(s) \/ SkipJob(s) \/ Select(s) \/ Claim(s) \/ Record(s) \/ Ack(s)
      PROVE  InHand'
  BY <1>5 DEF Poll, SkipJob, Select, Claim, Record, Ack
<1>6. ASSUME NEW s \in Deliverers, HandlerRaises(s) PROVE InHand'
  BY <1>6 DEF HandlerRaises, RetryDelivery
<1>7. ASSUME NEW s \in Deliverers, (\E o \in Outcomes : Answer(s, o)) \/ AnswerLost(s)
      PROVE  InHand'
  BY <1>7 DEF Answer, AnswerLost
<1>8. ASSUME NEW p \in Processes, Crash(p) PROVE InHand'
  BY <1>8 DEF Crash
<1>9. ASSUME UNCHANGED <<at, job>> PROVE InHand'
  BY <1>9
<1> HIDE DEF TypeOK, InHand, Goto
<1> QED
  BY <1>1, <1>2, <1>3, <1>4, <1>5, <1>6, <1>7, <1>8, <1>9
  DEF Next, vars, MatcherStep, SenderStep, PollerStep, DeliveryStep, Failure,
    ClaimRaises, DeliveryRaises, Overlap, DeleteFilter, Due

\* Every handler step keeps the shape of the state; that a step which writes a
\* row or a queue has a filter in hand comes from InHand.
LEMMA TypeStep ==
  ASSUME TypeOK, InHand, [Next]_vars
  PROVE  TypeOK'
<1> USE NotificationsAssumption
    DEF TypeOK, InHand, Goto, Processes, Deliverers, Points, process, bus, history,
        database, counters
<1>1. ASSUME NEW m \in Matchers, Match(m) \/ Matched(m) PROVE TypeOK'
  BY <1>1 DEF Match, Matched
<1>2. ASSUME NEW m \in Matchers, NEW f \in Filters,
             Skip(m, f) \/ Existing(m, f) \/ Absent(m, f)
      PROVE  TypeOK'
  BY <1>2 DEF Skip, Existing, Absent, Looked
<1>3. ASSUME NEW m \in Matchers, Insert(m) PROVE TypeOK'
  <2>1. "pending" \in schema
    BY DEF Statuses
  <2>2. row' \in [Filters -> schema \cup {"none"}]
    BY <1>3, <2>1 DEF Insert
  <2> QED
    BY <1>3, <2>2 DEF Insert
<1>4. ASSUME NEW m \in Matchers, PublishJob(m) PROVE TypeOK'
  BY <1>4 DEF PublishJob
<1>5. ASSUME NEW m \in Matchers, InsertRaises(m) \/ MatchRaises(m) PROVE TypeOK'
  BY <1>5 DEF InsertRaises, MatchRaises, RetryAnnouncement, Fault
<1>6. ASSUME NEW m \in Matchers, PublishRaises(m) PROVE TypeOK'
  <2>1. queued' \in [Filters -> Nat] /\ published' \in [Filters -> Nat]
    BY <1>6 DEF PublishRaises
  <2> QED
    BY <1>6, <2>1 DEF PublishRaises, RetryAnnouncement, Fault
<1>7. ASSUME NEW s \in Senders, NEW f \in Filters, Take(s, f) PROVE TypeOK'
  BY <1>7 DEF Take
<1>8. ASSUME NEW w \in Pollers, Poll(w) \/ (\E f \in Filters : Pick(w, f)) PROVE TypeOK'
  BY <1>8 DEF Poll, Pick, Ready
<1>9. ASSUME NEW s \in Deliverers, SkipJob(s) \/ Select(s) \/ Ack(s) PROVE TypeOK'
  BY <1>9 DEF SkipJob, Select, Ack
<1>10. ASSUME NEW s \in Deliverers, Claim(s) PROVE TypeOK'
  BY <1>10 DEF Claim
<1>11. ASSUME NEW s \in Deliverers, at[s] # "idle", HandlerRaises(s)
       PROVE  /\ at' \in [Processes -> Points] /\ job' \in [Processes -> Filters \cup {None}]
              /\ todo' \in [Matchers \cup Pollers -> SUBSET Filters]
              /\ announced' \in Nat /\ retries' \in 0..MaxRetries
              /\ queued' \in [Filters -> Nat] /\ reruns' \in [Filters -> 0..MaxRetries]
              /\ dead' \subseteq Filters
  BY <1>11 DEF HandlerRaises, RetryDelivery
<1>12. ASSUME NEW s \in Deliverers, ClaimRaises(s) PROVE TypeOK'
  BY <1>11, <1>12 DEF ClaimRaises
<1>13. ASSUME NEW s \in Deliverers, DeliveryRaises(s) PROVE TypeOK'
  <2>1. at[s] # "idle" /\ HandlerRaises(s)
    BY <1>13 DEF DeliveryRaises
  <2> QED
    BY <1>11, <1>13, <2>1 DEF DeliveryRaises, Fault
<1>14. ASSUME NEW s \in Deliverers, NEW o \in Outcomes, Answer(s, o) PROVE TypeOK'
  BY <1>14 DEF Answer
<1>15. ASSUME NEW s \in Deliverers, AnswerLost(s) PROVE TypeOK'
  BY <1>15 DEF AnswerLost, Fault, Outcomes
<1>16. ASSUME NEW s \in Deliverers, Record(s) PROVE TypeOK'
  <2>1. StatusOf(outcome[s]) \in schema
    BY StatusOfOutcome
  <2>2. row' \in [Filters -> schema \cup {"none"}]
    BY <1>16, <2>1 DEF Record
  <2>3. due' \in [Filters -> BOOLEAN]
    <3>1. (outcome[s] # "retryable") \in BOOLEAN
      OBVIOUS
    <3> QED
      BY <1>16, <3>1 DEF Record
  <2> QED
    BY <1>16, <2>2, <2>3 DEF Record
<1>17. ASSUME NEW p \in Processes, at[p] # "idle" \/ p \in Pollers, Requeue(p)
       PROVE  announced' \in Nat /\ queued' \in [Filters -> Nat]
  BY <1>17 DEF Requeue
<1>18. ASSUME NEW p \in Processes, Crash(p) PROVE TypeOK'
  <2>1. announced' \in Nat /\ queued' \in [Filters -> Nat]
    BY <1>17, <1>18 DEF Crash
  <2>2. todo' \in [Matchers \cup Pollers -> SUBSET Filters]
    BY <1>18 DEF Crash
  <2> QED
    BY <1>18, <2>1, <2>2 DEF Crash, Fault
<1>19. ASSUME NEW p \in Processes, Overlap(p) PROVE TypeOK'
  <2>1. announced' \in Nat /\ queued' \in [Filters -> Nat]
    BY <1>17, <1>19 DEF Overlap
  <2> QED
    BY <1>19, <2>1 DEF Overlap
<1>20. ASSUME NEW f \in Filters, DeleteFilter(f) PROVE TypeOK'
  BY <1>20 DEF DeleteFilter
<1>21. ASSUME NEW f \in Filters, Due(f) PROVE TypeOK'
  BY <1>21 DEF Due
<1>22. CASE UNCHANGED vars
  BY <1>22 DEF vars
<1> HIDE DEF TypeOK, InHand, Goto, Points
<1> QED
  BY <1>1, <1>2, <1>3, <1>4, <1>5, <1>6, <1>7, <1>8, <1>9, <1>10, <1>12, <1>13,
     <1>14, <1>15, <1>16, <1>18, <1>19, <1>20, <1>21, <1>22
  DEF Next, MatcherStep, SenderStep, PollerStep, DeliveryStep, Failure

\* Types and what processes hold, along every behaviour.
LEMMA Typing == Spec => [](TypeOK /\ InHand)
<1>1. Init => TypeOK /\ InHand
  <2> SUFFICES ASSUME Init PROVE TypeOK /\ InHand
    OBVIOUS
  <2>1. due \in [Filters -> BOOLEAN] /\ tried \in [Filters -> BOOLEAN]
    BY DEF Init
  <2>2. polling \in Polling /\ schema \in Schemas /\ saved \subseteq Filters
    BY DEF Init
  <2>3. TypeOK
    BY <2>1, <2>2, NotificationsAssumption
    DEF Init, TypeOK, Points, Outcomes, Processes, Deliverers
  <2>4. InHand
    BY NotificationsAssumption DEF Init, InHand, Processes, Deliverers
  <2> QED
    BY <2>3, <2>4
<1>2. TypeOK /\ InHand /\ [Next]_vars => TypeOK' /\ InHand'
  BY TypeStep, InHandStep
<1> QED
  BY <1>1, <1>2, PTL DEF Spec

\* Type correctness: rows hold only statuses the schema's check constraint
\* allows, and the queues and processes keep their shape.
THEOREM TypeCorrect == Spec => []TypeOK
  BY Typing, PTL

-----------------------------------------------------------------------------
(* One delivery message per job                                            *)

\* Only the matcher whose insert the unique constraint admitted publishes, once.
PublishedOnce ==
  /\ \A f \in Filters : published[f] <= 1 /\ (row[f] = "none" => published[f] = 0)
  /\ \A m \in Matchers : at[m] = "publish" => row[job[m]] # "none" /\ published[job[m]] = 0
  /\ \A m, n \in Matchers :
       at[m] = "publish" /\ at[n] = "publish" /\ job[m] = job[n] => m = n

\* A job is published once.
LEMMA PublishedOnceStep ==
  ASSUME TypeOK, InHand, PublishedOnce, [Next]_vars
  PROVE  PublishedOnce'
<1> USE NotificationsAssumption
    DEF TypeOK, InHand, PublishedOnce, Goto, Processes, Deliverers, process, bus,
        history, database
<1>1. ASSUME NEW m \in Matchers,
             \/ Match(m) \/ Matched(m) \/ InsertRaises(m) \/ MatchRaises(m)
             \/ \E f \in Filters : Skip(m, f) \/ Existing(m, f) \/ Absent(m, f)
      PROVE  PublishedOnce'
  BY <1>1 DEF Match, Matched, InsertRaises, MatchRaises, RetryAnnouncement, Skip,
    Existing, Absent
<1>2. ASSUME NEW m \in Matchers, Insert(m) PROVE PublishedOnce'
  BY <1>2 DEF Insert, MayInsert
<1>3. ASSUME NEW m \in Matchers, PublishJob(m) PROVE PublishedOnce'
  BY <1>3 DEF PublishJob
<1>4. ASSUME NEW m \in Matchers, PublishRaises(m) PROVE PublishedOnce'
  BY <1>4 DEF PublishRaises, RetryAnnouncement
<1>5. ASSUME NEW s \in Deliverers, UNCHANGED <<row, published>>,
             \A m \in Matchers : at'[m] = at[m] /\ job'[m] = job[m]
      PROVE  PublishedOnce'
  BY <1>5
<1>6. ASSUME NEW s \in Deliverers, HandlerRaises(s)
      PROVE  \A m \in Matchers : at'[m] = at[m] /\ job'[m] = job[m]
  BY <1>6 DEF HandlerRaises, RetryDelivery
<1>7. ASSUME NEW s \in Deliverers,
             \/ SkipJob(s) \/ Select(s) \/ Ack(s) \/ Poll(s) \/ AnswerLost(s)
             \/ (\E f \in Filters : Take(s, f) \/ Pick(s, f))
             \/ (\E o \in Outcomes : Answer(s, o))
      PROVE  PublishedOnce'
  BY <1>5, <1>7 DEF SkipJob, Select, Ack, Poll, AnswerLost, Take, Pick, Answer
<1>8. ASSUME NEW s \in Deliverers, ClaimRaises(s) \/ DeliveryRaises(s)
      PROVE  PublishedOnce'
  BY <1>5, <1>6, <1>8 DEF ClaimRaises, DeliveryRaises
<1>9. ASSUME NEW s \in Deliverers, Claim(s) PROVE PublishedOnce'
  BY <1>9 DEF Claim
<1>10. ASSUME NEW s \in Deliverers, Record(s) PROVE PublishedOnce'
  <2>1. StatusOf(outcome[s]) # "none"
    BY StatusOfOutcome DEF Statuses
  <2> QED
    BY <1>10, <2>1 DEF Record
<1>11. ASSUME NEW p \in Processes, Crash(p) PROVE PublishedOnce'
  BY <1>11 DEF Crash
<1>12. ASSUME UNCHANGED <<at, job, row, published>> PROVE PublishedOnce'
  BY <1>12
<1> HIDE DEF TypeOK, InHand, PublishedOnce, Goto
<1> QED
  BY <1>1, <1>2, <1>3, <1>4, <1>7, <1>8, <1>9, <1>10, <1>11, <1>12
  DEF Next, vars, MatcherStep, SenderStep, PollerStep, DeliveryStep, Failure,
    Overlap, DeleteFilter, Due

\* Without redelivery to a second process a job's delivery message is in one
\* place: waiting, or in the hand of one sender.
OneMessage ==
  overlaps = 0 =>
    /\ \A f \in Filters :
         /\ queued[f] <= 1
         /\ queued[f] = 1 => published[f] = 1 /\ \A s \in Senders : job[s] # f
    /\ \A s \in Senders : job[s] # None => published[job[s]] = 1
    /\ \A s, t \in Senders : job[s] # None /\ job[s] = job[t] => s = t

\* A job has one message, or one sender that popped it.
LEMMA OneMessageStep ==
  ASSUME TypeOK, InHand, PublishedOnce, OneMessage, [Next]_vars
  PROVE  OneMessage'
<1> SUFFICES ASSUME overlaps' = 0 PROVE OneMessage'
  BY DEF OneMessage
<1>0. overlaps = 0 /\ \A p \in Processes : ~Overlap(p)
  BY DEF TypeOK, Next, vars, counters, MatcherStep, SenderStep, PollerStep,
    DeliveryStep, Failure, Match, Matched, Skip, Existing, Absent, Insert,
    InsertRaises, PublishJob, MatchRaises, PublishRaises, Take, Poll, Pick, SkipJob,
    Select, Claim, ClaimRaises, Answer, AnswerLost, Record, Ack, DeliveryRaises,
    Crash, Overlap, DeleteFilter, Due, Fault
<1> USE NotificationsAssumption, <1>0
    DEF TypeOK, InHand, OneMessage, Goto, Processes, Deliverers, process, bus,
        history
<1>1. ASSUME UNCHANGED <<queued, published>>,
             \A s \in Senders : job'[s] = job[s]
      PROVE  OneMessage'
  BY <1>1
<1>2. ASSUME NEW m \in Matchers,
             \/ Match(m) \/ Matched(m) \/ Insert(m) \/ InsertRaises(m) \/ MatchRaises(m)
             \/ \E f \in Filters : Skip(m, f) \/ Existing(m, f) \/ Absent(m, f)
      PROVE  OneMessage'
  BY <1>1, <1>2 DEF Match, Matched, Insert, InsertRaises, MatchRaises,
    RetryAnnouncement, Skip, Existing, Absent
<1>p. ASSUME NEW m \in Matchers, at[m] = "publish",
             queued' = [queued EXCEPT ![job[m]] = @ + 1],
             published' = [published EXCEPT ![job[m]] = @ + 1],
             \A s \in Senders : job'[s] = job[s]
      PROVE  OneMessage'
  <2> DEFINE f == job[m]
  <2>1. f \in Filters /\ published[f] = 0
    BY <1>p DEF PublishedOnce
  <2>2. queued[f] = 0 /\ \A s \in Senders : job[s] # f
    BY <2>1
  <2>3. queued'[f] = 1 /\ published'[f] = 1
    BY <1>p, <2>1, <2>2
  <2>4. \A g \in Filters : g # f => queued'[g] = queued[g] /\ published'[g] = published[g]
    BY <1>p, <2>1
  <2>5. \A s \in Senders : job[s] \in Filters \cup {None}
    OBVIOUS
  <2> HIDE DEF f, TypeOK, InHand
  <2> QED
    BY <1>p, <2>1, <2>2, <2>3, <2>4, <2>5
<1>3. ASSUME NEW m \in Matchers, PublishJob(m) PROVE OneMessage'
  <2>1. \A s \in Senders : job'[s] = job[s]
    BY <1>3 DEF PublishJob
  <2> QED
    BY <1>3, <1>p, <2>1 DEF PublishJob
<1>4. ASSUME NEW m \in Matchers, PublishRaises(m) PROVE OneMessage'
  <2>1. \A s \in Senders : job'[s] = job[s]
    BY <1>4 DEF PublishRaises, RetryAnnouncement
  <2> QED
    BY <1>1, <1>4, <1>p, <2>1 DEF PublishRaises
<1>5. ASSUME NEW s \in Senders, NEW f \in Filters, Take(s, f) PROVE OneMessage'
  BY <1>5 DEF Take
<1>6. ASSUME NEW s \in Deliverers, UNCHANGED <<queued, published>>,
             job' = job \/ job' = [job EXCEPT ![s] = None]
                        \/ job' = [job EXCEPT ![s] = job[s]]
      PROVE  OneMessage'
  BY <1>6
<1>7. ASSUME NEW s \in Deliverers,
             \/ Poll(s) \/ SkipJob(s) \/ Select(s) \/ Claim(s) \/ AnswerLost(s)
             \/ Record(s) \/ Ack(s) \/ \E o \in Outcomes : Answer(s, o)
      PROVE  OneMessage'
  BY <1>6, <1>7 DEF Poll, SkipJob, Select, Claim, AnswerLost, Record, Ack, Answer
<1>8. ASSUME NEW w \in Pollers, NEW f \in Filters, Pick(w, f) PROVE OneMessage'
  BY <1>1, <1>8 DEF Pick
<1>9. ASSUME NEW s \in Deliverers, at[s] # "idle", HandlerRaises(s), UNCHANGED published
      PROVE  OneMessage'
  <2>1. CASE s \in Pollers
    BY <1>1, <1>9, <2>1 DEF HandlerRaises, RetryDelivery
  <2>2. CASE s \in Senders
    <3> DEFINE f == job[s]
    <3>1. /\ f \in Filters /\ queued[f] = 0 /\ published[f] = 1
          /\ \A t \in Senders : t # s => job[t] # f
      BY <1>9, <2>2
    <3>2. /\ job'[s] = None
          /\ \A t \in Senders : t # s => job'[t] = job[t]
      BY <1>9, <2>2 DEF HandlerRaises, RetryDelivery
    <3>3. /\ queued'[f] \in {0, 1}
          /\ \A g \in Filters : g # f => queued'[g] = queued[g]
      BY <1>9, <2>2, <3>1 DEF HandlerRaises, RetryDelivery
    <3> HIDE DEF f, TypeOK, InHand
    <3> QED
      BY <1>9, <3>1, <3>2, <3>3
  <2> QED
    BY <2>1, <2>2
<1>10. ASSUME NEW s \in Deliverers, ClaimRaises(s) \/ DeliveryRaises(s) PROVE OneMessage'
  BY <1>9, <1>10 DEF ClaimRaises, DeliveryRaises
<1>11. ASSUME NEW p \in Processes, Crash(p) PROVE OneMessage'
  <2>1. CASE p \in Senders
    BY <1>11, <2>1 DEF Crash, Requeue
  <2>2. CASE p \notin Senders
    BY <1>1, <1>11, <2>2 DEF Crash, Requeue
  <2> QED
    BY <2>1, <2>2
<1>12. ASSUME UNCHANGED <<job, queued, published>> PROVE OneMessage'
  BY <1>12
<1> HIDE DEF TypeOK, InHand, OneMessage, Goto
<1> QED
  BY <1>2, <1>3, <1>4, <1>5, <1>7, <1>8, <1>10, <1>11, <1>12
  DEF Next, vars, MatcherStep, SenderStep, PollerStep, DeliveryStep, Failure,
    DeleteFilter, Due

-----------------------------------------------------------------------------
(* No notification is sent twice                                           *)

\* Where no poller runs, none has a job.
PollersRest == ~polling => \A w \in Pollers : at[w] = "idle" /\ todo[w] = {}

\* Without polling the pollers do nothing.
LEMMA PollersRestStep ==
  ASSUME TypeOK, InHand, PollersRest, [Next]_vars
  PROVE  PollersRest'
<1> SUFFICES ASSUME ~polling' PROVE \A w \in Pollers : at'[w] = "idle" /\ todo'[w] = {}
  BY DEF PollersRest
<1>0. ~polling
  BY DEF Next, vars, database, MatcherStep, SenderStep, PollerStep, DeliveryStep,
    Failure, Match, Matched, Skip, Existing, Absent, Insert, InsertRaises,
    PublishJob, MatchRaises, PublishRaises, Take, Poll, Pick, SkipJob, Select, Claim,
    ClaimRaises, Answer, AnswerLost, Record, Ack, DeliveryRaises, Crash, Overlap,
    DeleteFilter, Due
<1>p. \A w \in Pollers : at[w] = "idle" /\ todo[w] = {}
  BY <1>0 DEF PollersRest
<1> USE NotificationsAssumption DEF TypeOK, Goto, Processes, Deliverers, process
<1>1. ASSUME NEW m \in Matchers, MatcherStep(m) \/ MatchRaises(m) \/ PublishRaises(m)
      PROVE  \A w \in Pollers : at'[w] = at[w] /\ todo'[w] = todo[w]
  BY <1>1 DEF MatcherStep, Match, Matched, Skip, Existing, Absent, Looked, Insert,
    InsertRaises, PublishJob, MatchRaises, PublishRaises, RetryAnnouncement
<1>2. ASSUME NEW s \in Senders,
             SenderStep(s) \/ AnswerLost(s) \/ DeliveryRaises(s)
      PROVE  \A w \in Pollers : at'[w] = at[w] /\ todo'[w] = todo[w]
  BY <1>2 DEF SenderStep, DeliveryStep, Take, SkipJob, Select, Claim, ClaimRaises,
    Answer, AnswerLost, Record, Ack, DeliveryRaises, HandlerRaises, RetryDelivery
<1>3. ASSUME NEW w \in Pollers,
             PollerStep(w) \/ AnswerLost(w) \/ DeliveryRaises(w)
      PROVE  FALSE
  BY <1>0, <1>p, <1>3 DEF PollerStep, DeliveryStep, Poll, Pick, SkipJob, Select,
    Claim, ClaimRaises, Answer, AnswerLost, Record, Ack, DeliveryRaises
<1>4. ASSUME NEW q \in Processes, Crash(q)
      PROVE  \A w \in Pollers : at'[w] = "idle" /\ todo'[w] = {}
  BY <1>p, <1>4 DEF Crash
<1>5. ASSUME UNCHANGED <<at, todo>>
      PROVE  \A w \in Pollers : at'[w] = at[w] /\ todo'[w] = todo[w]
  BY <1>5
<1> HIDE DEF TypeOK, Goto
<1> QED
  BY <1>p, <1>1, <1>2, <1>3, <1>4, <1>5
  DEF Next, vars, Failure, Overlap, DeleteFilter, Due

\* How far the one sender of a job is: until the row is claimed nothing but
\* doubtful sends has reached Telegram, and a claimed row is not claimed again.
SendState ==
  overlaps = 0 /\ ~polling =>
    /\ \A f \in Filters :
         /\ row[f] \in {"none", "pending"} => telegram[f] = doubtful[f]
         /\ telegram[f] <= 1 + doubtful[f]
    /\ \A s \in Senders :
         /\ at[s] = "claim" => row[job[s]] = "pending"
         /\ at[s] = "send" =>
              row[job[s]] = "sending" /\ telegram[job[s]] = doubtful[job[s]]
         /\ at[s] = "record" /\ outcome[s] # "sent" => telegram[job[s]] = doubtful[job[s]]

\* No step sends a job again once it was claimed and answered.
LEMMA SendStateStep ==
  ASSUME TypeOK, InHand, OneMessage, PollersRest, SendState, [Next]_vars
  PROVE  SendState'
<1> SUFFICES ASSUME overlaps' = 0, ~polling' PROVE SendState'
  BY DEF SendState
<1>0. overlaps = 0 /\ ~polling
  BY DEF TypeOK, Next, vars, database, counters, MatcherStep, SenderStep, PollerStep,
    DeliveryStep, Failure, Match, Matched, Skip, Existing, Absent, Insert,
    InsertRaises, PublishJob, MatchRaises, PublishRaises, Take, Poll, Pick, SkipJob,
    Select, Claim, ClaimRaises, Answer, AnswerLost, Record, Ack, DeliveryRaises,
    Crash, Overlap, DeleteFilter, Due, Fault
<1>u. \A s, t \in Senders : at[s] # "idle" /\ at[t] # "idle" /\ job[s] = job[t] => s = t
  BY <1>0, NotificationsAssumption DEF OneMessage, InHand, Deliverers
<1> USE NotificationsAssumption, <1>0
    DEF TypeOK, InHand, SendState, Goto, Processes, Deliverers, process, bus,
        history, database
<1>1. ASSUME UNCHANGED <<telegram, doubtful, row, outcome>>,
             \A s \in Senders : \/ at'[s] = at[s] /\ job'[s] = job[s]
                                \/ at'[s] \in {"idle", "select", "ack"}
      PROVE  SendState'
  BY <1>1
<1>2. ASSUME NEW m \in Matchers,
             \/ Match(m) \/ Matched(m) \/ InsertRaises(m) \/ MatchRaises(m)
             \/ PublishJob(m) \/ PublishRaises(m)
             \/ \E f \in Filters : Skip(m, f) \/ Existing(m, f) \/ Absent(m, f)
      PROVE  SendState'
  <2>1. UNCHANGED <<telegram, doubtful, row, outcome>>
    BY <1>2 DEF Match, Matched, InsertRaises, MatchRaises, PublishJob, PublishRaises,
      Skip, Existing, Absent
  <2>2. \A s \in Senders : at'[s] = at[s] /\ job'[s] = job[s]
    BY <1>2 DEF Match, Matched, InsertRaises, MatchRaises, PublishJob, PublishRaises,
      RetryAnnouncement, Skip, Existing, Absent
  <2> QED
    BY <1>1, <2>1, <2>2
<1>3. ASSUME NEW m \in Matchers, Insert(m) PROVE SendState'
  BY <1>3 DEF Insert, MayInsert
<1>4. ASSUME NEW s \in Senders, SkipJob(s) \/ Ack(s) \/ (\E f \in Filters : Take(s, f))
      PROVE  SendState'
  BY <1>1, <1>4 DEF SkipJob, Ack, Take
<1>5. ASSUME NEW s \in Senders, Select(s) PROVE SendState'
  BY <1>5 DEF Select, Claimable
<1>6. ASSUME NEW s \in Senders, Claim(s) PROVE SendState'
  <2>1. job[s] \in Filters /\ telegram[job[s]] = doubtful[job[s]]
    BY <1>6 DEF Claim
  <2>2. \A t \in Senders : t # s /\ at[t] # "idle" => job[t] # job[s]
    BY <1>6, <1>u DEF Claim
  <2> QED
    BY <1>6, <2>1, <2>2 DEF Claim
<1>7. ASSUME NEW s \in Senders, HandlerRaises(s), UNCHANGED <<telegram, doubtful, row, outcome>>
      PROVE  SendState'
  <2>1. \A t \in Senders : (at'[t] = at[t] /\ job'[t] = job[t]) \/ at'[t] = "idle"
    BY <1>7 DEF HandlerRaises, RetryDelivery
  <2> QED
    BY <1>1, <1>7, <2>1
<1>8. ASSUME NEW s \in Senders, ClaimRaises(s) \/ DeliveryRaises(s) PROVE SendState'
  BY <1>7, <1>8 DEF ClaimRaises, DeliveryRaises
<1>9. ASSUME NEW s \in Senders, NEW o \in Outcomes, Answer(s, o) PROVE SendState'
  <2>1. /\ job[s] \in Filters /\ telegram[job[s]] = doubtful[job[s]]
        /\ row[job[s]] = "sending"
    BY <1>9 DEF Answer
  <2>2. \A t \in Senders : t # s /\ at[t] # "idle" => job[t] # job[s]
    BY <1>9, <1>u DEF Answer
  <2> QED
    BY <1>9, <2>1, <2>2 DEF Answer
<1>10. ASSUME NEW s \in Senders, AnswerLost(s) PROVE SendState'
  <2>1. /\ job[s] \in Filters /\ telegram[job[s]] = doubtful[job[s]]
        /\ row[job[s]] = "sending"
    BY <1>10 DEF AnswerLost
  <2>2. \A t \in Senders : t # s /\ at[t] # "idle" => job[t] # job[s]
    BY <1>10, <1>u DEF AnswerLost
  <2> QED
    BY <1>10, <2>1, <2>2 DEF AnswerLost
<1>11. ASSUME NEW s \in Senders, Record(s) PROVE SendState'
  <2>1. StatusOf(outcome[s]) \in {"none", "pending"} => outcome[s] # "sent"
    BY DEF StatusOf
  <2>2. \A t \in Senders : t # s /\ at[t] # "idle" => job[t] # job[s]
    BY <1>11, <1>u DEF Record
  <2>3. job[s] \in Filters /\ (outcome[s] # "sent" => telegram[job[s]] = doubtful[job[s]])
    BY <1>11 DEF Record
  <2> QED
    BY <1>11, <2>1, <2>2, <2>3 DEF Record
<1>12. ASSUME NEW w \in Pollers, PollerStep(w) \/ AnswerLost(w) \/ DeliveryRaises(w)
       PROVE  FALSE
  BY <1>12 DEF PollersRest, PollerStep, DeliveryStep, Poll, Pick, SkipJob, Select,
    Claim, ClaimRaises, Answer, AnswerLost, Record, Ack, DeliveryRaises
<1>13. ASSUME NEW p \in Processes, Crash(p) PROVE SendState'
  <2>1. UNCHANGED <<telegram, doubtful, row, outcome>>
    BY <1>13 DEF Crash
  <2>2. \A s \in Senders : (at'[s] = at[s] /\ job'[s] = job[s]) \/ at'[s] = "idle"
    BY <1>13 DEF Crash
  <2> QED
    BY <1>1, <2>1, <2>2
<1>14. ASSUME UNCHANGED <<at, job, outcome, row, telegram, doubtful>> PROVE SendState'
  BY <1>14
<1> HIDE DEF TypeOK, InHand, SendState, Goto
<1> QED
  BY <1>2, <1>3, <1>4, <1>5, <1>6, <1>8, <1>9, <1>10, <1>11, <1>12, <1>13, <1>14
  DEF Next, vars, MatcherStep, SenderStep, DeliveryStep, Failure,
    Overlap, DeleteFilter, Due

-----------------------------------------------------------------------------
(* A created job reaches the delivery queue                                *)

\* A row is put back for later, and a send is under way, only after a claim.
TriedFirst ==
  /\ \A f \in Filters : ~due[f] => tried[f]
  /\ \A s \in Deliverers : at[s] \in {"send", "record"} => tried[job[s]]

\* No step puts back or sends a job that was not claimed.
LEMMA TriedFirstStep ==
  ASSUME TypeOK, InHand, TriedFirst, [Next]_vars
  PROVE  TriedFirst'
<1> USE NotificationsAssumption
    DEF TypeOK, InHand, TriedFirst, Goto, Processes, Deliverers, process, bus,
        history, database
<1>1. ASSUME UNCHANGED <<due, tried>>,
             \A s \in Deliverers : \/ at'[s] = at[s] /\ job'[s] = job[s]
                                   \/ at'[s] \in {"idle", "select", "claim", "ack"}
      PROVE  TriedFirst'
  BY <1>1
<1>2. ASSUME NEW m \in Matchers, MatcherStep(m) \/ MatchRaises(m) \/ PublishRaises(m)
      PROVE  TriedFirst'
  <2>1. UNCHANGED <<due, tried>>
    BY <1>2 DEF MatcherStep, Match, Matched, Skip, Existing, Absent, Insert,
      InsertRaises, PublishJob, MatchRaises, PublishRaises
  <2>2. \A s \in Deliverers : at'[s] = at[s] /\ job'[s] = job[s]
    BY <1>2 DEF MatcherStep, Match, Matched, Skip, Existing, Absent, Insert,
      InsertRaises, PublishJob, MatchRaises, PublishRaises, RetryAnnouncement
  <2> QED
    BY <1>1, <2>1, <2>2
<1>3. ASSUME NEW s \in Deliverers,
             \/ SkipJob(s) \/ Select(s) \/ Ack(s) \/ Poll(s)
             \/ \E f \in Filters : Take(s, f) \/ Pick(s, f)
      PROVE  TriedFirst'
  BY <1>1, <1>3 DEF SkipJob, Select, Ack, Poll, Take, Pick
<1>4. ASSUME NEW s \in Deliverers, ClaimRaises(s) \/ DeliveryRaises(s) PROVE TriedFirst'
  <2>1. HandlerRaises(s) /\ UNCHANGED <<due, tried>>
    BY <1>4 DEF ClaimRaises, DeliveryRaises
  <2>2. \A t \in Deliverers : (at'[t] = at[t] /\ job'[t] = job[t]) \/ at'[t] = "idle"
    BY <2>1 DEF HandlerRaises, RetryDelivery
  <2> QED
    BY <1>1, <2>1, <2>2
<1>5. ASSUME NEW s \in Deliverers, Claim(s) PROVE TriedFirst'
  BY <1>5 DEF Claim
<1>6. ASSUME NEW s \in Deliverers, (\E o \in Outcomes : Answer(s, o)) \/ AnswerLost(s)
      PROVE  TriedFirst'
  BY <1>6 DEF Answer, AnswerLost
<1>7. ASSUME NEW s \in Deliverers, Record(s) PROVE TriedFirst'
  BY <1>7 DEF Record
<1>8. ASSUME NEW p \in Processes, Crash(p) PROVE TriedFirst'
  <2>1. UNCHANGED <<due, tried>>
    BY <1>8 DEF Crash
  <2>2. \A s \in Deliverers : (at'[s] = at[s] /\ job'[s] = job[s]) \/ at'[s] = "idle"
    BY <1>8 DEF Crash
  <2> QED
    BY <1>1, <2>1, <2>2
<1>9. ASSUME NEW f \in Filters, Due(f) PROVE TriedFirst'
  BY <1>9 DEF Due
<1>10. ASSUME UNCHANGED <<at, job, due, tried>> PROVE TriedFirst'
  BY <1>10
<1> HIDE DEF TypeOK, InHand, TriedFirst, Goto
<1> QED
  BY <1>2, <1>3, <1>4, <1>5, <1>6, <1>7, <1>8, <1>9, <1>10
  DEF Next, vars, SenderStep, PollerStep, DeliveryStep, Failure,
    Overlap, DeleteFilter

\* Someone will still attempt f, or an operator sees it.
OnItsWay(f) ==
  \/ queued[f] > 0 \/ f \in dead
  \/ \E m \in Matchers : at[m] = "publish" /\ job[m] = f
  \/ \E s \in Senders : at[s] \in {"select", "claim"} /\ job[s] = f

Untried(f) == row[f] = "pending" /\ ~tried[f]

\* Without failures no step of any process takes an untried job off its way.
LEMMA OnItsWayStep ==
  ASSUME TypeOK, InHand, TriedFirst, [Next]_vars, faults' = 0,
         NEW f \in Filters, Untried(f)', Untried(f) => OnItsWay(f)
  PROVE  OnItsWay(f)'
<1> USE NotificationsAssumption
    DEF TypeOK, InHand, Goto, Processes, Deliverers, process, bus, history, database
<1>1. ASSUME NEW m \in Matchers, Insert(m) PROVE OnItsWay(f)'
  <2>1. CASE job[m] = f
    BY <1>1, <2>1 DEF Insert, OnItsWay
  <2>2. CASE job[m] # f
    BY <1>1, <2>2 DEF Insert, OnItsWay, Untried
  <2> QED
    BY <2>1, <2>2
<1>2. ASSUME NEW m \in Matchers, PublishJob(m) PROVE OnItsWay(f)'
  <2>1. CASE job[m] = f
    BY <1>2, <2>1 DEF PublishJob, OnItsWay
  <2>2. CASE job[m] # f
    BY <1>2, <2>2 DEF PublishJob, OnItsWay, Untried
  <2> QED
    BY <2>1, <2>2
<1>3. ASSUME NEW m \in Matchers,
             \/ Match(m) \/ Matched(m) \/ InsertRaises(m)
             \/ \E g \in Filters : Skip(m, g) \/ Existing(m, g) \/ Absent(m, g)
      PROVE  OnItsWay(f)'
  BY <1>3 DEF Match, Matched, InsertRaises, RetryAnnouncement, Skip, Existing, Absent,
    OnItsWay, Untried
<1>4. ASSUME NEW s \in Senders, NEW g \in Filters, Take(s, g) PROVE OnItsWay(f)'
  <2>0. OnItsWay(f)
    BY <1>4 DEF Take, Untried
  <2>1. CASE g = f
    BY <1>4, <2>1 DEF Take, OnItsWay
  <2>2. CASE g # f
    BY <1>4, <2>0, <2>2 DEF Take, OnItsWay
  <2> QED
    BY <2>1, <2>2
<1>5. ASSUME NEW w \in Pollers, Poll(w) \/ (\E g \in Filters : Pick(w, g))
      PROVE  OnItsWay(f)'
  BY <1>5 DEF Poll, Pick, OnItsWay, Untried
<1>6. ASSUME NEW s \in Deliverers, SkipJob(s) PROVE OnItsWay(f)'
  <2>1. Untried(f) /\ due[f]
    BY <1>6 DEF SkipJob, Untried, TriedFirst
  <2>2. job[s] # f
    BY <1>6, <2>1 DEF SkipJob, Untried, Claimable
  <2> QED
    BY <1>6, <2>1, <2>2 DEF SkipJob, OnItsWay
<1>7. ASSUME NEW s \in Deliverers, Select(s) PROVE OnItsWay(f)'
  BY <1>7 DEF Select, OnItsWay, Untried
<1>8. ASSUME NEW s \in Deliverers, Claim(s) PROVE OnItsWay(f)'
  <2>1. job[s] # f /\ Untried(f)
    BY <1>8 DEF Claim, Untried
  <2> QED
    BY <1>8, <2>1 DEF Claim, OnItsWay
<1>9. ASSUME NEW s \in Deliverers, ClaimRaises(s) PROVE OnItsWay(f)'
  <2>0. Untried(f) /\ OnItsWay(f)
    BY <1>9 DEF ClaimRaises, Untried
  <2>1. CASE s \in Pollers
    BY <1>9, <2>0, <2>1 DEF ClaimRaises, HandlerRaises, OnItsWay
  <2>2. CASE s \in Senders /\ job[s] = f
    <3>1. queued'[f] > 0 \/ f \in dead'
      BY <1>9, <2>2 DEF ClaimRaises, HandlerRaises, RetryDelivery
    <3> QED
      BY <3>1 DEF OnItsWay
  <2>3. CASE s \in Senders /\ job[s] # f
    <3>1. queued'[f] = queued[f] /\ dead \subseteq dead'
      BY <1>9, <2>3 DEF ClaimRaises, HandlerRaises, RetryDelivery
    <3>2. \A p \in Processes : p # s => at'[p] = at[p] /\ job'[p] = job[p]
      BY <1>9, <2>3 DEF ClaimRaises, HandlerRaises, RetryDelivery
    <3> QED
      BY <2>0, <2>3, <3>1, <3>2 DEF OnItsWay
  <2> QED
    BY <2>1, <2>2, <2>3
<1>10. ASSUME NEW s \in Deliverers, NEW o \in Outcomes, Answer(s, o) PROVE OnItsWay(f)'
  BY <1>10 DEF Answer, OnItsWay, Untried
<1>11. ASSUME NEW s \in Deliverers, Record(s) PROVE OnItsWay(f)'
  <2>1. job[s] # f
    BY <1>11 DEF Record, Untried, TriedFirst
  <2>2. Untried(f)
    BY <1>11, <2>1 DEF Record, Untried
  <2> QED
    BY <1>11, <2>1, <2>2 DEF Record, OnItsWay
<1>12. ASSUME NEW s \in Deliverers, Ack(s) PROVE OnItsWay(f)'
  BY <1>12 DEF Ack, OnItsWay, Untried
<1>13. ASSUME NEW p \in Processes, Overlap(p) PROVE OnItsWay(f)'
  <2>1. OnItsWay(f) /\ queued'[f] >= queued[f]
    BY <1>13 DEF Overlap, Requeue, Untried
  <2>2. UNCHANGED <<at, job, dead>> /\ queued[f] \in Nat /\ queued'[f] \in Nat
    BY <1>13 DEF Overlap, Requeue
  <2> HIDE DEF TypeOK, InHand
  <2> QED
    BY <2>1, <2>2 DEF OnItsWay
<1>14. ASSUME UNCHANGED <<at, job, row, tried, queued, dead>> PROVE OnItsWay(f)'
  BY <1>14 DEF OnItsWay, Untried
<1>15. ASSUME NEW g \in Filters, DeleteFilter(g) \/ Due(g) PROVE OnItsWay(f)'
  BY <1>14, <1>15 DEF DeleteFilter, Due
<1>16. ~Fault
  BY DEF Fault
<1> HIDE DEF TypeOK, InHand, Goto
<1> QED
  BY <1>1, <1>2, <1>3, <1>4, <1>5, <1>6, <1>7, <1>8, <1>9, <1>10, <1>11, <1>12,
     <1>13, <1>14, <1>15, <1>16
  DEF Next, vars, MatcherStep, SenderStep, PollerStep, DeliveryStep, Failure,
    MatchRaises, PublishRaises, AnswerLost, DeliveryRaises, Crash

JobsOnTheirWay == faults = 0 => \A f \in Filters : Untried(f) => OnItsWay(f)

\* An untried job stays on its way to the delivery queue.
LEMMA JobsOnTheirWayStep ==
  ASSUME TypeOK, InHand, TriedFirst, JobsOnTheirWay, [Next]_vars
  PROVE  JobsOnTheirWay'
<1> SUFFICES ASSUME faults' = 0, NEW f \in Filters, Untried(f)' PROVE OnItsWay(f)'
  BY DEF JobsOnTheirWay
<1>1. faults = 0
  BY DEF TypeOK, Next, vars, counters, MatcherStep, SenderStep, PollerStep,
    DeliveryStep, Failure, Match, Matched, Skip, Existing, Absent, Insert,
    InsertRaises, PublishJob, MatchRaises, PublishRaises, Take, Poll, Pick, SkipJob,
    Select, Claim, ClaimRaises, Answer, AnswerLost, Record, Ack, DeliveryRaises,
    Crash, Overlap, DeleteFilter, Due, Fault
<1> QED
  BY <1>1, OnItsWayStep DEF JobsOnTheirWay

-----------------------------------------------------------------------------
NotificationsInv ==
  /\ PublishedOnce
  /\ OneMessage
  /\ PollersRest
  /\ SendState
  /\ TriedFirst
  /\ JobsOnTheirWay

\* The notification processes keep the invariant.
LEMMA NotificationsInvariant == Spec => []NotificationsInv
<1>1. Init => NotificationsInv
  BY NotificationsAssumption
  DEF Init, NotificationsInv, PublishedOnce, OneMessage, PollersRest, SendState,
    TriedFirst, JobsOnTheirWay, Untried, Processes, Deliverers
<1>2. TypeOK /\ InHand /\ NotificationsInv /\ [Next]_vars => NotificationsInv'
  BY PublishedOnceStep, OneMessageStep, PollersRestStep, SendStateStep,
     TriedFirstStep, JobsOnTheirWayStep
  DEF NotificationsInv
<1> QED
  BY <1>1, <1>2, Typing, PTL DEF Spec

\* A notification reaches Telegram once, apart from sends whose answer was lost,
\* whatever crashes, failed writes, retries and matcher races happen, for any
\* number of processes: mark_sending claims a row that is never claimed again.
THEOREM NotificationsNotRepeated == Spec => []NoDuplicateWithoutOverlap
<1>1. NotificationsInv => NoDuplicateWithoutOverlap
  BY DEF NotificationsInv, SendState, NoDuplicateWithoutOverlap
<1> QED
  BY <1>1, NotificationsInvariant, PTL

\* One delivery message per job, and without failures an untried job is never
\* left behind: the insert that wins the unique constraint publishes it, and
\* redeliveries, pollers, deleted filters and a schema that refuses "sending"
\* leave it waiting, in hand or dead-lettered.
THEOREM JobsReachQueue == Spec => []JobReachesQueue
<1>1. NotificationsInv => JobReachesQueue
  BY DEF NotificationsInv, PublishedOnce, JobsOnTheirWay, Untried, OnItsWay,
    JobReachesQueue
<1> QED
  BY <1>1, NotificationsInvariant, PTL

=============================================================================
