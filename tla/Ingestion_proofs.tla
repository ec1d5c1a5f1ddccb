-------------------------- MODULE Ingestion_proofs --------------------------
(***************************************************************************)
(* Proofs about the ingestion of a post: the listeners' album buffers, for *)
(* every set of listeners and of album parts and any number of faults, and *)
(* the pre-AI worker, for every set of messages, texts and parser recipes. *)
(***************************************************************************)
EXTENDS Ingestion, Sequences, FiniteSetTheorems, TLAPS

-----------------------------------------------------------------------------
(* Listeners and album buffers                                             *)

\* Type correctness: listeners, buffers, flights and the raw queue keep their
\* shape.
THEOREM TypeCorrect == Spec => []TypeOK
<1>1. Init => TypeOK
  <2> SUFFICES ASSUME Init PROVE TypeOK
    OBVIOUS
  <2>1. post \subseteq Parts /\ grouped \in BOOLEAN /\ seen \in BOOLEAN
    BY DEF Init
  <2>2. /\ phase \in [Listeners -> Phases]
        /\ inhand \in [Listeners -> Parts \cup {None}]
        /\ group \in [Listeners -> SUBSET Parts]
        /\ delivered \in [Listeners -> SUBSET Parts]
        /\ retained \in [Listeners -> SUBSET Parts]
    BY DEF Init, Phases
  <2>3. timer \in [Listeners -> BOOLEAN]
    BY DEF Init
  <2>4. /\ flights \subseteq Flights
        /\ queue \subseteq [by : Listeners, parts : SUBSET Parts]
        /\ faults \in 0..MaxFaults
    BY AlbumAssumption DEF Init
  <2> QED
    BY <2>1, <2>2, <2>3, <2>4 DEF TypeOK
<1>2. TypeOK /\ [Next]_vars => TypeOK'
  <2> SUFFICES ASSUME TypeOK, [Next]_vars PROVE TypeOK'
    OBVIOUS
  <2> USE AlbumAssumption
      DEF TypeOK, Phases, source, listener, buffer, history
  <2>f. ASSUME NEW l \in Listeners, NEW parts \in SUBSET Parts, NEW a \in BOOLEAN
        PROVE  Flight(l, parts, a) \in Flights
    BY DEF Flight, Flights
  <2>g. ASSUME NEW l \in Listeners, NEW a \in BOOLEAN, Flush(l, a)
        PROVE  /\ flights' \subseteq Flights
               /\ group' \in [Listeners -> SUBSET Parts]
               /\ timer' \in [Listeners -> BOOLEAN]
    BY <2>f, <2>g DEF Flush
  <2>1. ASSUME NEW l \in Listeners, Start(l) PROVE TypeOK'
    BY <2>1 DEF Start
  <2>2. ASSUME NEW l \in Listeners, NEW p \in post, Receive(l, p) PROVE TypeOK'
    BY <2>2 DEF Receive
  <2>3. ASSUME NEW l \in Listeners, SkipDuplicate(l) PROVE TypeOK'
    BY <2>3 DEF SkipDuplicate
  <2>4. ASSUME NEW l \in Listeners, Buffer(l) PROVE TypeOK'
    BY <2>4 DEF Buffer
  <2>5. ASSUME NEW l \in Listeners, PublishDirect(l) PROVE TypeOK'
    <3>1. flights' \subseteq Flights
      BY <2>5, <2>f DEF PublishDirect
    <3> QED
      BY <2>5, <3>1 DEF PublishDirect
  <2>6. ASSUME NEW l \in Listeners, TimerFires(l) PROVE TypeOK'
    BY <2>6, <2>g DEF TimerFires
  <2>7. ASSUME NEW l \in Listeners, Stop(l) PROVE TypeOK'
    BY <2>7, <2>g DEF Stop
  <2>8. ASSUME NEW l \in Listeners, RunEnds(l) PROVE TypeOK'
    BY <2>8, <2>g DEF RunEnds
  <2>9. ASSUME NEW l \in Listeners, LookupRaises(l) PROVE TypeOK'
    <3>0. Flush(l, TRUE)
      BY <2>9 DEF LookupRaises
    <3>1. faults' \in 0..MaxFaults
      BY <2>9 DEF LookupRaises, Fault
    <3>2. /\ inhand' \in [Listeners -> Parts \cup {None}]
          /\ phase' \in [Listeners -> Phases]
      BY <2>9 DEF LookupRaises
    <3>3. /\ flights' \subseteq Flights
          /\ group' \in [Listeners -> SUBSET Parts]
          /\ timer' \in [Listeners -> BOOLEAN]
      BY <2>g, <3>0
    <3> QED
      BY <2>9, <3>1, <3>2, <3>3 DEF LookupRaises
  <2>10. ASSUME NEW l \in Listeners, Exit(l) PROVE TypeOK'
    BY <2>10 DEF Exit
  <2>11. CASE Crash
    BY <2>11 DEF Crash, Fault
  <2>a. ASSUME NEW f \in flights, NEW a \in {"publish", "mark"}, Advance(f, a)
        PROVE  flights' \subseteq Flights
    BY <2>a DEF Advance, Flights
  <2>q. ASSUME NEW f \in flights
        PROVE  Stored(f) \subseteq [by : Listeners, parts : SUBSET Parts]
    BY DEF Stored, Flights
  <2>12. ASSUME NEW f \in flights, DropSeen(f) PROVE TypeOK'
    BY <2>12 DEF DropSeen
  <2>13. ASSUME NEW f \in flights, NotSeen(f) PROVE TypeOK'
    BY <2>13, <2>a DEF NotSeen
  <2>14. ASSUME NEW f \in flights, Publish(f) PROVE TypeOK'
    BY <2>14, <2>a, <2>q DEF Publish
  <2>15. ASSUME NEW f \in flights, MarkSeen(f) PROVE TypeOK'
    BY <2>15 DEF MarkSeen
  <2>16. ASSUME NEW f \in flights, Fails(f) PROVE TypeOK'
    <3>1. f.by \in Listeners /\ f.parts \subseteq Parts
      BY DEF Flights
    <3>2. queue' \subseteq [by : Listeners, parts : SUBSET Parts]
      BY <2>16, <2>q DEF Fails
    <3>3. /\ group' \in [Listeners -> SUBSET Parts]
          /\ retained' \in [Listeners -> SUBSET Parts]
          /\ phase' \in [Listeners -> Phases]
      BY <2>16, <3>1 DEF Fails, Restore
    <3>4. flights' \subseteq Flights /\ faults' \in 0..MaxFaults
      BY <2>16 DEF Fails, Fault
    <3> QED
      BY <2>16, <3>2, <3>3, <3>4 DEF Fails
  <2>17. CASE UNCHANGED vars
    BY <2>17 DEF vars
  <2> QED
    BY <2>1, <2>2, <2>3, <2>4, <2>5, <2>6, <2>7, <2>8, <2>9, <2>10, <2>11,
       <2>12, <2>13, <2>14, <2>15, <2>16, <2>17
    DEF Next, ListenerStep, FlightStep
<1> QED
  BY <1>1, <1>2, PTL DEF Spec

-----------------------------------------------------------------------------
\* A flight that waits for its mark has stored an event.
MarkAfterStore == \A f \in flights : f.at = "mark" => queue # {}

\* No step marks a post that was not stored.
LEMMA SeenStep ==
  ASSUME TypeOK, SeenMeansQueued, MarkAfterStore, [Next]_vars
  PROVE  SeenMeansQueued' /\ MarkAfterStore'
<1> USE DEF SeenMeansQueued, MarkAfterStore
<1>1. queue \subseteq queue'
  BY DEF Next, vars, ListenerStep, FlightStep, Start, Receive, SkipDuplicate,
    Buffer, PublishDirect, TimerFires, Stop, RunEnds, LookupRaises, Exit, Crash,
    DropSeen, NotSeen, Publish, MarkSeen, Fails, Stored
<1>2. ASSUME NEW l \in Listeners, NEW a, Flush(l, a), UNCHANGED <<seen, queue>>
      PROVE  SeenMeansQueued' /\ MarkAfterStore'
  BY <1>2 DEF Flush, Flight
<1>3. ASSUME NEW l \in Listeners, ListenerStep(l)
      PROVE  SeenMeansQueued' /\ MarkAfterStore'
  <2>1. CASE TimerFires(l) \/ Stop(l) \/ RunEnds(l) \/ LookupRaises(l)
    BY <1>2, <2>1 DEF TimerFires, Stop, RunEnds, LookupRaises
  <2>2. CASE PublishDirect(l)
    BY <2>2 DEF PublishDirect, Flight
  <2>3. CASE ~(TimerFires(l) \/ Stop(l) \/ RunEnds(l) \/ LookupRaises(l) \/ PublishDirect(l))
    BY <1>3, <2>3 DEF ListenerStep, Start, Receive, SkipDuplicate, Buffer, Exit
  <2> QED
    BY <2>1, <2>2, <2>3
<1>4. ASSUME NEW f \in flights, DropSeen(f) \/ MarkSeen(f) \/ Fails(f)
      PROVE  SeenMeansQueued' /\ MarkAfterStore'
  BY <1>1, <1>4 DEF DropSeen, MarkSeen, Fails
<1>5. ASSUME NEW f \in flights, NotSeen(f)
      PROVE  SeenMeansQueued' /\ MarkAfterStore'
  BY <1>5 DEF NotSeen, Advance, TypeOK, Flights
<1>6. ASSUME NEW f \in flights, Publish(f)
      PROVE  SeenMeansQueued' /\ MarkAfterStore'
  BY <1>6 DEF Publish, Stored
<1>7. CASE Crash
  BY <1>7 DEF Crash
<1>8. CASE UNCHANGED vars
  BY <1>8 DEF vars
<1> QED
  BY <1>3, <1>4, <1>5, <1>6, <1>7, <1>8 DEF Next, FlightStep

\* The idempotency key is never ahead of the raw queue, whichever listener
\* marks it, whatever fails and wherever the process is killed.
THEOREM MarkedPostsQueued == Spec => []SeenMeansQueued
<1>1. Init => SeenMeansQueued /\ MarkAfterStore
  BY DEF Init, SeenMeansQueued, MarkAfterStore
<1> QED
  BY <1>1, SeenStep, TypeCorrect, PTL DEF Spec

-----------------------------------------------------------------------------
\* A buffer with events and no timer has had a failed publish.
\* No order of arrivals, timers, flushes, stops and crashes strands an album.
THEOREM AlbumsNotStranded == Spec => []StrandedOnlyByFailure
<1>1. Init => StrandedOnlyByFailure
  BY DEF Init, StrandedOnlyByFailure
<1>2. TypeOK /\ StrandedOnlyByFailure /\ [Next]_vars => StrandedOnlyByFailure'
  <2> SUFFICES ASSUME TypeOK, StrandedOnlyByFailure, [Next]_vars
               PROVE  StrandedOnlyByFailure'
    OBVIOUS
  <2> USE DEF StrandedOnlyByFailure, TypeOK, buffer, history
  <2>1. ASSUME NEW l \in Listeners, Buffer(l) PROVE StrandedOnlyByFailure'
    BY <2>1 DEF Buffer
  <2>2. ASSUME NEW l \in Listeners,
               TimerFires(l) \/ Stop(l) \/ RunEnds(l) \/ LookupRaises(l)
        PROVE  StrandedOnlyByFailure'
    BY <2>2 DEF TimerFires, Stop, RunEnds, LookupRaises, Flush
  <2>3. ASSUME NEW l \in Listeners,
               \/ Start(l) \/ (\E p \in post : Receive(l, p)) \/ SkipDuplicate(l)
               \/ PublishDirect(l) \/ Exit(l)
        PROVE  StrandedOnlyByFailure'
    BY <2>3 DEF Start, Receive, SkipDuplicate, PublishDirect, Exit
  <2>4. ASSUME NEW f \in flights,
               DropSeen(f) \/ NotSeen(f) \/ Publish(f) \/ MarkSeen(f)
        PROVE  StrandedOnlyByFailure'
    BY <2>4 DEF DropSeen, NotSeen, Publish, MarkSeen
  <2>5. ASSUME NEW f \in flights, Fails(f) PROVE StrandedOnlyByFailure'
    BY <2>5 DEF Fails, Restore
  <2>6. CASE Crash
    BY <2>6 DEF Crash
  <2>7. CASE UNCHANGED vars
    BY <2>7 DEF vars
  <2> QED
    BY <2>1, <2>2, <2>3, <2>4, <2>5, <2>6, <2>7 DEF Next, ListenerStep, FlightStep
<1> QED
  BY <1>1, <1>2, TypeCorrect, PTL DEF Spec

-----------------------------------------------------------------------------
\* A listener that has not started has handed nothing over: what a crash
\* spares, it spares empty.
IdleIsFresh == \A l \in Listeners : phase[l] = "idle" => delivered[l] = {}

\* A part that the buffer, a flight or the raw queue of the post answers for.
Answered(l) == group[l] \cup InFlight(l) \cup Queued

\* No step hands over for a listener that has not started.
LEMMA IdleIsFreshStep ==
  ASSUME TypeOK, IdleIsFresh, [Next]_vars
  PROVE  IdleIsFresh'
<1> USE DEF IdleIsFresh, TypeOK, listener, history
<1>1. ASSUME NEW l \in Listeners, Buffer(l) \/ PublishDirect(l) PROVE IdleIsFresh'
  BY <1>1 DEF Buffer, PublishDirect, Running
<1>2. ASSUME NEW l \in Listeners,
             \/ Start(l) \/ (\E p \in post : Receive(l, p)) \/ SkipDuplicate(l)
             \/ TimerFires(l) \/ Stop(l) \/ RunEnds(l) \/ LookupRaises(l) \/ Exit(l)
      PROVE  IdleIsFresh'
  BY <1>2 DEF Start, Receive, SkipDuplicate, TimerFires, Stop, RunEnds,
    LookupRaises, Exit
<1>3. ASSUME NEW f \in flights, FlightStep(f) PROVE IdleIsFresh'
  BY <1>3 DEF FlightStep, DropSeen, NotSeen, Publish, MarkSeen, Fails
<1>4. CASE Crash
  BY <1>4 DEF Crash
<1>5. CASE UNCHANGED vars
  BY <1>5 DEF vars
<1> QED
  BY <1>1, <1>2, <1>3, <1>4, <1>5 DEF Next, ListenerStep

\* A flush moves the group into a flight; nothing else of the post moves.
LEMMA FlushKeeps ==
  ASSUME TypeOK, NEW l \in Listeners, NEW a, Flush(l, a), UNCHANGED queue,
         NEW k \in Listeners
  PROVE  Answered(k) \subseteq Answered(k)'
<1>1. flights \subseteq flights'
  BY DEF Flush
<1>2. Queued' = Queued
  BY DEF Queued
<1>3. InFlight(k) \subseteq InFlight(k)'
  BY <1>1 DEF InFlight
<1>4. CASE k # l
  BY <1>2, <1>3, <1>4 DEF Answered, Flush, TypeOK
<1>5. CASE k = l
  <2>1. group[k] \subseteq InFlight(k)'
    <3>1. CASE group[k] = {}
      BY <3>1
    <3>2. CASE group[k] # {}
      <4>1. Flight(l, group[l], a) \in flights'
        BY <1>5, <3>2 DEF Flush
      <4>2. Flight(l, group[l], a).by = k /\ Flight(l, group[l], a).parts = group[k]
        BY <1>5 DEF Flight
      <4> QED
        BY <4>1, <4>2 DEF InFlight
    <3> QED
      BY <3>1, <3>2
  <2> QED
    BY <1>2, <1>3, <2>1 DEF Answered
<1> QED
  BY <1>4, <1>5

\* A step of a publish keeps what is answered for, unless the key is marked.
LEMMA FlightKeeps ==
  ASSUME TypeOK, grouped, NEW f \in flights, FlightStep(f), ~seen',
         NEW k \in Listeners
  PROVE  Answered(k) \subseteq Answered(k)'
<1>t. f \in Flights
  BY DEF TypeOK
<1>1. CASE DropSeen(f) \/ MarkSeen(f)
  BY <1>1 DEF DropSeen, MarkSeen
<1>2. ASSUME NEW a, Advance(f, a) PROVE InFlight(k) \subseteq InFlight(k)'
  <2> DEFINE g == [f EXCEPT !.at = a]
  <2>1. g.by = f.by /\ g.parts = f.parts /\ g \in flights'
    BY <1>2, <1>t DEF Advance, Flights
  <2>2. \A h \in flights : h \in flights' \/ h = f
    BY <1>2 DEF Advance
  <2> QED
    BY <2>1, <2>2 DEF InFlight
<1>3. CASE NotSeen(f)
  BY <1>2, <1>3 DEF NotSeen, Answered, Queued, buffer
<1>4. CASE Publish(f)
  <2>1. Queued \subseteq Queued'
    BY <1>4 DEF Publish, Stored, Queued
  <2> QED
    BY <1>2, <1>4, <2>1 DEF Publish, Answered, buffer
<1>5. CASE Fails(f)
  <2>1. Queued \subseteq Queued'
    BY <1>5 DEF Fails, Stored, Queued
  <2>2. flights' = flights \ {f} /\ group' = [group EXCEPT ![f.by] = @ \cup f.parts]
    BY <1>5 DEF Fails, Restore
  <2>3. InFlight(k) \subseteq InFlight(k)' \cup (IF f.by = k THEN f.parts ELSE {})
    BY <2>2 DEF InFlight
  <2>4. group[k] \cup (IF f.by = k THEN f.parts ELSE {}) \subseteq group'[k]
    BY <2>2 DEF TypeOK
  <2> QED
    BY <2>1, <2>3, <2>4 DEF Answered
<1> QED
  BY <1>1, <1>3, <1>4, <1>5 DEF FlightStep

\* No step drops a part of an album unaccounted.
LEMMA PartsAccountedStep ==
  ASSUME TypeOK, IdleIsFresh, PartsAccounted, [Next]_vars
  PROVE  PartsAccounted'
<1> SUFFICES ASSUME grouped', ~seen', NEW k \in Listeners, phase'[k] # "dead"
             PROVE  delivered'[k] \subseteq Answered(k)'
  BY DEF PartsAccounted, Answered
<1>g. grouped
  BY DEF Next, vars, source, ListenerStep, FlightStep, Start, Receive, SkipDuplicate,
    Buffer, PublishDirect, TimerFires, Stop, RunEnds, LookupRaises, Exit, Crash,
    DropSeen, NotSeen, Publish, MarkSeen, Fails
<1>s. ~seen
  BY DEF Next, vars, ListenerStep, FlightStep, Start, Receive, SkipDuplicate,
    Buffer, PublishDirect, TimerFires, Stop, RunEnds, LookupRaises, Exit, Crash,
    DropSeen, NotSeen, Publish, MarkSeen, Fails
<1>i. phase[k] # "dead" => delivered[k] \subseteq Answered(k)
  BY <1>g, <1>s DEF PartsAccounted, Answered
<1>u. ASSUME UNCHANGED <<group, flights, queue>> PROVE Answered(k)' = Answered(k)
  BY <1>u DEF Answered, InFlight, Queued
<1>1. ASSUME NEW l \in Listeners, Buffer(l)
      PROVE  delivered'[k] \subseteq Answered(k)'
  <2>1. InFlight(k)' = InFlight(k) /\ Queued' = Queued
    BY <1>1 DEF Buffer, InFlight, Queued
  <2>2. phase[k] # "dead"
    BY <1>1 DEF Buffer
  <2>3. \/ delivered'[k] = delivered[k] /\ group'[k] = group[k]
        \/ /\ delivered'[k] = delivered[k] \cup {inhand[k]}
           /\ group'[k] = group[k] \cup {inhand[k]}
    BY <1>1 DEF Buffer, TypeOK
  <2> QED
    BY <1>i, <2>1, <2>2, <2>3 DEF Answered
<1>2. ASSUME NEW l \in Listeners,
             TimerFires(l) \/ Stop(l) \/ RunEnds(l) \/ LookupRaises(l)
      PROVE  delivered'[k] \subseteq Answered(k)'
  <2>1. delivered' = delivered /\ phase[k] # "dead" /\ queue' = queue
    BY <1>2 DEF TimerFires, Stop, RunEnds, LookupRaises, Running, history, listener, TypeOK
  <2>2. \E a \in BOOLEAN : Flush(l, a)
    BY <1>2 DEF TimerFires, Stop, RunEnds, LookupRaises
  <2> QED
    BY <1>i, <2>1, <2>2, FlushKeeps
<1>3. ASSUME NEW l \in Listeners,
             \/ Start(l) \/ (\E p \in post : Receive(l, p)) \/ SkipDuplicate(l) \/ Exit(l)
      PROVE  delivered'[k] \subseteq Answered(k)'
  <2>1. delivered' = delivered /\ phase[k] # "dead"
    BY <1>3 DEF Start, Receive, SkipDuplicate, Exit, history, TypeOK
  <2> QED
    BY <1>i, <1>u, <1>3, <2>1 DEF Start, Receive, SkipDuplicate, Exit, buffer
<1>4. ASSUME NEW l \in Listeners, PublishDirect(l) PROVE FALSE
  BY <1>4, <1>g DEF PublishDirect
<1>5. ASSUME NEW f \in flights, FlightStep(f)
      PROVE  delivered'[k] \subseteq Answered(k)'
  <2>1. delivered' = delivered /\ phase' = phase
    BY <1>5, <1>g DEF FlightStep, DropSeen, NotSeen, Publish, MarkSeen, Fails,
      listener, history
  <2> QED
    BY <1>g, <1>i, <1>5, <2>1, FlightKeeps
<1>6. CASE Crash
  <2>1. phase[k] = "idle" /\ delivered' = delivered
    BY <1>6 DEF Crash, history
  <2> QED
    BY <2>1 DEF IdleIsFresh
<1>7. CASE UNCHANGED vars
  BY <1>7, <1>i, <1>u DEF vars, listener, buffer, history
<1> QED
  BY <1>1, <1>2, <1>3, <1>4, <1>5, <1>6, <1>7 DEF Next, ListenerStep

\* No part of an album handed to a living listener's publisher is lost, in any
\* interleaving of arrivals, flushes, failed publishes and other listeners: it
\* is buffered, being published or queued, or the post is marked.
THEOREM AlbumPartsAccounted == Spec => []PartsAccounted
<1>1. Init => IdleIsFresh /\ PartsAccounted
  BY DEF Init, IdleIsFresh, PartsAccounted
<1>2. /\ TypeOK /\ IdleIsFresh /\ PartsAccounted /\ [Next]_vars
      => IdleIsFresh' /\ PartsAccounted'
  BY IdleIsFreshStep, PartsAccountedStep
<1> QED
  BY <1>1, <1>2, TypeCorrect, PTL DEF Spec


-----------------------------------------------------------------------------
(* Pre-AI stage: what the parser makes of one message                      *)

\* The pre-AI module's finite sets are the library's.
LEMMA FiniteSetsOfP ==
  \A S : (P!IsFiniteSet(S) <=> IsFiniteSet(S)) /\ P!Cardinality(S) = Cardinality(S)
BY Zenon DEF IsFiniteSet, P!IsFiniteSet, Cardinality, P!Cardinality

Elements(s) == {s[i] : i \in DOMAIN s}
IsSeq(s) == s \in Seq(Elements(s))

\* A sequence is a function on 1 .. n.
LEMMA SeqIsFunction ==
  ASSUME NEW n \in Nat, NEW s, s = [i \in 1 .. n |-> s[i]]
  PROVE  IsSeq(s) /\ Len(s) = n /\ DOMAIN s = 1 .. n
<1>1. DOMAIN s = 1 .. n
  OBVIOUS
<1>2. s \in [1 .. n -> Elements(s)]
  BY <1>1 DEF Elements
<1> QED
  BY <1>1, <1>2 DEF IsSeq

\* What a sequence is.
LEMMA SeqFacts ==
  ASSUME NEW s, IsSeq(s)
  PROVE  Len(s) \in Nat /\ DOMAIN s = 1 .. Len(s)
BY DEF IsSeq

\* Every member of a finite set of numbers has its place in the ascending order.
LEMMA InOrderFacts ==
  ASSUME NEW T, T \subseteq Nat, IsFiniteSet(T)
  PROVE  /\ IsSeq(P!InOrder(T)) /\ Len(P!InOrder(T)) = Cardinality(T)
         /\ \A i \in T : \E n \in 1 .. Cardinality(T) : P!InOrder(T)[n] = i
<1> DEFINE Rank(i) == P!Cardinality({j \in T : j <= i})
<1>1. Cardinality(T) \in Nat
  BY FS_CardinalityType
<1>2. P!InOrder(T) = [n \in 1 .. Cardinality(T) |-> CHOOSE i \in T : Rank(i) = n]
  <2>1. P!InOrder(T) = [n \in 1 .. P!Cardinality(T) |-> CHOOSE i \in T : Rank(i) = n]
    BY DEF P!InOrder
  <2> QED
    BY <2>1, FiniteSetsOfP
<1>3. IsSeq(P!InOrder(T)) /\ Len(P!InOrder(T)) = Cardinality(T)
  <2>1. PICK s : s = P!InOrder(T)
    OBVIOUS
  <2>2. s = [n \in 1 .. Cardinality(T) |-> s[n]]
    BY <1>2, <2>1
  <2> QED
    BY <1>1, <2>1, <2>2, SeqIsFunction
<1>4. ASSUME NEW i \in T PROVE Rank(i) \in 1 .. Cardinality(T)
  <2>1. PICK S : S = {j \in T : j <= i}
    OBVIOUS
  <2>2. S \in SUBSET T /\ i \in S
    BY <2>1
  <2>3. IsFiniteSet(S) /\ Cardinality(S) <= Cardinality(T)
    BY <2>2, FS_Subset
  <2>4. Cardinality(S) \in Nat /\ Cardinality(S) # 0
    BY <2>2, <2>3, FS_CardinalityType, FS_EmptySet
  <2> QED
    BY <1>1, <2>1, <2>3, <2>4, FiniteSetsOfP
<1>5. ASSUME NEW i \in T, NEW k \in T, i < k PROVE Rank(i) # Rank(k)
  <2>1. PICK S : S = {j \in T : j <= i}
    OBVIOUS
  <2>2. PICK U : U = {j \in T : j <= k}
    OBVIOUS
  <2>3. \A j \in T : j <= i => j <= k
    BY <1>5
  <2>4. S \in SUBSET U /\ U \in SUBSET T
    BY <2>1, <2>2, <2>3
  <2>5. k \in U /\ k \notin S
    BY <1>5, <2>1, <2>2
  <2>6. IsFiniteSet(U)
    BY <2>4, FS_Subset
  <2>7. Cardinality(U) = Cardinality(S) => U = S
    BY <2>4, <2>6, FS_Subset
  <2> QED
    BY <2>1, <2>2, <2>5, <2>7, FiniteSetsOfP
<1>6. ASSUME NEW i \in T, NEW k \in T, Rank(i) = Rank(k) PROVE i = k
  BY <1>5, <1>6
<1>7. ASSUME NEW i \in T PROVE \E n \in 1 .. Cardinality(T) : P!InOrder(T)[n] = i
  <2> HIDE DEF Rank
  <2>1. PICK n \in 1 .. Cardinality(T) : n = Rank(i)
    BY <1>4
  <2>2. PICK k : k = CHOOSE j \in T : Rank(j) = n
    OBVIOUS
  <2>3. k \in T /\ Rank(k) = n
    BY <2>1, <2>2
  <2>4. k = i
    BY <1>6, <2>1, <2>3
  <2> QED
    BY <1>2, <2>2, <2>4
<1> QED
  BY <1>3, <1>7

\* The blocks of a text: a sequence, in which every part of the text is a block, unless the
\* recipe splits the text and does not keep the part.
LEMMA SegmentsFacts ==
  ASSUME NEW e, NEW r, IsSeq(e.segs)
  PROVE  /\ IsSeq(P!Segments(e, r))
         /\ \A i \in DOMAIN e.segs :
              \/ e.segs[i].short
              \/ ~r.keep /\ Len(e.segs) = 1
              \/ \E n \in DOMAIN P!Segments(e, r) : P!Segments(e, r)[n] = e.segs[i]
<1>1. PICK c : c = P!Chunks(e.segs, r)
  OBVIOUS
<1>2. Len(e.segs) \in Nat /\ DOMAIN e.segs = 1 .. Len(e.segs)
  BY SeqFacts
<1>3. \/ c = e.segs
      \/ c = << >> /\ ~r.keep /\ ~(Len(e.segs) > 1)
  BY <1>1 DEF P!Chunks
<1>4. IsSeq(<< >>) /\ Len(<< >>) = 0
  BY DEF IsSeq
<1>5. IsSeq(c) /\ Len(c) \in Nat /\ DOMAIN c = 1 .. Len(c)
  BY <1>3, <1>4, SeqFacts
<1>6. PICK T : T = {i \in DOMAIN c : ~c[i].short}
  OBVIOUS
<1>7. T \subseteq Nat /\ IsFiniteSet(T)
  <2>1. IsFiniteSet(1 .. Len(c))
    BY <1>5, FS_Interval
  <2>2. T \in SUBSET (1 .. Len(c))
    BY <1>5, <1>6
  <2>3. IsFiniteSet(T)
    BY <2>1, <2>2, FS_Subset
  <2>4. \A i \in 1 .. Len(c) : i \in Nat
    BY <1>5
  <2> QED
    BY <2>2, <2>3, <2>4
<1>8. PICK o : o = P!InOrder(T)
  OBVIOUS
<1>9. /\ Len(o) \in Nat /\ DOMAIN o = 1 .. Len(o)
      /\ \A i \in T : \E n \in 1 .. Len(o) : o[n] = i
  BY <1>7, <1>8, InOrderFacts, SeqFacts
<1>10. PICK s : s = P!Segments(e, r)
  OBVIOUS
<1>11. s = [n \in 1 .. Len(o) |-> c[o[n]]]
  BY <1>1, <1>6, <1>8, <1>10 DEF P!Segments
<1>12. IsSeq(s) /\ DOMAIN s = 1 .. Len(o)
  <2>1. s = [n \in 1 .. Len(o) |-> s[n]]
    BY <1>11
  <2> QED
    BY <1>9, <2>1, SeqIsFunction
<1>13. ASSUME NEW i \in DOMAIN e.segs, ~e.segs[i].short, r.keep \/ Len(e.segs) # 1
       PROVE  \E n \in DOMAIN s : s[n] = e.segs[i]
  <2>1. c = e.segs
    <3>1. Len(e.segs) >= 1
      BY <1>2
    <3>2. CASE c = << >> /\ ~r.keep /\ ~(Len(e.segs) > 1)
      <4>1. PICK n \in Nat : n = Len(e.segs)
        BY <1>2
      <4>2. n >= 1 /\ ~(n > 1)
        BY <3>1, <3>2, <4>1
      <4>3. n = 1
        BY <4>2
      <4> QED
        BY <1>13, <3>2, <4>1, <4>3
    <3> QED
      BY <1>3, <3>2
  <2>2. i \in T
    BY <1>6, <1>13, <2>1
  <2> QED
    BY <1>9, <1>11, <1>12, <2>1, <2>2
<1> QED
  BY <1>10, <1>12, <1>13

LEMMA BlocksFacts ==
  ASSUME NEW e, NEW r, IsSeq(e.segs)
  PROVE  /\ IsSeq(P!Blocks(e, r))
         /\ \A i \in DOMAIN e.segs :
              \/ P!Splits(r) /\ e.segs[i].short
              \/ P!Splits(r) /\ ~r.keep /\ Len(e.segs) = 1
              \/ /\ P!Splits(r)
                 /\ \E n \in DOMAIN P!Blocks(e, r) : P!Blocks(e, r)[n] = e.segs[i]
              \/ /\ ~P!Splits(r) /\ DOMAIN P!Blocks(e, r) = {1}
                 /\ P!Blocks(e, r)[1] = P!WholeText(e.segs)
<1>1. PICK c : c = IF P!Splits(r) THEN P!Segments(e, r)
                   ELSE IF e.segs = << >> THEN << >> ELSE << P!WholeText(e.segs) >>
  OBVIOUS
<1>2. PICK b : b = P!Blocks(e, r)
  OBVIOUS
<1>3. b = IF c = << >> /\ (e.media \/ r.empty = "emit") THEN << P!EmptyBlock >> ELSE c
  BY <1>1, <1>2 DEF P!Blocks
<1>4. \A x : IsSeq(<< x >>) /\ DOMAIN << x >> = {1} /\ << x >> # << >>
  <2> TAKE x
  <2>1. << x >> = [i \in 1 .. 1 |-> << x >>[i]]
    OBVIOUS
  <2>2. IsSeq(<< x >>) /\ DOMAIN << x >> = 1 .. 1
    BY <2>1, SeqIsFunction
  <2>3. 1 .. 1 = {1} /\ << x >> # << >>
    OBVIOUS
  <2> QED
    BY <2>2, <2>3
<1>5. IsSeq(<< >>)
  BY DEF IsSeq
<1>6. IsSeq(b)
  BY <1>1, <1>3, <1>4, <1>5, SegmentsFacts
<1>7. ASSUME NEW i \in DOMAIN e.segs
      PROVE  \/ P!Splits(r) /\ e.segs[i].short
             \/ P!Splits(r) /\ ~r.keep /\ Len(e.segs) = 1
             \/ P!Splits(r) /\ \E n \in DOMAIN b : b[n] = e.segs[i]
             \/ ~P!Splits(r) /\ DOMAIN b = {1} /\ b[1] = P!WholeText(e.segs)
  <2>1. CASE ~P!Splits(r)
    <3>1. e.segs # << >>
      OBVIOUS
    <3>2. c = << P!WholeText(e.segs) >>
      BY <1>1, <2>1, <3>1
    <3>3. b = << P!WholeText(e.segs) >>
      BY <1>3, <1>4, <3>2
    <3> QED
      BY <1>4, <2>1, <3>3
  <2>2. CASE P!Splits(r)
    <3>1. c = P!Segments(e, r)
      BY <1>1, <2>2
    <3>2. \/ e.segs[i].short
          \/ ~r.keep /\ Len(e.segs) = 1
          \/ \E n \in DOMAIN c : c[n] = e.segs[i]
      BY <3>1, SegmentsFacts
    <3>3. ASSUME NEW n \in DOMAIN c PROVE b = c
      <4>1. c # << >>
        OBVIOUS
      <4> QED
        BY <1>3, <4>1
    <3> QED
      BY <2>2, <3>2, <3>3
  <2> QED
    BY <2>1, <2>2
<1> QED
  BY <1>2, <1>6, <1>7

\* The candidates, or quarantined blocks, of a parse.
Picked(b, e, r, policy) ==
  [n \in 1 .. Len(P!WithPolicy(b, e, r, policy)) |->
     P!Candidate(b, P!WithPolicy(b, e, r, policy)[n], e, r)]

\* They are those of the blocks with the policy.
LEMMA PickedFacts ==
  ASSUME NEW b, NEW e, NEW r, NEW policy, IsSeq(b)
  PROVE  /\ IsSeq(Picked(b, e, r, policy))
         /\ Len(b) = 1 => Len(Picked(b, e, r, policy)) <= 1
         /\ \A i \in DOMAIN Picked(b, e, r, policy) : \E n :
              Picked(b, e, r, policy)[i] = P!Candidate(b, n, e, r)
         /\ \A i \in DOMAIN b : P!CandidatePolicy(b, i, e, r) = policy =>
              \E n \in DOMAIN Picked(b, e, r, policy) :
                Picked(b, e, r, policy)[n] = P!Candidate(b, i, e, r)
<1>1. Len(b) \in Nat /\ DOMAIN b = 1 .. Len(b)
  BY SeqFacts
<1>2. PICK T : T = {i \in 1 .. Len(b) : P!CandidatePolicy(b, i, e, r) = policy}
  OBVIOUS
<1>3. T \subseteq Nat /\ IsFiniteSet(T) /\ (Len(b) = 1 => Cardinality(T) <= 1)
  <2>1. IsFiniteSet(1 .. Len(b)) /\ (Len(b) = 1 => Cardinality(1 .. Len(b)) = 1)
    <3>1. 1 \in Int /\ Len(b) \in Int
      BY <1>1
    <3>2. /\ IsFiniteSet(1 .. Len(b))
          /\ Cardinality(1 .. Len(b)) = IF 1 > Len(b) THEN 0 ELSE Len(b) - 1 + 1
      BY <3>1, FS_Interval
    <3> QED
      BY <1>1, <3>2
  <2>2. T \in SUBSET (1 .. Len(b))
    BY <1>2
  <2>3. IsFiniteSet(T) /\ Cardinality(T) <= Cardinality(1 .. Len(b))
    BY <2>1, <2>2, FS_Subset
  <2> QED
    BY <1>1, <2>1, <2>2, <2>3
<1>4. PICK o : o = P!InOrder(T)
  OBVIOUS
<1>5. /\ Len(o) \in Nat /\ Len(o) = Cardinality(T)
      /\ \A i \in T : \E n \in 1 .. Len(o) : o[n] = i
  BY <1>3, <1>4, InOrderFacts, SeqFacts
<1>6. P!WithPolicy(b, e, r, policy) = o
  BY <1>2, <1>4 DEF P!WithPolicy
<1>7. PICK p : p = Picked(b, e, r, policy)
  OBVIOUS
<1>8. p = [n \in 1 .. Len(o) |-> P!Candidate(b, o[n], e, r)]
  BY <1>6, <1>7 DEF Picked
<1>9. IsSeq(p) /\ Len(p) = Len(o) /\ DOMAIN p = 1 .. Len(o)
  <2>1. p = [n \in 1 .. Len(o) |-> p[n]]
    BY <1>8
  <2> QED
    BY <1>5, <2>1, SeqIsFunction
<1>10. \A i \in DOMAIN p : \E n : p[i] = P!Candidate(b, n, e, r)
  BY <1>8, <1>9
<1>11. ASSUME NEW i \in DOMAIN b, P!CandidatePolicy(b, i, e, r) = policy
       PROVE  \E n \in DOMAIN p : p[n] = P!Candidate(b, i, e, r)
  <2>1. i \in T
    BY <1>1, <1>2, <1>11
  <2> QED
    BY <1>5, <1>8, <1>9, <2>1
<1> QED
  BY <1>3, <1>5, <1>7, <1>9, <1>10, <1>11

LEMMA CandidateFacts ==
  ASSUME NEW b, NEW i, NEW e, NEW r
  PROVE  /\ P!Candidate(b, i, e, r).listings = b[i].listings
         /\ P!Candidate(b, i, e, r).index = i
         /\ P!Candidate(b, i, e, r).raw_id =
              (r.key = "generic.single_listing" /\ Len(b) = 1 /\ ~e.changed)
BY DEF P!Candidate

\* The candidates of one message: one that keeps the message's identity is alone, and the
\* others are told apart by their index.
WellParsed(cs) ==
  /\ IsSeq(cs)
  /\ \A i, j \in DOMAIN cs :
       /\ cs[i].raw_id => i = j
       /\ cs[i].index = cs[j].index => cs[i].listings = cs[j].listings

LEMMA OneParsed ==
  ASSUME NEW x PROVE WellParsed(<< x >>) /\ IsSeq(<< x >>)
<1>1. << x >> = [i \in 1 .. 1 |-> << x >>[i]]
  OBVIOUS
<1>2. IsSeq(<< x >>) /\ DOMAIN << x >> = 1 .. 1
  BY <1>1, SeqIsFunction
<1>3. \A i, j \in 1 .. 1 : i = j
  OBVIOUS
<1> QED
  BY <1>2, <1>3 DEF WellParsed

LEMMA NoneParsed == WellParsed(<< >>) /\ IsSeq(<< >>)
BY DEF WellParsed, IsSeq

LEMMA PickedParsed ==
  ASSUME NEW b, NEW e, NEW r, NEW policy, IsSeq(b)
  PROVE  WellParsed(Picked(b, e, r, policy))
<1>1. PICK p : p = Picked(b, e, r, policy)
  OBVIOUS
<1>2. /\ IsSeq(p) /\ (Len(b) = 1 => Len(p) <= 1)
      /\ \A i \in DOMAIN p : \E n : p[i] = P!Candidate(b, n, e, r)
  BY <1>1, PickedFacts
<1>3. Len(p) \in Nat /\ DOMAIN p = 1 .. Len(p)
  BY <1>2, SeqFacts
<1>4. ASSUME NEW i \in DOMAIN p, NEW j \in DOMAIN p
      PROVE  /\ p[i].raw_id => i = j
             /\ p[i].index = p[j].index => p[i].listings = p[j].listings
  <2>1. PICK k : p[i] = P!Candidate(b, k, e, r)
    BY <1>2
  <2>2. PICK n : p[j] = P!Candidate(b, n, e, r)
    BY <1>2
  <2>3. p[i].index = k /\ p[j].index = n /\ p[i].listings = b[k].listings
          /\ p[j].listings = b[n].listings
    BY <2>1, <2>2, CandidateFacts
  <2>4. p[i].raw_id = (r.key = "generic.single_listing" /\ Len(b) = 1 /\ ~e.changed)
    BY <2>1, CandidateFacts
  <2>5. ASSUME p[i].raw_id PROVE i = j
    <3>1. Len(p) <= 1
      BY <1>2, <2>4, <2>5
    <3> QED
      BY <1>3, <3>1
  <2> QED
    BY <2>3, <2>5
<1> QED
  BY <1>1, <1>2, <1>4 DEF WellParsed

LEMMA OutcomeFacts ==
  ASSUME NEW d, NEW mode, NEW c, NEW q
  PROVE  /\ P!Outcome(d, mode, c, q).decision = d /\ P!Outcome(d, mode, c, q).mode = mode
         /\ P!Outcome(d, mode, c, q).cands = c /\ P!Outcome(d, mode, c, q).quarantined = q
BY DEF P!Outcome

\* What parse_recipe returns, case by case.
LEMMA RecipeCases ==
  ASSUME NEW e, NEW r, NEW mode, NEW o, o = P!ParseRecipe(e, r, mode),
         NEW b, b = P!Blocks(e, r)
  PROVE  /\ o.mode = mode
         /\ \/ o.decision = "buffer" /\ o.cands = << >> /\ o.quarantined = << >>
            \/ o.decision = "quarantine" /\ o.cands = << >> /\ o.quarantined = << >>
            \/ b = << >> /\ o.decision = r.empty /\ o.cands = << >> /\ o.quarantined = << >>
            \/ /\ o.cands = Picked(b, e, r, "emit")
               /\ o.quarantined = Picked(b, e, r, "quarantine")
               /\ o.cands # << >> => o.decision = "emit"
               /\ o.decision \in {"emit", "quarantine", "drop"}
<1>1. PICK c : c = Picked(b, e, r, "emit")
  OBVIOUS
<1>2. PICK q : q = Picked(b, e, r, "quarantine")
  OBVIOUS
<1>3. o = IF r.family = "buffered_thread" THEN P!Outcome("buffer", mode, << >>, << >>)
          ELSE IF P!Overflow(e, r) THEN P!Outcome("quarantine", mode, << >>, << >>)
          ELSE IF b = << >> THEN P!Outcome(r.empty, mode, << >>, << >>)
          ELSE P!Outcome(IF c # << >> THEN "emit"
                         ELSE IF q # << >> THEN "quarantine" ELSE "drop", mode, c, q)
  BY <1>1, <1>2 DEF P!ParseRecipe, Picked
<1>4. CASE o = P!Outcome("buffer", mode, << >>, << >>)
  BY <1>4, OutcomeFacts
<1>5. CASE o = P!Outcome("quarantine", mode, << >>, << >>)
  BY <1>5, OutcomeFacts
<1>6. CASE b = << >> /\ o = P!Outcome(r.empty, mode, << >>, << >>)
  BY <1>6, OutcomeFacts
<1>7. CASE o = P!Outcome(IF c # << >> THEN "emit"
                         ELSE IF q # << >> THEN "quarantine" ELSE "drop", mode, c, q)
  <2>1. /\ o.mode = mode /\ o.cands = c /\ o.quarantined = q
        /\ o.decision = IF c # << >> THEN "emit"
                        ELSE IF q # << >> THEN "quarantine" ELSE "drop"
    BY <1>7, OutcomeFacts
  <2> QED
    BY <1>1, <1>2, <2>1
<1> QED
  BY <1>3, <1>4, <1>5, <1>6, <1>7

LEMMA RecipeParsed ==
  ASSUME NEW e, NEW r, NEW mode, IsSeq(e.segs)
  PROVE  /\ WellParsed(P!ParseRecipe(e, r, mode).cands)
         /\ IsSeq(P!ParseRecipe(e, r, mode).quarantined)
<1>1. PICK o : o = P!ParseRecipe(e, r, mode)
  OBVIOUS
<1>2. PICK b : b = P!Blocks(e, r)
  OBVIOUS
<1>3. IsSeq(b)
  BY <1>2, BlocksFacts
<1>4. /\ WellParsed(Picked(b, e, r, "emit")) /\ IsSeq(Picked(b, e, r, "quarantine"))
  BY <1>3, PickedParsed, PickedFacts
<1>5. \/ o.cands = << >> /\ o.quarantined = << >>
      \/ /\ o.cands = Picked(b, e, r, "emit")
         /\ o.quarantined = Picked(b, e, r, "quarantine")
  BY <1>1, <1>2, RecipeCases
<1> QED
  BY <1>1, <1>4, <1>5, NoneParsed

LEMMA PassthroughFacts ==
  ASSUME NEW e, NEW mode
  PROVE  /\ P!Passthrough(e, mode).decision = "emit" /\ P!Passthrough(e, mode).mode = mode
         /\ WellParsed(P!Passthrough(e, mode).cands)
         /\ P!Passthrough(e, mode).quarantined = << >>
         /\ DOMAIN P!Passthrough(e, mode).cands = {1}
         /\ P!Passthrough(e, mode).cands[1].listings =
              UNION {e.segs[i].listings : i \in DOMAIN e.segs}
<1>1. PICK x : x = [listings |-> UNION {e.segs[i].listings : i \in DOMAIN e.segs},
                    index |-> 1, raw_id |-> TRUE, slot |-> 0, media |-> e.media]
  OBVIOUS
<1>2. PICK o : o = P!Passthrough(e, mode)
  OBVIOUS
<1>3. o = P!Outcome("emit", mode, << x >>, << >>)
  BY <1>1, <1>2 DEF P!Passthrough
<1>4. o.decision = "emit" /\ o.mode = mode /\ o.cands = << x >> /\ o.quarantined = << >>
  BY <1>3, OutcomeFacts
<1>5. DOMAIN << x >> = {1} /\ << x >>[1] = x
  OBVIOUS
<1>6. x.listings = UNION {e.segs[i].listings : i \in DOMAIN e.segs}
  BY <1>1
<1> QED
  BY <1>2, <1>4, <1>5, <1>6, OneParsed

\* The ways a message can be parsed.
LEMMA ParseCases ==
  ASSUME NEW e, NEW bd, NEW o, o = P!Parse(e, bd)
  PROVE  \/ /\ o.mode \in {P!ModeOf(bd), "active"} /\ o.decision = "quarantine"
            /\ o.cands = << >> /\ o.quarantined = << >>
            /\ o.mode \in P!ParserModes /\ o.mode # "disabled"
         \/ o = P!Passthrough(e, "disabled")
         \/ /\ P!ModeOf(bd) \in {"active", "shadow"}
            /\ \E r \in P!ResolveRecipe(bd) : o = P!ParseRecipe(e, r, P!ModeOf(bd))
<1>1. \A md : /\ P!RoutingError(md).mode = md /\ P!RoutingError(md).decision = "quarantine"
              /\ P!RoutingError(md).cands = << >> /\ P!RoutingError(md).quarantined = << >>
  BY OutcomeFacts DEF P!RoutingError
<1>2. CASE P!ModeOf(bd) \notin P!ParserModes
  <2>1. o = P!RoutingError("active")
    BY <1>2 DEF P!Parse
  <2> QED
    BY <1>1, <2>1 DEF P!ParserModes
<1>3. CASE P!ModeOf(bd) = "disabled"
  BY <1>3 DEF P!Parse, P!ParserModes
<1>4. CASE P!ModeOf(bd) \in {"active", "shadow"}
  <2>1. CASE \A r \in P!ResolveRecipe(bd) : r.family = "custom"
    <3>1. o = P!RoutingError(P!ModeOf(bd))
      BY <1>4, <2>1 DEF P!Parse, P!ParserModes
    <3> QED
      BY <1>1, <1>4, <3>1 DEF P!ParserModes
  <2>2. CASE ~(\A r \in P!ResolveRecipe(bd) : r.family = "custom")
    <3>1. PICK r : r = CHOOSE q \in P!ResolveRecipe(bd) : TRUE
      OBVIOUS
    <3>2. r \in P!ResolveRecipe(bd)
      BY <2>2, <3>1
    <3>3. o = P!ParseRecipe(e, r, P!ModeOf(bd))
      BY <1>4, <2>2, <3>1 DEF P!Parse, P!ParserModes
    <3> QED
      BY <1>4, <3>2, <3>3
  <2> QED
    BY <2>1, <2>2
<1> QED
  BY <1>2, <1>3, <1>4 DEF P!ParserModes

\* A recipe whose policies are those of the contract sorts every block, and drops one only where
\* a policy says so.
LEMMA PolicyFacts ==
  ASSUME NEW b, NEW n, NEW e, NEW r,
         {r.unmatched, r.below, r.empty, r.excluded} \subseteq P!Policies
  PROVE  /\ P!CandidatePolicy(b, n, e, r) \in {"emit", "quarantine", "drop"}
         /\ P!CandidatePolicy(b, n, e, r) = "drop" =>
              "drop" \in {r.unmatched, r.below, r.empty} \/ (b[n].excluded /\ r.excluded = "drop")
<1>1. /\ r.unmatched \in P!Policies /\ r.below \in P!Policies
      /\ r.empty \in P!Policies /\ r.excluded \in P!Policies
  OBVIOUS
<1>2. PICK p : p = P!FilterPolicy(b[n], e, r)
  OBVIOUS
<1>3. /\ p \in {"emit", "quarantine", "drop"}
      /\ p = "drop" =>
           "drop" \in {r.unmatched, r.below, r.empty} \/ (b[n].excluded /\ r.excluded = "drop")
  BY <1>1, <1>2 DEF P!FilterPolicy, P!Policies
<1>4. \/ P!CandidatePolicy(b, n, e, r) = "quarantine"
      \/ P!CandidatePolicy(b, n, e, r) = r.below
      \/ P!CandidatePolicy(b, n, e, r) = p
  BY <1>2 DEF P!CandidatePolicy
<1> QED
  BY <1>1, <1>3, <1>4 DEF P!Policies

\* What the worker sets out with for message m.
Out(m) == P!Parse(EventOf[m], BindingOf[m])
Quar(m) == P!Quarantines(EventOf[m], Out(m))
Cands(m) == IF P!EffectiveOf(m).decision = "emit" THEN P!EffectiveOf(m).cands ELSE << >>

\* What the pre-AI module assumes of its constants, by name.
LEMMA MessageFacts ==
  ASSUME P!Constants, NEW m \in Messages
  PROVE  /\ IsSeq(EventOf[m].segs)
         /\ \A r \in P!ResolveRecipe(BindingOf[m]) :
              {r.unmatched, r.below, r.empty, r.excluded} \subseteq P!Policies
         /\ m # P!Unset
         /\ \A n \in Messages :
              OriginOf[m] # P!Unset /\ OriginOf[m] = OriginOf[n] =>
                P!ListingsOf(m) = P!ListingsOf(n)
BY DEF P!Constants, IsSeq, Elements

LEMMA MessageParsed ==
  ASSUME P!Constants, NEW m \in Messages
  PROVE  WellParsed(P!EffectiveOf(m).cands) /\ IsSeq(Quar(m)) /\ IsSeq(Cands(m))
<1>1. PICK e : e = EventOf[m]
  OBVIOUS
<1>2. PICK o : o = Out(m)
  OBVIOUS
<1>3. IsSeq(e.segs) /\ o = P!Parse(e, BindingOf[m])
  BY <1>1, <1>2, MessageFacts DEF Out
<1>4. WellParsed(o.cands) /\ IsSeq(o.quarantined)
  <2>1. CASE o.cands = << >> /\ o.quarantined = << >>
    BY <2>1, NoneParsed
  <2>2. CASE o = P!Passthrough(e, "disabled")
    BY <2>2, PassthroughFacts, NoneParsed
  <2>3. CASE \E r \in P!ResolveRecipe(BindingOf[m]) :
               o = P!ParseRecipe(e, r, P!ModeOf(BindingOf[m]))
    BY <1>3, <2>3, RecipeParsed
  <2> QED
    BY <1>3, <2>1, <2>2, <2>3, ParseCases
<1>5. \A mode : WellParsed(P!Passthrough(e, mode).cands)
  BY PassthroughFacts
<1>6. PICK f : f = P!EffectiveOf(m)
  OBVIOUS
<1>7. f = P!Passthrough(e, "shadow") \/ f = P!Passthrough(e, "active") \/ f = o
  BY <1>1, <1>2, <1>6 DEF P!EffectiveOf, P!Effective, Out
<1>8. WellParsed(f.cands)
  BY <1>4, <1>5, <1>7
<1>9. \/ Quar(m) = << >> \/ Quar(m) = o.quarantined
      \/ Quar(m) = P!Passthrough(e, "active").cands
  BY <1>1, <1>2 DEF Quar, P!Quarantines
<1>10. IsSeq(Quar(m))
  BY <1>4, <1>5, <1>9, NoneParsed DEF WellParsed
<1>11. IsSeq(Cands(m))
  BY <1>6, <1>8, NoneParsed DEF Cands, WellParsed
<1> QED
  BY <1>6, <1>8, <1>10, <1>11

\* Listing l is among the listings of a sequence of candidates or quarantined blocks.
Tells(s, l) == \E i \in DOMAIN s : l \in s[i].listings

\* Every listing of a message is in a candidate or in a block for quarantine, or the recipe asked
\* for it to be dropped.
LEMMA MessageCovered ==
  ASSUME P!Constants, NEW m \in Messages, NEW l \in P!ListingsOf(m)
  PROVE  Tells(Quar(m), l) \/ Tells(Cands(m), l) \/ P!DropAsked(m, l)
<1>1. PICK e : e = EventOf[m]
  OBVIOUS
<1>2. PICK bd : bd = BindingOf[m]
  OBVIOUS
<1>3. PICK o : o = Out(m)
  OBVIOUS
<1>4. IsSeq(e.segs) /\ o = P!Parse(e, bd) /\ P!ModeOf(bd) = P!ModeOf(BindingOf[m])
  BY <1>1, <1>2, <1>3, MessageFacts DEF Out
<1>5. PICK i \in DOMAIN e.segs : l \in e.segs[i].listings
  BY <1>1 DEF P!ListingsOf
<1>6. \A mode : Tells(P!Passthrough(e, mode).cands, l)
  BY <1>5, PassthroughFacts DEF Tells
<1>7. PICK f : f = P!EffectiveOf(m)
  OBVIOUS
<1>8. f = P!Effective(e, o)
  BY <1>1, <1>3, <1>7 DEF P!EffectiveOf, Out
<1>9. \A mode : f = P!Passthrough(e, mode) => Tells(Cands(m), l)
  BY <1>6, <1>7, PassthroughFacts DEF Cands
<1>10. ASSUME o.mode = "active", o.decision = "quarantine", o.quarantined = << >>
       PROVE  Tells(Quar(m), l)
  <2>1. Quar(m) = P!Passthrough(e, "active").cands
    BY <1>1, <1>3, <1>10 DEF Quar, P!Quarantines
  <2> QED
    BY <1>6, <2>1
<1>11. CASE o.mode = "shadow"
  <2>1. f = P!Passthrough(e, "shadow")
    BY <1>8, <1>11 DEF P!Effective
  <2> QED
    BY <1>9, <2>1
<1>12. CASE o = P!Passthrough(e, "disabled")
  <2>1. f = o
    BY <1>8, <1>12, PassthroughFacts DEF P!Effective
  <2> QED
    BY <1>9, <1>12, <2>1
<1>13. ASSUME NEW r \in P!ResolveRecipe(bd), o = P!ParseRecipe(e, r, "active")
       PROVE  Tells(Quar(m), l) \/ Tells(Cands(m), l) \/ P!DropAsked(m, l)
  <2>1. PICK b : b = P!Blocks(e, r)
    OBVIOUS
  <2>2. /\ o.mode = "active"
        /\ \/ o.decision = "buffer" /\ o.cands = << >> /\ o.quarantined = << >>
           \/ o.decision = "quarantine" /\ o.cands = << >> /\ o.quarantined = << >>
           \/ b = << >> /\ o.decision = r.empty /\ o.cands = << >> /\ o.quarantined = << >>
           \/ /\ o.cands = Picked(b, e, r, "emit")
              /\ o.quarantined = Picked(b, e, r, "quarantine")
              /\ o.cands # << >> => o.decision = "emit"
              /\ o.decision \in {"emit", "quarantine", "drop"}
    BY <1>13, <2>1, RecipeCases
  <2>3. {r.unmatched, r.below, r.empty, r.excluded} \subseteq P!Policies
    BY <1>2, <1>13, MessageFacts
  <2>4. PICK own : own = {k \in DOMAIN e.segs : l \in e.segs[k].listings}
    OBVIOUS
  <2>5. \/ "drop" \in {r.unmatched, r.below, r.empty}
        \/ r.excluded = "drop"
             /\ \E k \in (IF P!Splits(r) THEN own ELSE DOMAIN e.segs) : e.segs[k].excluded
        \/ P!Splits(r) /\ \E k \in own : e.segs[k].short
        \/ P!Splits(r) /\ ~r.keep /\ Len(e.segs) = 1
        => P!DropAsked(m, l)
    BY <1>1, <1>2, <1>13, <2>4 DEF P!DropAsked
  <2>6. CASE o.decision = "buffer"
    <3>1. f = P!Passthrough(e, "active")
      BY <1>8, <2>2, <2>6 DEF P!Effective
    <3> QED
      BY <1>9, <3>1
  <2>7. CASE b = << >> /\ o.decision = r.empty /\ o.quarantined = << >>
    <3>1. r.empty # "emit"
      BY <2>1, <2>7 DEF P!Blocks
    <3>2. r.empty = "quarantine" \/ r.empty = "drop"
      BY <2>3, <3>1 DEF P!Policies
    <3> QED
      BY <1>10, <2>2, <2>5, <2>7, <3>2
  <2>8. CASE /\ o.cands = Picked(b, e, r, "emit")
             /\ o.quarantined = Picked(b, e, r, "quarantine")
             /\ o.cands # << >> => o.decision = "emit"
             /\ o.decision \in {"emit", "quarantine", "drop"}
    <3>1. f = o
      BY <1>8, <2>2, <2>8 DEF P!Effective
    <3>2. Tells(o.cands, l) => Tells(Cands(m), l)
      <4>1. Tells(o.cands, l) => o.cands # << >>
        BY DEF Tells
      <4> QED
        BY <1>7, <2>8, <3>1, <4>1 DEF Cands
    <3>3. Tells(o.quarantined, l) => Tells(Quar(m), l)
      <4>1. Tells(o.quarantined, l) => o.quarantined # << >>
        BY DEF Tells
      <4> QED
        BY <1>1, <1>3, <2>2, <4>1 DEF Quar, P!Quarantines
    <3>4. IsSeq(b)
      BY <1>4, <2>1, BlocksFacts
    <3>5. ASSUME NEW n \in DOMAIN b, l \in b[n].listings
          PROVE  \/ Tells(Quar(m), l) \/ Tells(Cands(m), l)
                 \/ "drop" \in {r.unmatched, r.below, r.empty}
                 \/ b[n].excluded /\ r.excluded = "drop"
      <4>1. \A p \in {"emit", "quarantine"} :
              P!CandidatePolicy(b, n, e, r) = p => Tells(Picked(b, e, r, p), l)
        BY <3>4, <3>5, PickedFacts, CandidateFacts DEF Tells
      <4>2. /\ P!CandidatePolicy(b, n, e, r) \in {"emit", "quarantine", "drop"}
            /\ P!CandidatePolicy(b, n, e, r) = "drop" =>
                 \/ "drop" \in {r.unmatched, r.below, r.empty}
                 \/ b[n].excluded /\ r.excluded = "drop"
        BY <2>3, PolicyFacts
      <4> QED
        BY <2>8, <3>2, <3>3, <4>1, <4>2
    <3>6. \/ P!Splits(r) /\ e.segs[i].short
          \/ P!Splits(r) /\ ~r.keep /\ Len(e.segs) = 1
          \/ P!Splits(r) /\ \E n \in DOMAIN b : b[n] = e.segs[i]
          \/ ~P!Splits(r) /\ DOMAIN b = {1} /\ b[1] = P!WholeText(e.segs)
      BY <1>4, <2>1, BlocksFacts
    <3>7. i \in own
      BY <1>5, <2>4
    <3>8. CASE P!Splits(r) /\ \E n \in DOMAIN b : b[n] = e.segs[i]
      BY <1>5, <2>5, <3>5, <3>7, <3>8
    <3>9. CASE ~P!Splits(r) /\ DOMAIN b = {1} /\ b[1] = P!WholeText(e.segs)
      <4>1. l \in b[1].listings
        BY <1>5, <3>9 DEF P!WholeText
      <4>2. b[1].excluded => \E k \in DOMAIN e.segs : e.segs[k].excluded
        BY <3>9 DEF P!WholeText
      <4> QED
        BY <2>5, <3>5, <3>9, <4>1, <4>2
    <3> QED
      BY <2>5, <3>6, <3>7, <3>8, <3>9
  <2> QED
    BY <1>10, <2>2, <2>6, <2>7, <2>8
<1>14. CASE /\ o.mode \in {P!ModeOf(bd), "active"} /\ o.decision = "quarantine"
            /\ o.cands = << >> /\ o.quarantined = << >>
            /\ o.mode \in P!ParserModes /\ o.mode # "disabled"
  BY <1>10, <1>11, <1>14 DEF P!ParserModes
<1>15. ASSUME NEW r \in P!ResolveRecipe(bd), o = P!ParseRecipe(e, r, "shadow")
       PROVE  o.mode = "shadow"
  BY <1>15, RecipeCases
<1> QED
  BY <1>4, <1>11, <1>12, <1>13, <1>14, <1>15, ParseCases

-----------------------------------------------------------------------------
(* Pre-AI stage: what the worker holds, its index and the AI queue         *)

\* The events that candidates of the messages can become.
Events == UNION {{P!ToEvent(m, c) : c \in Elements(P!EffectiveOf(m).cands)} : m \in Messages}

RawStatus == {"new", "ready", "taken", "acked", "dead"}
Sent == [event : Events, by : Workers,
         decision : {"high_confidence_duplicate", "needs_reviewable_signal", "proceed_to_ai"}]

\* What a worker may hold of message m: it adds the signals of the candidate it published.
OwnWork(m) ==
  {x \in [msg : {m}, quar : Seq(Elements(Quar(m))),
          cands : Seq(Elements(P!EffectiveOf(m).cands)), adding : BOOLEAN] :
     x.adding => x.quar = << >> /\ x.cands # << >>}
Procs == {P!Idle} \cup UNION {OwnWork(m) : m \in Messages}

PreType ==
  /\ raw \in [Messages -> RawStatus]
  /\ proc \in [Workers -> Procs]
  /\ index \in [Workers -> Seq(Events)]
  /\ ai \in Seq(Sent)

LEMMA ProcFacts ==
  ASSUME P!Constants, NEW x \in Procs
  PROVE  /\ x # P!Idle <=> x.msg # P!Unset
         /\ x # P!Idle => /\ x.msg \in Messages /\ x \in OwnWork(x.msg)
                          /\ x.quar \in Seq(Elements(Quar(x.msg)))
                          /\ x.cands \in Seq(Elements(P!EffectiveOf(x.msg).cands))
                          /\ x.adding \in BOOLEAN
                          /\ x.adding => x.quar = << >> /\ x.cands # << >>
         /\ x.cands # << >> \/ x.quar # << >> \/ x.adding => x # P!Idle
<1>1. /\ P!Idle.msg = P!Unset /\ P!Idle.cands = << >> /\ P!Idle.quar = << >>
      /\ P!Idle.adding = FALSE
  BY DEF P!Idle
<1>2. ASSUME x # P!Idle
      PROVE  /\ x.msg \in Messages /\ x \in OwnWork(x.msg)
             /\ x.quar \in Seq(Elements(Quar(x.msg)))
             /\ x.cands \in Seq(Elements(P!EffectiveOf(x.msg).cands))
             /\ x.adding \in BOOLEAN
             /\ x.adding => x.quar = << >> /\ x.cands # << >>
  <2>1. PICK m \in Messages : x \in OwnWork(m)
    BY <1>2 DEF Procs
  <2>2. x.msg = m
    BY <2>1 DEF OwnWork
  <2> QED
    BY <2>1, <2>2 DEF OwnWork
<1>3. x # P!Idle => x.msg # P!Unset
  BY <1>2, MessageFacts
<1> QED
  BY <1>1, <1>2, <1>3

\* The event of a candidate.
LEMMA EventFacts ==
  ASSUME NEW m, NEW c, NEW e, e = P!ToEvent(m, c)
  PROVE  /\ e.parent = m /\ e.origin = OriginOf[m] /\ e.text = c.listings
         /\ c.raw_id => e.key = << m >>
         /\ ~c.raw_id => e.key = << m, c.index >>
         /\ Len(P!EffectiveOf(m).cands) > 1 => e.slot = c.index
<1>1. e.parent = m /\ e.origin = OriginOf[m] /\ e.text = c.listings
  BY DEF P!ToEvent
<1>2. e.key = IF c.raw_id THEN << m >> ELSE << m, c.index >>
  BY DEF P!ToEvent
<1>3. ASSUME Len(P!EffectiveOf(m).cands) > 1 PROVE e.slot = c.index
  BY <1>3 DEF P!ToEvent
<1> QED
  BY <1>1, <1>2, <1>3

\* Events of one message with one key tell of the same listings, and those with different keys
\* have different identities.
LEMMA EventsOfMessage ==
  ASSUME P!Constants, NEW e \in Events, NEW f \in Events, e.parent = f.parent
  PROVE  /\ e.parent \in Messages
         /\ e.key = f.key => e.text = f.text
         /\ e.key # f.key => e.slot # f.slot
<1>1. PICK m \in Messages :
        \E c \in Elements(P!EffectiveOf(m).cands) : e = P!ToEvent(m, c)
  BY DEF Events
<1>2. PICK n \in Messages :
        \E d \in Elements(P!EffectiveOf(n).cands) : f = P!ToEvent(n, d)
  BY DEF Events
<1>c. PICK c \in Elements(P!EffectiveOf(m).cands) : e = P!ToEvent(m, c)
  BY <1>1
<1>d. PICK d \in Elements(P!EffectiveOf(n).cands) : f = P!ToEvent(n, d)
  BY <1>2
<1>e. /\ e.parent = m /\ e.text = c.listings
      /\ ~c.raw_id => e.key = << m, c.index >>
      /\ Len(P!EffectiveOf(m).cands) > 1 => e.slot = c.index
  BY <1>c, EventFacts
<1>f. /\ f.parent = n /\ f.text = d.listings
      /\ ~d.raw_id => f.key = << n, d.index >>
      /\ Len(P!EffectiveOf(n).cands) > 1 => f.slot = d.index
  BY <1>d, EventFacts
<1>3. n = m /\ e.parent = m
  BY <1>e, <1>f
<1>4. PICK cs : cs = P!EffectiveOf(m).cands
  OBVIOUS
<1>5. WellParsed(cs)
  BY <1>4, MessageParsed
<1>6. PICK i \in DOMAIN cs, j \in DOMAIN cs : c = cs[i] /\ d = cs[j]
  BY <1>3, <1>4 DEF Elements
<1>7. Len(cs) \in Nat /\ DOMAIN cs = 1 .. Len(cs)
  BY <1>5, SeqFacts DEF WellParsed
<1>8. CASE c = d
  BY <1>c, <1>d, <1>3, <1>8
<1>9. CASE c # d
  <2>1. i # j /\ ~c.raw_id /\ ~d.raw_id
    BY <1>5, <1>6, <1>9 DEF WellParsed
  <2>2. Len(cs) > 1
    BY <1>7, <2>1
  <2>3. e.key = << m, c.index >> /\ f.key = << m, d.index >>
    BY <1>e, <1>f, <1>3, <2>1
  <2>4. e.slot = c.index /\ f.slot = d.index
    BY <1>e, <1>f, <1>3, <1>4, <2>2
  <2>5. c.index = d.index => c.listings = d.listings
    BY <1>5, <1>6 DEF WellParsed
  <2>6. e.text = c.listings /\ f.text = d.listings
    BY <1>e, <1>f, <1>3
  <2> QED
    BY <1>3, <2>3, <2>4, <2>5, <2>6
<1> QED
  BY <1>3, <1>8, <1>9

\* What a worker that holds candidates is about to publish.
LEMMA CurrentFacts ==
  ASSUME P!Constants, PreType, NEW w \in Workers, proc[w].cands # << >>
  PROVE  /\ proc[w] # P!Idle /\ proc[w].msg \in Messages
         /\ P!Current(w) = P!ToEvent(proc[w].msg, Head(proc[w].cands))
         /\ P!Current(w) \in Events
         /\ P!Current(w).parent = proc[w].msg /\ P!Current(w).origin = OriginOf[proc[w].msg]
         /\ P!Current(w).text = Head(proc[w].cands).listings
<1>1. PICK x \in Procs : x = proc[w]
  BY DEF PreType
<1>2. /\ x # P!Idle /\ x.msg \in Messages
      /\ x.cands \in Seq(Elements(P!EffectiveOf(x.msg).cands))
  BY <1>1, ProcFacts
<1>3. Head(x.cands) \in Elements(P!EffectiveOf(x.msg).cands)
  BY <1>1, <1>2
<1>4. P!Current(w) = P!ToEvent(x.msg, Head(x.cands))
  BY <1>1 DEF P!Current
<1>5. P!Current(w) \in Events
  BY <1>2, <1>3, <1>4 DEF Events
<1>6. PICK e, c : e = P!Current(w) /\ c = Head(x.cands)
  OBVIOUS
<1>7. e.parent = x.msg /\ e.origin = OriginOf[x.msg] /\ e.text = c.listings
  BY <1>4, <1>6, EventFacts
<1> QED
  BY <1>1, <1>2, <1>4, <1>5, <1>6, <1>7

\* What is published.
LEMMA PublishedFacts ==
  ASSUME P!Constants, PreType, NEW w \in Workers, proc[w].cands # << >>
  PROVE  P!Published(w) \in Seq(Sent)
<1>1. P!Decision(P!Current(w), index[w]) \in
        {"high_confidence_duplicate", "needs_reviewable_signal", "proceed_to_ai"}
  BY DEF P!Decision
<1>2. PICK d \in {"high_confidence_duplicate", "needs_reviewable_signal", "proceed_to_ai"} :
        d = P!Decision(P!Current(w), index[w])
  BY <1>1
<1>3. PICK e \in Events : e = P!Current(w)
  BY CurrentFacts
<1>4. [event |-> e, decision |-> d, by |-> w] \in Sent
  BY DEF Sent
<1>5. P!Published(w) = Append(ai, [event |-> e, decision |-> d, by |-> w])
  BY <1>2, <1>3 DEF P!Published
<1> QED
  BY <1>4, <1>5 DEF PreType

Work(m, q, c, a) == [msg |-> m, quar |-> q, cands |-> c, adding |-> a]

\* The field updates of the worker's actions, as whole records.
LEMMA WorkUpdates ==
  ASSUME P!Constants, PreType, NEW w \in Workers, NEW x, x = proc[w], x # P!Idle
  PROVE  /\ [proc EXCEPT ![w].quar = Tail(@)]
              = [proc EXCEPT ![w] = Work(x.msg, Tail(x.quar), x.cands, x.adding)]
         /\ [proc EXCEPT ![w].cands = Tail(@)]
              = [proc EXCEPT ![w] = Work(x.msg, x.quar, Tail(x.cands), x.adding)]
         /\ [proc EXCEPT ![w].adding = TRUE]
              = [proc EXCEPT ![w] = Work(x.msg, x.quar, x.cands, TRUE)]
         /\ [proc EXCEPT ![w].cands = Tail(@), ![w].adding = FALSE]
              = [proc EXCEPT ![w] = Work(x.msg, x.quar, Tail(x.cands), FALSE)]
<1>1. proc \in [Workers -> Procs] /\ x \in Procs
  BY DEF PreType
<1>2. x \in OwnWork(x.msg)
  BY <1>1, ProcFacts
<1>3. x = Work(x.msg, x.quar, x.cands, x.adding)
  BY <1>2 DEF OwnWork, Work
<1>4. PICK m, q, c, a : x = Work(m, q, c, a)
  BY <1>3
<1>u. ASSUME NEW d, NEW y
      PROVE  /\ [Work(m, q, c, a) EXCEPT !.quar = y] = Work(m, y, c, a)
             /\ [Work(m, q, c, a) EXCEPT !.cands = y] = Work(m, q, y, a)
             /\ [Work(m, q, d, a) EXCEPT !.adding = y] = Work(m, q, d, y)
  BY DEF Work
<1>5. /\ [Work(m, q, c, a) EXCEPT !.quar = Tail(q)] = Work(m, Tail(q), c, a)
      /\ [Work(m, q, c, a) EXCEPT !.cands = Tail(c)] = Work(m, q, Tail(c), a)
      /\ [Work(m, q, c, a) EXCEPT !.adding = TRUE] = Work(m, q, c, TRUE)
      /\ [Work(m, q, Tail(c), a) EXCEPT !.adding = FALSE] = Work(m, q, Tail(c), FALSE)
  BY <1>u, Zenon
<1>6. /\ [x EXCEPT !.quar = Tail(q)] = Work(m, Tail(q), c, a)
      /\ [x EXCEPT !.cands = Tail(c)] = Work(m, q, Tail(c), a)
      /\ [x EXCEPT !.adding = TRUE] = Work(m, q, c, TRUE)
  BY <1>4, <1>5, Zenon
<1>7. [[x EXCEPT !.cands = Tail(c)] EXCEPT !.adding = FALSE] = Work(m, q, Tail(c), FALSE)
  BY <1>5, <1>6, Zenon
<1>8. x.msg = m /\ x.quar = q /\ x.cands = c /\ x.adding = a
  BY <1>4 DEF Work
<1>9. [proc EXCEPT ![w].cands = Tail(@), ![w].adding = FALSE]
        = [proc EXCEPT ![w] = [[x EXCEPT !.cands = Tail(x.cands)] EXCEPT !.adding = FALSE]]
  BY <1>1
<1> QED
  BY <1>1, <1>6, <1>7, <1>8, <1>9

LEMMA TailFacts ==
  ASSUME NEW S, NEW s \in Seq(S), s # << >>
  PROVE  /\ Tail(s) \in Seq(S) /\ Head(s) \in S
         /\ \A i \in DOMAIN s : s[i] = Head(s) \/ \E j \in DOMAIN Tail(s) : Tail(s)[j] = s[i]
         /\ \A j \in DOMAIN Tail(s) : \E i \in DOMAIN s : Tail(s)[j] = s[i]
<1>1. PICK n \in Nat : n = Len(s) /\ DOMAIN s = 1 .. n
  OBVIOUS
<1>2. n # 0
  BY <1>1
<1>3. Tail(s) \in Seq(S) /\ Head(s) \in S /\ Head(s) = s[1]
  OBVIOUS
<1>4. Len(Tail(s)) = n - 1 /\ \A j \in 1 .. n - 1 : Tail(s)[j] = s[j + 1]
  BY <1>1, <1>2
<1>5. DOMAIN Tail(s) = 1 .. n - 1
  BY <1>3, <1>4
<1>6. ASSUME NEW i \in 1 .. n, i # 1 PROVE i - 1 \in 1 .. n - 1 /\ Tail(s)[i - 1] = s[i]
  <2>1. i - 1 \in 1 .. n - 1 /\ (i - 1) + 1 = i
    BY <1>6
  <2> QED
    BY <1>4, <2>1
<1>7. ASSUME NEW j \in 1 .. n - 1 PROVE j + 1 \in 1 .. n
  OBVIOUS
<1> QED
  BY <1>1, <1>3, <1>4, <1>5, <1>6, <1>7

LEMMA WorkTyped ==
  ASSUME NEW m \in Messages, NEW q \in Seq(Elements(Quar(m))),
         NEW c \in Seq(Elements(P!EffectiveOf(m).cands)), NEW a \in BOOLEAN,
         a => q = << >> /\ c # << >>
  PROVE  Work(m, q, c, a) \in Procs
<1>1. Work(m, q, c, a) \in OwnWork(m)
  BY DEF Work, OwnWork
<1> QED
  BY <1>1 DEF Procs

\* The message and the work of a worker that is not idle.
LEMMA HeldFacts ==
  ASSUME P!Constants, PreType, NEW w \in Workers, NEW x, x = proc[w], x # P!Idle
  PROVE  /\ x.msg \in Messages /\ x.adding \in BOOLEAN
         /\ x.adding => x.quar = << >> /\ x.cands # << >>
         /\ x.quar \in Seq(Elements(Quar(x.msg)))
         /\ x.cands \in Seq(Elements(P!EffectiveOf(x.msg).cands))
         /\ x.quar # << >> => Tail(x.quar) \in Seq(Elements(Quar(x.msg)))
         /\ x.cands # << >> => Tail(x.cands) \in Seq(Elements(P!EffectiveOf(x.msg).cands))
<1>1. x \in Procs
  BY DEF PreType
<1>2. /\ x.msg \in Messages /\ x.adding \in BOOLEAN
      /\ x.adding => x.quar = << >> /\ x.cands # << >>
      /\ x.quar \in Seq(Elements(Quar(x.msg)))
      /\ x.cands \in Seq(Elements(P!EffectiveOf(x.msg).cands))
  BY <1>1, ProcFacts
<1>3. PICK Q, C : Q = Elements(Quar(x.msg)) /\ C = Elements(P!EffectiveOf(x.msg).cands)
  OBVIOUS
<1>4. /\ x.quar # << >> => Tail(x.quar) \in Seq(Q)
      /\ x.cands # << >> => Tail(x.cands) \in Seq(C)
  BY <1>2, <1>3, TailFacts
<1> QED
  BY <1>2, <1>3, <1>4

\* What a worker holds of a message it takes.
LEMMA TakenFacts ==
  ASSUME P!Constants, NEW w, NEW m \in Messages, P!Take(w, m)
  PROVE  /\ proc' = [proc EXCEPT ![w] = Work(m, Quar(m), Cands(m), FALSE)]
         /\ Quar(m) \in Seq(Elements(Quar(m)))
         /\ Cands(m) \in Seq(Elements(P!EffectiveOf(m).cands))
<1>1. proc' = [proc EXCEPT ![w] = Work(m, Quar(m), Cands(m), FALSE)]
  BY DEF P!Take, Work, Quar, Cands, Out, P!EffectiveOf
<1>2. IsSeq(P!EffectiveOf(m).cands) /\ IsSeq(Quar(m))
  BY MessageParsed DEF WellParsed
<1>3. Cands(m) \in Seq(Elements(P!EffectiveOf(m).cands))
  <2>1. PICK s : s = P!EffectiveOf(m).cands
    OBVIOUS
  <2>2. s \in Seq(Elements(s)) /\ << >> \in Seq(Elements(s))
    BY <1>2, <2>1 DEF IsSeq
  <2>3. Cands(m) = s \/ Cands(m) = << >>
    BY <2>1 DEF Cands
  <2> QED
    BY <2>1, <2>2, <2>3
<1> QED
  BY <1>1, <1>2, <1>3 DEF IsSeq

LEMMA PreTypeStep ==
  ASSUME P!Constants, PreType, P!Next
  PROVE  PreType'
<1>1. CASE \E m \in Messages : P!Arrive(m)
  BY <1>1 DEF P!Arrive, PreType, RawStatus
<1>2. ASSUME NEW w \in Workers, NEW m \in Messages, P!Take(w, m)
      PROVE  PreType'
  <2>1. Work(m, Quar(m), Cands(m), FALSE) \in Procs
    BY <1>2, TakenFacts, WorkTyped
  <2>2. proc' = [proc EXCEPT ![w] = Work(m, Quar(m), Cands(m), FALSE)]
    BY <1>2, TakenFacts
  <2>3. raw' \in [Messages -> RawStatus] /\ UNCHANGED << index, ai >>
    BY <1>2 DEF P!Take, PreType, RawStatus
  <2> QED
    BY <2>1, <2>2, <2>3 DEF PreType
<1>3. ASSUME NEW w \in Workers, P!PublishQuarantine(w)
      PROVE  PreType'
  <2>1. PICK x : x = proc[w] /\ x # P!Idle /\ x.quar # << >>
    BY <1>3 DEF P!PublishQuarantine
  <2>2. Work(x.msg, Tail(x.quar), x.cands, x.adding) \in Procs
    BY <2>1, HeldFacts, WorkTyped
  <2>3. proc' = [proc EXCEPT ![w] = Work(x.msg, Tail(x.quar), x.cands, x.adding)]
    BY <1>3, <2>1, WorkUpdates DEF P!PublishQuarantine
  <2> QED
    BY <1>3, <2>2, <2>3 DEF P!PublishQuarantine, PreType
<1>4. ASSUME NEW w \in Workers, P!SkipDuplicate(w)
      PROVE  PreType'
  <2>1. PICK x : x = proc[w] /\ x # P!Idle /\ x.cands # << >> /\ ~x.adding
    BY <1>4, CurrentFacts DEF P!SkipDuplicate, P!AtCandidate
  <2>2. Work(x.msg, x.quar, Tail(x.cands), x.adding) \in Procs
    BY <2>1, HeldFacts, WorkTyped
  <2>3. proc' = [proc EXCEPT ![w] = Work(x.msg, x.quar, Tail(x.cands), x.adding)]
    BY <1>4, <2>1, WorkUpdates DEF P!SkipDuplicate
  <2> QED
    BY <1>4, <2>2, <2>3 DEF P!SkipDuplicate, PreType
<1>5. ASSUME NEW w \in Workers, P!PublishCandidate(w)
      PROVE  PreType'
  <2>1. PICK x : x = proc[w] /\ x # P!Idle /\ x.cands # << >> /\ x.quar = << >>
    BY <1>5, CurrentFacts DEF P!PublishCandidate, P!AtCandidate
  <2>2. Work(x.msg, x.quar, x.cands, TRUE) \in Procs
    BY <2>1, HeldFacts, WorkTyped
  <2>3. proc' = [proc EXCEPT ![w] = Work(x.msg, x.quar, x.cands, TRUE)]
    BY <1>5, <2>1, WorkUpdates DEF P!PublishCandidate
  <2>4. ai' \in Seq(Sent)
    BY <1>5, <2>1, PublishedFacts DEF P!PublishCandidate
  <2> QED
    BY <1>5, <2>2, <2>3, <2>4 DEF P!PublishCandidate, PreType
<1>f. ASSUME NEW w \in Workers, P!Failed(w), proc[w] # P!Idle
      PROVE  /\ raw' \in [Messages -> RawStatus]
             /\ proc' \in [Workers -> Procs]
  <2>1. P!Idle \in Procs
    BY DEF Procs
  <2>2. raw' \in [Messages -> RawStatus]
    BY <1>f DEF P!Failed, PreType, RawStatus
  <2> QED
    BY <1>f, <2>1, <2>2 DEF P!Failed, PreType
<1>6. ASSUME NEW w \in Workers, P!PublishRaises(w)
      PROVE  PreType'
  BY <1>6, <1>f DEF P!PublishRaises, PreType
<1>7. ASSUME NEW w \in Workers, P!PublishInDoubt(w)
      PROVE  PreType'
  <2>1. proc[w].cands # << >>
    BY <1>7 DEF P!PublishInDoubt, P!AtCandidate
  <2>2. proc[w] # P!Idle
    BY <2>1, CurrentFacts
  <2>3. ai' \in Seq(Sent)
    BY <1>7, <2>1, PublishedFacts DEF P!PublishInDoubt
  <2>4. P!Failed(w) /\ index' = index
    BY <1>7 DEF P!PublishInDoubt
  <2> QED
    BY <1>f, <2>2, <2>3, <2>4 DEF PreType
<1>8. ASSUME NEW w \in Workers, P!AddSignals(w)
      PROVE  PreType'
  <2>0. proc[w] \in Procs /\ proc[w].adding
    BY <1>8 DEF P!AddSignals, PreType
  <2>1. PICK x : x = proc[w] /\ x # P!Idle /\ x.cands # << >>
    BY <2>0, ProcFacts
  <2>2. Work(x.msg, x.quar, Tail(x.cands), FALSE) \in Procs
    BY <2>1, HeldFacts, WorkTyped
  <2>3. proc' = [proc EXCEPT ![w] = Work(x.msg, x.quar, Tail(x.cands), FALSE)]
    BY <1>8, <2>1, WorkUpdates DEF P!AddSignals
  <2>4. P!Current(w) \in Events
    BY <2>1, CurrentFacts
  <2>5. index' \in [Workers -> Seq(Events)]
    BY <1>8, <2>4 DEF P!AddSignals, PreType
  <2> QED
    BY <1>8, <2>2, <2>3, <2>5 DEF P!AddSignals, PreType
<1>9. ASSUME NEW w \in Workers, P!Ack(w)
      PROVE  PreType'
  BY <1>9 DEF P!Ack, PreType, RawStatus, Procs
<1>10. ASSUME NEW w \in Workers, P!Crash(w)
       PROVE  PreType'
  <2>1. P!Idle \in Procs /\ << >> \in Seq(Events)
    BY DEF Procs
  <2>2. raw' \in [Messages -> RawStatus]
    BY <1>10 DEF P!Crash, PreType, RawStatus
  <2> QED
    BY <1>10, <2>1, <2>2 DEF P!Crash, PreType
<1> QED
  BY <1>1, <1>2, <1>3, <1>4, <1>5, <1>6, <1>7, <1>8, <1>9, <1>10 DEF P!Next

LEMMA PreTypeInvariant == ASSUME P!Constants PROVE P!Spec => []PreType
<1>1. P!Init => PreType
  <2>1. P!Idle \in Procs /\ << >> \in Seq(Events) /\ << >> \in Seq(Sent)
    BY DEF Procs
  <2> QED
    BY <2>1 DEF P!Init, PreType, RawStatus
<1>2. PreType /\ [P!Next]_P!vars => PreType'
  <2>1. PreType /\ UNCHANGED P!vars => PreType'
    BY DEF PreType, P!vars
  <2> QED
    BY <2>1, PreTypeStep
<1> QED
  BY <1>1, <1>2, PTL DEF P!Spec

\* The candidates of one raw message never share a persistence identity, however they are cut,
\* retried or published twice, and however many workers publish them (to_event isolates the
\* source message id of a digest's candidates by their index).
THEOREM CandidateIdentities == ASSUME P!Constants PROVE P!Spec => []IdentitiesDistinct
<1>1. PreType => IdentitiesDistinct
  <2> SUFFICES ASSUME PreType, NEW i \in DOMAIN ai, NEW j \in DOMAIN ai,
                      NEW e, NEW f, e = ai[i].event, f = ai[j].event,
                      e.parent = f.parent, e.key # f.key
               PROVE  e.slot # f.slot
    BY DEF IdentitiesDistinct, P!IdentitiesDistinct
  <2>1. ai[i] \in Sent /\ ai[j] \in Sent
    BY DEF PreType
  <2>2. e \in Events /\ f \in Events
    BY <2>1 DEF Sent
  <2> QED
    BY <2>2, EventsOfMessage
<1> QED
  BY <1>1, PreTypeInvariant, PTL

-----------------------------------------------------------------------------
(* Pre-AI stage: no listing of an acknowledged message is lost             *)

\* One worker process runs the stage.
OneWorker == \A v, w \in Workers : v = w

\* Event e is in the AI queue; listing l is kept; every listing of message m is.
InQueue(e) == \E k \in DOMAIN ai : ai[k].event = e
Kept(l) == P!InAi(l) \/ P!InQuarantine(l)
Settled(m) == \A l \in P!ListingsOf(m) : Kept(l) \/ P!DropAsked(m, l)

\* What is still to be done with message m, the quarantined blocks q and the candidates c,
\* tells of every listing that is not kept.
Waits(m, q, c) ==
  \A l \in P!ListingsOf(m) : Kept(l) \/ P!DropAsked(m, l) \/ Tells(q, l) \/ Tells(c, l)

\* The index of w holds an event of another copy of the forward that m is a copy of.
Foreign(w, m) ==
  /\ OriginOf[m] # P!Unset
  /\ \E i \in DOMAIN index[w] : index[w][i].origin = OriginOf[m] /\ index[w][i].parent # m

\* The events in an index are in the AI queue, each forward has one copy there, and that copy is
\* on its way, dead or settled.
IndexOk ==
  \A w \in Workers : \A i \in DOMAIN index[w] :
    LET f == index[w][i]
    IN  /\ InQueue(f)
        /\ raw[f.parent] # "new"
        /\ raw[f.parent] = "acked" => Settled(f.parent)
        /\ \A j \in DOMAIN index[w] :
             index[w][j].origin = f.origin /\ f.origin # P!Unset => index[w][j].parent = f.parent

\* The work x that w holds: what it has passed is kept, or a copy of the forward stands for it.
RunOf(w, x) ==
  /\ raw[x.msg] = "taken"
  /\ Foreign(w, x.msg) \/ Waits(x.msg, x.quar, x.cands)
  /\ x.adding => InQueue(P!ToEvent(x.msg, Head(x.cands))) /\ ~Foreign(w, x.msg)

RunOk == \A w \in Workers : proc[w] # P!Idle => RunOf(w, proc[w])

PreInv == PreType /\ IndexOk /\ RunOk /\ P!AckedIsAccounted

\* The queues only grow, and no message is forgotten or acknowledged.
Grows ==
  /\ \A k \in DOMAIN ai : k \in DOMAIN ai' /\ ai'[k] = ai[k]
  /\ quarantine \subseteq quarantine'
Open == {"ready", "taken", "dead"}
RawMoves ==
  \A m \in Messages : /\ raw'[m] = "new" => raw[m] = "new"
                      /\ raw'[m] = "acked" => raw[m] = "acked"
                      /\ raw[m] \in Open => raw'[m] \in Open

LEMMA KeptGrows ==
  ASSUME Grows
  PROVE  /\ \A e : InQueue(e) => InQueue(e)'
         /\ \A l : Kept(l) => Kept(l)'
         /\ \A m : Settled(m) => Settled(m)'
         /\ \A m, q, c : Waits(m, q, c) => Waits(m, q, c)'
<1>1. ASSUME NEW e, InQueue(e) PROVE InQueue(e)'
  BY <1>1 DEF Grows, InQueue
<1>2. ASSUME NEW l, Kept(l) PROVE Kept(l)'
  BY <1>2 DEF Grows, Kept, P!InAi, P!InQuarantine
<1>3. ASSUME NEW m, Settled(m) PROVE Settled(m)'
  BY <1>2, <1>3 DEF Settled
<1>4. ASSUME NEW m, NEW q, NEW c, Waits(m, q, c) PROVE Waits(m, q, c)'
  BY <1>2, <1>4 DEF Waits
<1> QED
  BY <1>1, <1>2, <1>3, <1>4

LEMMA IndexKept ==
  ASSUME P!Constants, PreType, IndexOk, Grows, RawMoves, index' = index
  PROVE  IndexOk'
<1> SUFFICES ASSUME NEW w \in Workers, NEW i \in DOMAIN index[w], NEW f, f = index[w][i]
             PROVE  /\ InQueue(f)'
                    /\ raw'[f.parent] # "new"
                    /\ raw'[f.parent] = "acked" => Settled(f.parent)'
                    /\ \A j \in DOMAIN index[w] :
                         index[w][j].origin = f.origin /\ f.origin # P!Unset =>
                           index[w][j].parent = f.parent
  BY DEF IndexOk
<1>1. f \in Events
  BY DEF PreType
<1>2. f.parent \in Messages
  BY <1>1, EventsOfMessage
<1>3. /\ InQueue(f) /\ raw[f.parent] # "new"
      /\ raw[f.parent] = "acked" => Settled(f.parent)
      /\ \A j \in DOMAIN index[w] :
           index[w][j].origin = f.origin /\ f.origin # P!Unset => index[w][j].parent = f.parent
  BY DEF IndexOk
<1>4. /\ raw'[f.parent] # "new"
      /\ raw'[f.parent] = "acked" => raw[f.parent] = "acked"
  BY <1>2, <1>3 DEF RawMoves
<1>5. PICK p : p = f.parent
  OBVIOUS
<1>6. InQueue(f)' /\ (Settled(p) => Settled(p)')
  BY <1>3, KeptGrows
<1> QED
  BY <1>3, <1>4, <1>5, <1>6

LEMMA AckedKept ==
  ASSUME P!AckedIsAccounted, Grows, RawMoves
  PROVE  P!AckedIsAccounted'
<1> SUFFICES ASSUME NEW m \in Messages, raw'[m] = "acked", NEW l \in P!ListingsOf(m)
             PROVE  \/ Kept(l)'
                    \/ \E n \in P!SameOrigin(m) : P!DropAsked(n, l) \/ raw'[n] \in Open
  BY DEF P!AckedIsAccounted, Kept, Open
<1>1. \/ Kept(l)
      \/ \E n \in P!SameOrigin(m) : P!DropAsked(n, l) \/ raw[n] \in Open
  BY DEF P!AckedIsAccounted, Kept, Open, RawMoves
<1>2. \A n \in P!SameOrigin(m) : raw[n] \in Open => raw'[n] \in Open
  BY DEF P!SameOrigin, RawMoves
<1> QED
  BY <1>1, <1>2, KeptGrows

LEMMA PassOne ==
  ASSUME NEW S, NEW s \in Seq(S), s # << >>, NEW l, Tells(s, l)
  PROVE  l \in Head(s).listings \/ Tells(Tail(s), l)
BY TailFacts DEF Tells

\* With one worker, what that worker turns to is all there is to show.
LEMMA RunAt ==
  ASSUME OneWorker, PreType, NEW w \in Workers, NEW y, proc' = [proc EXCEPT ![w] = y],
         y # P!Idle => RunOf(w, y)'
  PROVE  RunOk'
<1> SUFFICES ASSUME NEW v \in Workers, proc'[v] # P!Idle
             PROVE  RunOf(v, proc[v])'
  BY DEF RunOk
<1>1. v = w /\ proc'[w] = y
  BY DEF OneWorker, PreType
<1> QED
  BY <1>1

\* The worker's index and its message tell the same.
LEMMA SameForeign ==
  ASSUME NEW w, NEW m, index'[w] = index[w]
  PROVE  Foreign(w, m)' <=> Foreign(w, m)
BY DEF Foreign

LEMMA ArriveKeeps ==
  ASSUME P!Constants, PreInv, NEW m \in Messages, P!Arrive(m)
  PROVE  IndexOk' /\ RunOk' /\ P!AckedIsAccounted'
<1>1. Grows /\ RawMoves /\ index' = index /\ proc' = proc
  BY DEF PreInv, PreType, P!Arrive, Grows, RawMoves, Open
<1>2. IndexOk' /\ P!AckedIsAccounted'
  BY <1>1, IndexKept, AckedKept DEF PreInv
<1>3. ASSUME NEW w \in Workers, proc[w] # P!Idle
      PROVE  RunOf(w, proc[w])'
  <2>1. PICK x : x = proc[w]
    OBVIOUS
  <2>2. RunOf(w, x) /\ x.msg \in Messages
    BY <1>3, <2>1, HeldFacts DEF PreInv, RunOk
  <2>3. raw'[x.msg] = "taken"
    BY <2>2 DEF RunOf, P!Arrive, PreInv, PreType
  <2>4. PICK n, q, c, e : /\ n = x.msg /\ q = x.quar /\ c = x.cands
                          /\ e = P!ToEvent(x.msg, Head(x.cands))
    OBVIOUS
  <2>5. /\ Foreign(w, n)' <=> Foreign(w, n)
        /\ Waits(n, q, c) => Waits(n, q, c)'
        /\ InQueue(e) => InQueue(e)'
    BY <1>1, SameForeign, KeptGrows
  <2> QED
    BY <1>1, <2>1, <2>2, <2>3, <2>4, <2>5 DEF RunOf
<1> QED
  BY <1>1, <1>2, <1>3 DEF RunOk

LEMMA TakeKeeps ==
  ASSUME P!Constants, OneWorker, PreInv, NEW w \in Workers, NEW m \in Messages, P!Take(w, m)
  PROVE  IndexOk' /\ RunOk' /\ P!AckedIsAccounted'
<1>1. Grows /\ RawMoves /\ index' = index
  BY DEF PreInv, PreType, P!Take, Grows, RawMoves, Open
<1>2. IndexOk' /\ P!AckedIsAccounted'
  BY <1>1, IndexKept, AckedKept DEF PreInv
<1>3. PICK y : y = Work(m, Quar(m), Cands(m), FALSE)
  OBVIOUS
<1>4. proc' = [proc EXCEPT ![w] = y]
  BY <1>3, TakenFacts
<1>5. y.msg = m /\ y.quar = Quar(m) /\ y.cands = Cands(m) /\ y.adding = FALSE
  BY <1>3 DEF Work
<1>6. raw'[m] = "taken"
  BY DEF P!Take, PreInv, PreType
<1>7. Waits(m, Quar(m), Cands(m))'
  BY MessageCovered DEF Waits
<1>8. RunOf(w, y)'
  BY <1>5, <1>6, <1>7 DEF RunOf
<1> QED
  BY <1>2, <1>4, <1>8, RunAt DEF PreInv

LEMMA PublishQuarantineKeeps ==
  ASSUME P!Constants, OneWorker, PreInv, NEW w \in Workers, P!PublishQuarantine(w)
  PROVE  IndexOk' /\ RunOk' /\ P!AckedIsAccounted'
<1>1. Grows /\ RawMoves /\ index' = index /\ raw' = raw
  BY DEF PreInv, PreType, P!PublishQuarantine, Grows, RawMoves, Open
<1>2. IndexOk' /\ P!AckedIsAccounted'
  BY <1>1, IndexKept, AckedKept DEF PreInv
<1>3. PICK x : x = proc[w] /\ x # P!Idle /\ x.quar # << >>
  BY DEF P!PublishQuarantine
<1>4. PICK y : y = Work(x.msg, Tail(x.quar), x.cands, x.adding)
  OBVIOUS
<1>5. proc' = [proc EXCEPT ![w] = y]
  BY <1>3, <1>4, WorkUpdates DEF P!PublishQuarantine, PreInv
<1>6. /\ y.msg = x.msg /\ y.quar = Tail(x.quar) /\ y.cands = x.cands
      /\ x.quar \in Seq(Elements(Quar(x.msg))) /\ ~y.adding
  BY <1>3, <1>4, HeldFacts DEF Work, PreInv
<1>7. RunOf(w, x)
  BY <1>3 DEF PreInv, RunOk
<1>8. ASSUME NEW l \in Head(x.quar).listings PROVE Kept(l)'
  <2>1. PICK q : q = << x.msg, Head(x.quar).listings >>
    OBVIOUS
  <2>2. q \in quarantine' /\ q[2] = Head(x.quar).listings
    BY <1>3, <2>1 DEF P!PublishQuarantine
  <2> QED
    BY <1>8, <2>2 DEF Kept, P!InQuarantine
<1>9. Waits(x.msg, x.quar, x.cands) => Waits(y.msg, y.quar, y.cands)'
  <2> SUFFICES ASSUME Waits(x.msg, x.quar, x.cands), NEW l \in P!ListingsOf(x.msg)
               PROVE  \/ Kept(l)' \/ P!DropAsked(x.msg, l)
                      \/ Tells(Tail(x.quar), l) \/ Tells(x.cands, l)
    BY <1>6 DEF Waits
  <2>1. Kept(l) \/ P!DropAsked(x.msg, l) \/ Tells(x.quar, l) \/ Tells(x.cands, l)
    BY DEF Waits
  <2>2. Kept(l) => Kept(l)'
    BY <1>1, KeptGrows
  <2>3. PICK s, S : s = x.quar /\ S = Elements(Quar(x.msg)) /\ s \in Seq(S) /\ s # << >>
    BY <1>3, <1>6
  <2>4. Tells(s, l) => l \in Head(s).listings \/ Tells(Tail(s), l)
    BY <2>3, PassOne
  <2> QED
    BY <1>8, <2>1, <2>2, <2>3, <2>4
<1>10. RunOf(w, y)'
  BY <1>1, <1>6, <1>7, <1>9 DEF RunOf, Foreign
<1> QED
  BY <1>2, <1>5, <1>10, RunAt DEF PreInv

\* A candidate the filter skips is kept under another event, or a copy of the forward stands
\* for it.
LEMMA SkippedFacts ==
  ASSUME P!Constants, PreInv, NEW w \in Workers, NEW x, x = proc[w], x.cands # << >>,
         P!Decision(P!Current(w), index[w]) = "high_confidence_duplicate"
  PROVE  Foreign(w, x.msg) \/ \A l \in Head(x.cands).listings : Kept(l)
<1>1. PICK e : e = P!Current(w)
  OBVIOUS
<1>2. /\ e \in Events /\ e.parent = x.msg /\ e.origin = OriginOf[x.msg]
      /\ e.text = Head(x.cands).listings
  BY <1>1, CurrentFacts DEF PreInv
<1>3. P!ForwardMatch(e, index[w]) \/ P!TextMatch(e, index[w])
  BY <1>1 DEF P!Decision
<1>4. ASSUME NEW i \in DOMAIN index[w], index[w][i].text = e.text
      PROVE  \A l \in Head(x.cands).listings : Kept(l)
  <2>1. PICK k \in DOMAIN ai : ai[k].event = index[w][i]
    BY DEF PreInv, IndexOk, InQueue
  <2> QED
    BY <1>2, <1>4, <2>1 DEF Kept, P!InAi
<1>5. CASE P!TextMatch(e, index[w])
  BY <1>4, <1>5 DEF P!TextMatch
<1>6. CASE P!ForwardMatch(e, index[w])
  <2>1. PICK i \in DOMAIN index[w] :
          e.origin # P!Unset /\ index[w][i].origin = e.origin /\ ~P!Siblings(e, index[w][i])
    BY <1>6 DEF P!ForwardMatch
  <2>2. PICK f : f = index[w][i]
    OBVIOUS
  <2>3. f \in Events
    BY <2>2 DEF PreInv, PreType
  <2>4. CASE f.parent # e.parent
    BY <1>2, <2>1, <2>2, <2>4 DEF Foreign
  <2>5. CASE f.parent = e.parent
    <3>1. e.key = f.key
      BY <2>1, <2>2, <2>5 DEF P!Siblings
    <3>2. e.text = f.text
      BY <1>2, <2>3, <2>5, <3>1, EventsOfMessage
    <3> QED
      BY <1>4, <2>2, <3>2
  <2> QED
    BY <2>4, <2>5
<1> QED
  BY <1>3, <1>5, <1>6

\* The first candidate is done with when its listings are kept.
LEMMA CandidateDone ==
  ASSUME P!Constants, PreType, NEW w \in Workers, NEW x, x = proc[w], x.cands # << >>,
         x.quar = << >>, Grows, Waits(x.msg, x.quar, x.cands),
         \A l \in Head(x.cands).listings : Kept(l)
  PROVE  Waits(x.msg, x.quar, Tail(x.cands))'
<1> SUFFICES ASSUME NEW l \in P!ListingsOf(x.msg)
             PROVE  Kept(l)' \/ P!DropAsked(x.msg, l) \/ Tells(x.quar, l) \/ Tells(Tail(x.cands), l)
  BY DEF Waits
<1>1. Kept(l) \/ P!DropAsked(x.msg, l) \/ Tells(x.quar, l) \/ Tells(x.cands, l)
  BY DEF Waits
<1>2. Kept(l) => Kept(l)'
  BY KeptGrows
<1>3. x # P!Idle
  BY CurrentFacts
<1>4. x.cands \in Seq(Elements(P!EffectiveOf(x.msg).cands))
  BY <1>3, HeldFacts
<1>5. PICK s, S : s = x.cands /\ S = Elements(P!EffectiveOf(x.msg).cands) /\ s \in Seq(S)
  BY <1>4
<1>6. Tells(s, l) => l \in Head(s).listings \/ Tells(Tail(s), l)
  BY <1>5, PassOne
<1> QED
  BY <1>1, <1>2, <1>5, <1>6

LEMMA SkipDuplicateKeeps ==
  ASSUME P!Constants, OneWorker, PreInv, NEW w \in Workers, P!SkipDuplicate(w)
  PROVE  IndexOk' /\ RunOk' /\ P!AckedIsAccounted'
<1>1. Grows /\ RawMoves /\ index' = index /\ raw' = raw
  BY DEF PreInv, PreType, P!SkipDuplicate, Grows, RawMoves, Open
<1>2. IndexOk' /\ P!AckedIsAccounted'
  BY <1>1, IndexKept, AckedKept DEF PreInv
<1>3. PICK x : x = proc[w] /\ x.cands # << >> /\ x.quar = << >> /\ ~x.adding
  BY DEF P!SkipDuplicate, P!AtCandidate
<1>4. x # P!Idle
  BY <1>3, CurrentFacts DEF PreInv
<1>5. PICK y : y = Work(x.msg, x.quar, Tail(x.cands), x.adding)
  OBVIOUS
<1>6. proc' = [proc EXCEPT ![w] = y]
  BY <1>3, <1>4, <1>5, WorkUpdates DEF P!SkipDuplicate, PreInv
<1>7. y.msg = x.msg /\ y.quar = x.quar /\ y.cands = Tail(x.cands) /\ ~y.adding
  BY <1>3, <1>5 DEF Work
<1>8. RunOf(w, x)
  BY <1>3, <1>4 DEF PreInv, RunOk
<1>9. Foreign(w, x.msg) \/ \A l \in Head(x.cands).listings : Kept(l)
  BY <1>3, SkippedFacts DEF P!SkipDuplicate
<1>10. Foreign(w, x.msg) \/ Waits(x.msg, x.quar, Tail(x.cands))'
  BY <1>1, <1>3, <1>8, <1>9, CandidateDone DEF RunOf, PreInv
<1>11. RunOf(w, y)'
  BY <1>1, <1>7, <1>8, <1>10 DEF RunOf, Foreign
<1> QED
  BY <1>2, <1>6, <1>11, RunAt DEF PreInv

\* What a publish adds to the AI queue.
LEMMA PublishGrows ==
  ASSUME P!Constants, PreType, NEW w \in Workers, proc[w].cands # << >>,
         ai' = P!Published(w), quarantine' = quarantine
  PROVE  Grows /\ \E k \in DOMAIN ai' : ai'[k].event = P!Current(w)
<1>1. ai \in Seq(Sent)
  BY DEF PreType
<1>2. PICK z : z = [event |-> P!Current(w),
                    decision |-> P!Decision(P!Current(w), index[w]), by |-> w]
  OBVIOUS
<1>3. ai' = Append(ai, z) /\ z.event = P!Current(w)
  BY <1>2 DEF P!Published
<1>4. PICK n \in Nat : n = Len(ai) /\ DOMAIN ai = 1 .. n
  BY <1>1
<1>5. DOMAIN ai' = 1 .. n + 1 /\ ai'[n + 1] = z /\ \A k \in 1 .. n : ai'[k] = ai[k]
  BY <1>1, <1>3, <1>4
<1>6. n + 1 \in 1 .. n + 1 /\ \A k \in 1 .. n : k \in 1 .. n + 1
  BY <1>4
<1> QED
  BY <1>3, <1>4, <1>5, <1>6 DEF Grows

LEMMA PublishCandidateKeeps ==
  ASSUME P!Constants, OneWorker, PreInv, NEW w \in Workers, P!PublishCandidate(w)
  PROVE  IndexOk' /\ RunOk' /\ P!AckedIsAccounted'
<1>1. PICK x : x = proc[w] /\ x.cands # << >> /\ x.quar = << >>
  BY DEF P!PublishCandidate, P!AtCandidate
<1>2. PICK e : e = P!Current(w)
  OBVIOUS
<1>3. /\ x # P!Idle /\ e = P!ToEvent(x.msg, Head(x.cands))
      /\ e.parent = x.msg /\ e.origin = OriginOf[x.msg]
  BY <1>1, <1>2, CurrentFacts DEF PreInv
<1>4. Grows /\ InQueue(e)'
  BY <1>1, <1>2, PublishGrows DEF P!PublishCandidate, PreInv, InQueue
<1>5. RawMoves /\ index' = index /\ raw' = raw
  BY DEF PreInv, PreType, P!PublishCandidate, RawMoves, Open
<1>6. IndexOk' /\ P!AckedIsAccounted'
  BY <1>4, <1>5, IndexKept, AckedKept DEF PreInv
<1>7. PICK y : y = Work(x.msg, x.quar, x.cands, TRUE)
  OBVIOUS
<1>8. proc' = [proc EXCEPT ![w] = y]
  <2>1. proc' = [proc EXCEPT ![w].adding = TRUE] /\ PreType
    BY DEF P!PublishCandidate, PreInv
  <2>2. [proc EXCEPT ![w].adding = TRUE] = [proc EXCEPT ![w] = y]
    BY <1>1, <1>3, <1>7, <2>1, WorkUpdates
  <2> QED
    BY <2>1, <2>2
<1>9. y.msg = x.msg /\ y.quar = x.quar /\ y.cands = x.cands
  BY <1>7 DEF Work
<1>10. RunOf(w, x)
  BY <1>1, <1>3 DEF PreInv, RunOk
<1>11. ~Foreign(w, x.msg)
  <2>1. ~P!ForwardMatch(e, index[w])
    BY <1>2 DEF P!PublishCandidate, P!Decision
  <2> QED
    BY <1>3, <2>1 DEF P!ForwardMatch, P!Siblings, Foreign
<1>12. PICK m, q, c : m = x.msg /\ q = x.quar /\ c = x.cands
  OBVIOUS
<1>13. Waits(m, q, c) => Waits(m, q, c)'
  BY <1>4, KeptGrows
<1>14. /\ Foreign(w, m)' <=> Foreign(w, m)
  BY <1>5, SameForeign
<1>15. RunOf(w, y)'
  BY <1>3, <1>4, <1>5, <1>9, <1>10, <1>11, <1>12, <1>13, <1>14 DEF RunOf
<1> QED
  BY <1>6, <1>8, <1>15, RunAt DEF PreInv

LEMMA AppendFacts ==
  ASSUME NEW S, NEW s \in Seq(S), NEW e
  PROVE  /\ \A i \in DOMAIN Append(s, e) :
              Append(s, e)[i] = e \/ \E k \in DOMAIN s : Append(s, e)[i] = s[k]
         /\ \A k \in DOMAIN s : k \in DOMAIN Append(s, e) /\ Append(s, e)[k] = s[k]
<1>1. PICK n \in Nat : n = Len(s) /\ DOMAIN s = 1 .. n
  OBVIOUS
<1>2. DOMAIN Append(s, e) = 1 .. n + 1
  BY <1>1
<1>3. Append(s, e)[n + 1] = e /\ \A k \in 1 .. n : Append(s, e)[k] = s[k]
  BY <1>1
<1>4. \A i \in 1 .. n + 1 : i = n + 1 \/ i \in 1 .. n
  BY <1>1
<1> QED
  BY <1>1, <1>2, <1>3, <1>4

LEMMA AddSignalsKeeps ==
  ASSUME P!Constants, OneWorker, PreInv, NEW w \in Workers, P!AddSignals(w)
  PROVE  IndexOk' /\ RunOk' /\ P!AckedIsAccounted'
<1>1. PICK x : x = proc[w] /\ x.adding
  BY DEF P!AddSignals
<1>2. x # P!Idle /\ x.quar = << >> /\ x.cands # << >> /\ x.msg \in Messages
  <2>1. x \in Procs
    BY <1>1 DEF PreInv, PreType
  <2>2. x # P!Idle
    BY <1>1, <2>1, ProcFacts
  <2> QED
    BY <1>1, <2>1, <2>2, ProcFacts
<1>3. PICK e : e = P!Current(w)
  OBVIOUS
<1>4. /\ e \in Events /\ e = P!ToEvent(x.msg, Head(x.cands)) /\ e.parent = x.msg
      /\ e.origin = OriginOf[x.msg] /\ e.text = Head(x.cands).listings
  BY <1>1, <1>2, <1>3, CurrentFacts DEF PreInv
<1>5. Grows /\ RawMoves /\ raw' = raw /\ ai' = ai /\ quarantine' = quarantine
  BY DEF PreInv, PreType, P!AddSignals, Grows, RawMoves, Open
<1>6. P!AckedIsAccounted'
  BY <1>5, AckedKept DEF PreInv
<1>7. RunOf(w, x)
  BY <1>1, <1>2 DEF PreInv, RunOk
<1>8. InQueue(e) /\ ~Foreign(w, x.msg) /\ raw[x.msg] = "taken"
  BY <1>1, <1>4, <1>7 DEF RunOf
<1>9. PICK s \in Seq(Events) : s = index[w]
  BY DEF PreInv, PreType
<1>10. index'[w] = Append(s, e)
  BY <1>3, <1>9 DEF P!AddSignals, PreInv, PreType
<1>11. \A i \in DOMAIN Append(s, e) :
         Append(s, e)[i] = e \/ \E k \in DOMAIN s : Append(s, e)[i] = s[k]
  BY AppendFacts
<1>12. IndexOk'
  <2>1. ASSUME NEW k \in DOMAIN s
        PROVE  /\ InQueue(s[k]) /\ raw[s[k].parent] # "new"
               /\ raw[s[k].parent] = "acked" => Settled(s[k].parent)
               /\ s[k].origin = e.origin /\ e.origin # P!Unset => s[k].parent = e.parent
               /\ \A j \in DOMAIN s : s[j].origin = s[k].origin /\ s[k].origin # P!Unset =>
                                        s[j].parent = s[k].parent
    <3>1. s[k].origin = e.origin /\ e.origin # P!Unset => s[k].parent = e.parent
      BY <1>4, <1>8, <1>9 DEF Foreign
    <3> QED
      BY <1>9, <3>1 DEF PreInv, IndexOk
  <2>2. raw[e.parent] # "new" /\ raw[e.parent] # "acked"
    BY <1>4, <1>8
  <2> SUFFICES ASSUME NEW i \in DOMAIN Append(s, e), NEW f, f = Append(s, e)[i]
               PROVE  /\ InQueue(f) /\ raw[f.parent] # "new"
                      /\ raw[f.parent] = "acked" => Settled(f.parent)
                      /\ \A j \in DOMAIN Append(s, e) :
                           Append(s, e)[j].origin = f.origin /\ f.origin # P!Unset =>
                             Append(s, e)[j].parent = f.parent
    <3>1. ASSUME NEW v \in Workers PROVE v = w
      BY DEF OneWorker
    <3>2. \A g : (InQueue(g)' <=> InQueue(g)) /\ (Settled(g)' <=> Settled(g))
      BY <1>5 DEF InQueue, Settled, Kept, P!InAi, P!InQuarantine
    <3> QED
      BY <1>5, <1>10, <3>1, <3>2 DEF IndexOk
  <2>3. ASSUME NEW j \in DOMAIN Append(s, e), NEW g, g = Append(s, e)[j],
               g.origin = f.origin, f.origin # P!Unset
        PROVE  g.parent = f.parent
    BY <1>11, <2>1, <2>3
  <2> QED
    BY <1>8, <1>11, <2>1, <2>2, <2>3
<1>13. PICK y : y = Work(x.msg, x.quar, Tail(x.cands), FALSE)
  OBVIOUS
<1>14. proc' = [proc EXCEPT ![w] = y]
  <2>1. proc' = [proc EXCEPT ![w].cands = Tail(@), ![w].adding = FALSE] /\ PreType
    BY DEF P!AddSignals, PreInv
  <2>2. [proc EXCEPT ![w].cands = Tail(@), ![w].adding = FALSE] = [proc EXCEPT ![w] = y]
    BY <1>1, <1>2, <1>13, <2>1, WorkUpdates
  <2> QED
    BY <2>1, <2>2
<1>15. y.msg = x.msg /\ y.quar = x.quar /\ y.cands = Tail(x.cands) /\ ~y.adding
  BY <1>13 DEF Work
<1>16. \A l \in Head(x.cands).listings : Kept(l)
  BY <1>4, <1>8 DEF InQueue, Kept, P!InAi
<1>17. Waits(x.msg, x.quar, Tail(x.cands))'
  BY <1>1, <1>2, <1>5, <1>7, <1>8, <1>16, CandidateDone DEF RunOf, PreInv
<1>18. RunOf(w, y)'
  BY <1>5, <1>8, <1>15, <1>17 DEF RunOf
<1> QED
  BY <1>6, <1>12, <1>14, <1>18, RunAt DEF PreInv

\* A failed publish puts the message back or sets it aside.
LEMMA FailedMoves ==
  ASSUME P!Constants, PreInv, NEW w \in Workers, proc[w] # P!Idle, P!Failed(w)
  PROVE  RawMoves /\ proc' = [proc EXCEPT ![w] = P!Idle]
<1>1. PICK m : m = proc[w].msg
  OBVIOUS
<1>2. raw[m] = "taken"
  BY <1>1 DEF PreInv, RunOk, RunOf
<1>3. raw' = [raw EXCEPT ![m] = "ready"] \/ raw' = [raw EXCEPT ![m] = "dead"]
  BY <1>1 DEF P!Failed
<1>4. raw \in [Messages -> RawStatus]
  BY DEF PreInv, PreType
<1>5. RawMoves
  BY <1>2, <1>3, <1>4 DEF RawMoves, Open
<1> QED
  BY <1>5 DEF P!Failed

LEMMA FailureKeeps ==
  ASSUME P!Constants, OneWorker, PreInv, NEW w \in Workers,
         P!PublishRaises(w) \/ P!PublishInDoubt(w)
  PROVE  IndexOk' /\ RunOk' /\ P!AckedIsAccounted'
<1>1. Grows
  <2>1. CASE P!PublishRaises(w)
    BY <2>1 DEF P!PublishRaises, Grows
  <2>2. CASE P!PublishInDoubt(w)
    BY <2>2, PublishGrows DEF P!PublishInDoubt, P!AtCandidate, PreInv
  <2> QED
    BY <2>1, <2>2
<1>2. proc[w] # P!Idle
  BY CurrentFacts DEF P!PublishRaises, P!PublishInDoubt, P!AtCandidate, PreInv
<1>3. P!Failed(w) /\ index' = index
  BY DEF P!PublishRaises, P!PublishInDoubt
<1>4. RawMoves /\ proc' = [proc EXCEPT ![w] = P!Idle]
  BY <1>2, <1>3, FailedMoves
<1>5. RunOk'
  <2>1. PICK y : y = P!Idle
    OBVIOUS
  <2>2. proc' = [proc EXCEPT ![w] = y] /\ PreType
    BY <1>4, <2>1 DEF PreInv
  <2> QED
    BY <2>1, <2>2, RunAt
<1> QED
  BY <1>1, <1>3, <1>4, <1>5, IndexKept, AckedKept DEF PreInv

LEMMA CrashKeeps ==
  ASSUME P!Constants, OneWorker, PreInv, NEW w \in Workers, P!Crash(w)
  PROVE  IndexOk' /\ RunOk' /\ P!AckedIsAccounted'
<1>1. Grows
  BY DEF P!Crash, Grows
<1>2. RawMoves
  <2>1. CASE proc[w] = P!Idle
    BY <2>1 DEF P!Crash, RawMoves
  <2>2. CASE proc[w] # P!Idle
    <3>1. PICK m : m = proc[w].msg
      OBVIOUS
    <3>2. raw[m] = "taken" /\ raw \in [Messages -> RawStatus]
      BY <2>2, <3>1 DEF PreInv, PreType, RunOk, RunOf
    <3>3. raw' = [raw EXCEPT ![m] = "ready"]
      BY <2>2, <3>1 DEF P!Crash
    <3> QED
      BY <3>2, <3>3 DEF RawMoves, Open
  <2> QED
    BY <2>1, <2>2
<1>3. IndexOk'
  <2>1. index'[w] = << >> /\ \A v \in Workers : v = w
    BY DEF P!Crash, OneWorker, PreInv, PreType
  <2>2. \A v \in Workers : DOMAIN index'[v] = {}
    BY <2>1
  <2> QED
    BY <2>2 DEF IndexOk
<1>4. RunOk'
  <2>1. PICK y : y = P!Idle
    OBVIOUS
  <2>2. proc' = [proc EXCEPT ![w] = y] /\ PreType
    BY <2>1 DEF PreInv, P!Crash
  <2> QED
    BY <2>1, <2>2, RunAt
<1> QED
  BY <1>1, <1>2, <1>3, <1>4, AckedKept DEF PreInv

LEMMA EventOrigin ==
  ASSUME P!Constants, NEW e \in Events
  PROVE  e.parent \in Messages /\ e.origin = OriginOf[e.parent]
<1>1. PICK m \in Messages :
        \E c \in Elements(P!EffectiveOf(m).cands) : e = P!ToEvent(m, c)
  BY DEF Events
<1>2. PICK c \in Elements(P!EffectiveOf(m).cands) : e = P!ToEvent(m, c)
  BY <1>1
<1> QED
  BY <1>2, EventFacts

\* Copies of one forward.
LEMMA OriginFacts ==
  ASSUME P!Constants, NEW m \in Messages, NEW n \in P!SameOrigin(m)
  PROVE  /\ n \in Messages /\ m \in P!SameOrigin(n) /\ P!SameOrigin(n) = P!SameOrigin(m)
         /\ P!ListingsOf(n) = P!ListingsOf(m)
<1>1. n \in Messages /\ (n = m \/ (OriginOf[m] # P!Unset /\ OriginOf[n] = OriginOf[m]))
  BY DEF P!SameOrigin
<1>2. m \in P!SameOrigin(n) /\ P!SameOrigin(n) = P!SameOrigin(m)
  BY <1>1 DEF P!SameOrigin
<1>3. P!ListingsOf(n) = P!ListingsOf(m)
  BY <1>1, MessageFacts
<1> QED
  BY <1>1, <1>2, <1>3

LEMMA AckKeeps ==
  ASSUME P!Constants, OneWorker, PreInv, NEW w \in Workers, P!Ack(w)
  PROVE  IndexOk' /\ RunOk' /\ P!AckedIsAccounted'
<1>1. PICK x : x = proc[w] /\ x # P!Idle /\ x.quar = << >> /\ x.cands = << >>
  BY DEF P!Ack
<1>2. PICK p \in Messages : p = x.msg
  BY <1>1, HeldFacts DEF PreInv
<1>3. /\ raw' = [raw EXCEPT ![p] = "acked"] /\ raw \in [Messages -> RawStatus]
      /\ index' = index /\ ai' = ai /\ quarantine' = quarantine
  BY <1>1, <1>2 DEF P!Ack, PreInv, PreType
<1>4. \A l, m : (Kept(l)' <=> Kept(l)) /\ (Settled(m)' <=> Settled(m)) /\ (InQueue(l)' <=> InQueue(l))
  BY <1>3 DEF InQueue, Settled, Kept, P!InAi, P!InQuarantine
<1>5. Foreign(w, p) \/ Settled(p)
  <2>1. Foreign(w, p) \/ Waits(p, << >>, << >>)
    BY <1>1, <1>2 DEF PreInv, RunOk, RunOf
  <2>2. \A l : ~Tells(<< >>, l)
    BY DEF Tells
  <2> QED
    BY <2>1, <2>2 DEF Waits, Settled
<1>6. ASSUME NEW l \in P!ListingsOf(p)
      PROVE  Kept(l) \/ \E n \in P!SameOrigin(p) : P!DropAsked(n, l) \/ raw'[n] \in Open
  <2>1. CASE Settled(p)
    <3>1. p \in P!SameOrigin(p)
      BY DEF P!SameOrigin
    <3> QED
      BY <1>6, <2>1, <3>1 DEF Settled
  <2>2. CASE Foreign(w, p)
    <3>1. PICK i \in DOMAIN index[w] : /\ OriginOf[p] # P!Unset /\ index[w][i].origin = OriginOf[p]
                                       /\ index[w][i].parent # p
      BY <2>2 DEF Foreign
    <3>2. PICK f : f = index[w][i]
      OBVIOUS
    <3>3. f \in Events
      BY <3>2 DEF PreInv, PreType
    <3>4. PICK q \in Messages : q = f.parent /\ OriginOf[q] = OriginOf[p] /\ q # p
      BY <3>1, <3>2, <3>3, EventOrigin
    <3>5. q \in P!SameOrigin(p)
      BY <3>1, <3>4 DEF P!SameOrigin
    <3>6. l \in P!ListingsOf(q)
      BY <1>6, <3>5, OriginFacts
    <3>7. raw[q] # "new" /\ (raw[q] = "acked" => Settled(q))
      BY <3>2, <3>4 DEF PreInv, IndexOk
    <3>8. raw'[q] = raw[q] /\ raw[q] \in RawStatus
      BY <1>3, <3>4
    <3> QED
      BY <3>5, <3>6, <3>7, <3>8 DEF Settled, Open, RawStatus
  <2> QED
    BY <1>5, <2>1, <2>2
<1>7. P!AckedIsAccounted'
  <2> SUFFICES ASSUME NEW m \in Messages, raw'[m] = "acked", NEW l \in P!ListingsOf(m)
               PROVE  \/ Kept(l)'
                      \/ \E n \in P!SameOrigin(m) : P!DropAsked(n, l) \/ raw'[n] \in Open
    BY DEF P!AckedIsAccounted, Kept, Open
  <2>1. CASE p \in P!SameOrigin(m)
    <3>1. l \in P!ListingsOf(p) /\ P!SameOrigin(p) = P!SameOrigin(m)
      BY <2>1, OriginFacts
    <3> QED
      BY <1>4, <1>6, <3>1
  <2>2. CASE p \notin P!SameOrigin(m)
    <3>1. m # p /\ raw[m] = "acked"
      BY <1>3, <2>2 DEF P!SameOrigin
    <3>2. \/ Kept(l)
          \/ \E n \in P!SameOrigin(m) : P!DropAsked(n, l) \/ raw[n] \in Open
      BY <3>1 DEF PreInv, P!AckedIsAccounted, Kept, Open
    <3>3. \A n \in P!SameOrigin(m) : raw'[n] = raw[n]
      BY <1>3, <2>2 DEF P!SameOrigin
    <3> QED
      BY <1>4, <3>2, <3>3
  <2> QED
    BY <2>1, <2>2
<1>8. IndexOk'
  <2>1. ASSUME NEW i \in DOMAIN index[w], NEW f, f = index[w][i]
        PROVE  /\ InQueue(f) /\ raw'[f.parent] # "new"
               /\ raw'[f.parent] = "acked" => Settled(f.parent)
               /\ \A j \in DOMAIN index[w] :
                    index[w][j].origin = f.origin /\ f.origin # P!Unset =>
                      index[w][j].parent = f.parent
    <3>1. f \in Events
      BY <2>1 DEF PreInv, PreType
    <3>2. f.parent \in Messages /\ f.origin = OriginOf[f.parent]
      BY <3>1, EventOrigin
    <3>3. /\ InQueue(f) /\ raw[f.parent] # "new"
          /\ raw[f.parent] = "acked" => Settled(f.parent)
          /\ \A j \in DOMAIN index[w] :
               index[w][j].origin = f.origin /\ f.origin # P!Unset =>
                 index[w][j].parent = f.parent
      BY <2>1 DEF PreInv, IndexOk
    <3>4. CASE f.parent = p
      <4>1. ~Foreign(w, p)
        BY <3>2, <3>3, <3>4 DEF Foreign
      <4> QED
        BY <1>3, <1>5, <3>3, <3>4, <4>1
    <3>5. CASE f.parent # p
      BY <1>3, <3>2, <3>3, <3>5
    <3> QED
      BY <3>4, <3>5
  <2>2. \A v \in Workers : v = w
    BY DEF OneWorker
  <2> QED
    BY <1>3, <1>4, <2>1, <2>2 DEF IndexOk
<1>9. RunOk'
  <2>1. PICK y : y = P!Idle
    OBVIOUS
  <2>2. proc' = [proc EXCEPT ![w] = y] /\ PreType
    BY <2>1 DEF PreInv, P!Ack
  <2> QED
    BY <2>1, <2>2, RunAt
<1> QED
  BY <1>7, <1>8, <1>9

\* With one pre-AI worker an acknowledged raw message loses no listing: not to the duplicate
\* filter, not to a fan-out that failed halfway and is retried, not to an index lost in a crash
\* (process_raw_queue_message, InMemoryPreAiDuplicateIndex).
THEOREM ListingsNotLost == ASSUME P!Constants, OneWorker PROVE P!Spec => []AckedIsAccounted
<1>1. P!Init => PreInv
  <2> SUFFICES ASSUME P!Init PROVE PreInv
    OBVIOUS
  <2>1. PreType
    <3>1. P!Idle \in Procs /\ << >> \in Seq(Events) /\ << >> \in Seq(Sent)
      BY DEF Procs
    <3> QED
      BY <3>1 DEF P!Init, PreType, RawStatus
  <2>2. IndexOk /\ RunOk
    BY DEF P!Init, IndexOk, RunOk
  <2>3. P!AckedIsAccounted
    BY DEF P!Init, P!AckedIsAccounted
  <2> QED
    BY <2>1, <2>2, <2>3 DEF PreInv
<1>2. PreInv /\ [P!Next]_P!vars => PreInv'
  <2>1. CASE UNCHANGED P!vars
    BY <2>1 DEF PreInv, PreType, IndexOk, RunOk, RunOf, P!AckedIsAccounted, P!vars, InQueue,
       Settled, Waits, Foreign, Kept, P!InAi, P!InQuarantine
  <2>2. CASE P!Next
    <3> SUFFICES ASSUME PreInv PROVE PreInv'
      OBVIOUS
    <3>1. PreType'
      BY <2>2, PreTypeStep DEF PreInv
    <3>2. IndexOk' /\ RunOk' /\ P!AckedIsAccounted'
      <4>1. CASE \E m \in Messages : P!Arrive(m)
        BY <4>1, ArriveKeeps
      <4>2. CASE \E w \in Workers :
                   \/ \E m \in Messages : P!Take(w, m)
                   \/ P!PublishQuarantine(w) \/ P!PublishRaises(w) \/ P!SkipDuplicate(w)
                   \/ P!PublishCandidate(w) \/ P!PublishInDoubt(w) \/ P!AddSignals(w)
                   \/ P!Ack(w) \/ P!Crash(w)
        BY <4>2, TakeKeeps, PublishQuarantineKeeps, SkipDuplicateKeeps, PublishCandidateKeeps,
           FailureKeeps, AddSignalsKeeps, AckKeeps, CrashKeeps
      <4> QED
        BY <2>2, <4>1, <4>2 DEF P!Next
    <3> QED
      BY <3>1, <3>2 DEF PreInv
  <2> QED
    BY <2>1, <2>2
<1>3. PreInv => AckedIsAccounted
  BY DEF PreInv, AckedIsAccounted
<1> QED
  BY <1>1, <1>2, <1>3, PTL DEF P!Spec
=============================================================================
