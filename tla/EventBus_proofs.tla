-------------------------- MODULE EventBus_proofs --------------------------
(***************************************************************************)
(* Proofs about EventBus for every set of messages, workers and copies and *)
(* every retry limit: its type invariant, that no accepted message is lost,*)
(* and that the dead-letter queue holds only exhausted messages.           *)
(***************************************************************************)
EXTENDS EventBus, TLAPS

\* A saturating history counter stays within its bound.
LEMMA AtMostBound ==
  ASSUME NEW b \in Nat, NEW n \in 0..b
  PROVE  AtMost(n + 1, b) \in 0..b /\ AtMost(n + 1, b) >= n
  BY DEF AtMost

\* Type correctness of the bus: every handler and broker step keeps the
\* shape of the state (retry_count never exceeds max_retries).
THEOREM TypeCorrect == Spec => []TypeOK
<1>1. Init => TypeOK
  BY BusAssumption DEF Init, TypeOK, Places, Points
<1>2. TypeOK /\ [Next]_vars => TypeOK'
  <2> SUFFICES ASSUME TypeOK, [Next]_vars PROVE TypeOK'
    OBVIOUS
  <2> USE BusAssumption DEF TypeOK, Places, Points, history, worker, broker
  <2>1. ASSUME NEW m \in Msgs, Publish(m) PROVE TypeOK'
    BY <2>1 DEF Publish, Store
  <2>2. ASSUME NEW m \in Msgs, PublishInDoubt(m) PROVE TypeOK'
    BY <2>2 DEF PublishInDoubt, Store, Fault
  <2>3. ASSUME NEW w \in Workers, Pop(w) PROVE TypeOK'
    BY <2>3 DEF Pop
  <2>4. ASSUME NEW w \in Workers, PopMalformed(w) PROVE TypeOK'
    BY <2>4 DEF PopMalformed, Settle
  <2>5. ASSUME NEW w \in Workers, HandlerReturns(w) PROVE TypeOK'
    <3>1. completions' \in [Msgs -> 0..2]
      BY <2>5, AtMostBound DEF HandlerReturns
    <3> QED
      BY <2>5, <3>1 DEF HandlerReturns
  <2>6. ASSUME NEW w \in Workers, HandlerRaises(w) PROVE TypeOK'
    <3>1. failures' \in [Msgs -> 0..(MaxRetries + 1)]
      <4>1. MaxRetries + 1 \in Nat
        OBVIOUS
      <4> QED
        BY <2>6, <4>1, AtMostBound DEF HandlerRaises
    <3> QED
      BY <2>6, <3>1 DEF HandlerRaises
  <2>7. ASSUME NEW w \in Workers, Ack(w) PROVE TypeOK'
    BY <2>7 DEF Ack, OwnsDelivery, Settle, Drop
  <2>8. ASSUME NEW w \in Workers, Retry(w) PROVE TypeOK'
    BY <2>8 DEF Retry, MayRetry, NextAttempt, Store
  <2>9. ASSUME NEW w \in Workers, DeadLetter(w) PROVE TypeOK'
    BY <2>9 DEF DeadLetter, OwnsDelivery, Settle, Drop
  <2>10. ASSUME NEW w \in Workers, SettleStale(w) PROVE TypeOK'
    BY <2>10 DEF SettleStale, Drop
  <2>11. ASSUME NEW w \in Workers, Restart(w) PROVE TypeOK'
    BY <2>11 DEF Restart
  <2>12. ASSUME NEW w \in Workers, Crash(w) PROVE TypeOK'
    BY <2>12 DEF Crash, Fault, Requeue, Drop
  <2>13. ASSUME NEW w \in Workers, ConnectionLost(w) PROVE TypeOK'
    BY <2>13 DEF ConnectionLost, Fault, Requeue
  <2>14. CASE UNCHANGED vars
    BY <2>14 DEF vars
  <2> QED
    BY <2>1, <2>2, <2>3, <2>4, <2>5, <2>6, <2>7, <2>8, <2>9, <2>10, <2>11,
       <2>12, <2>13, <2>14 DEF Next, WorkerStep
<1> QED
  BY <1>1, <1>2, PTL DEF Spec

-----------------------------------------------------------------------------
\* The bookkeeping between broker and workers survives every step.
LEMMA BookkeepingStep ==
  ASSUME TypeOK, TypeOK', Bookkeeping, [Next]_vars
  PROVE  Bookkeeping'
<1> USE BusAssumption DEF TypeOK, Places, Points, Busy, Bookkeeping, Handled,
        history, worker, broker
<1>1. ASSUME NEW m \in Msgs, Publish(m) PROVE Bookkeeping'
  BY <1>1 DEF Publish, Store
<1>2. ASSUME NEW m \in Msgs, PublishInDoubt(m) PROVE Bookkeeping'
  BY <1>2 DEF PublishInDoubt, Store
<1>3. ASSUME NEW w \in Workers, Pop(w) PROVE Bookkeeping'
  BY <1>3 DEF Pop
<1>4. ASSUME NEW w \in Workers, PopMalformed(w) PROVE Bookkeeping'
  BY <1>4 DEF PopMalformed, Settle
<1>5. ASSUME NEW w \in Workers, HandlerReturns(w) PROVE Bookkeeping'
  BY <1>5 DEF HandlerReturns, AtMost
<1>6. ASSUME NEW w \in Workers, HandlerRaises(w) PROVE Bookkeeping'
  BY <1>6 DEF HandlerRaises, AtMost
<1>7. ASSUME NEW w \in Workers, Ack(w) PROVE Bookkeeping'
  BY <1>7 DEF Ack, OwnsDelivery, Settle, Drop
<1>8. ASSUME NEW w \in Workers, Retry(w) PROVE Bookkeeping'
  BY <1>8 DEF Retry, MayRetry, NextAttempt, Store
<1>9. ASSUME NEW w \in Workers, DeadLetter(w) PROVE Bookkeeping'
  BY <1>9 DEF DeadLetter, OwnsDelivery, Settle, Drop
<1>10. ASSUME NEW w \in Workers, SettleStale(w) PROVE Bookkeeping'
  BY <1>10 DEF SettleStale, OwnsDelivery, Drop
<1>11. ASSUME NEW w \in Workers, Restart(w) PROVE Bookkeeping'
  BY <1>11 DEF Restart
<1>12. ASSUME NEW w \in Workers, Crash(w) PROVE Bookkeeping'
  BY <1>12 DEF Crash, Requeue, Drop
<1>13. ASSUME NEW w \in Workers, ConnectionLost(w) PROVE Bookkeeping'
  BY <1>13 DEF ConnectionLost, Requeue
<1>14. CASE UNCHANGED vars
  BY <1>14 DEF vars
<1> QED
  BY <1>1, <1>2, <1>3, <1>4, <1>5, <1>6, <1>7, <1>8, <1>9, <1>10, <1>11,
     <1>12, <1>13, <1>14 DEF Next, WorkerStep

\* A message the bus still answers for: some handler run has returned for it
\* or a live copy of it is stored.
Kept(m) == Handled(m) \/ \E c \in Copies : of[c] = m /\ Live(c)

\* Whatever a worker has in hand is kept, accepted by a producer or not.
InHandKept == \A w \in Workers : pc[w] \in Busy => Kept(msg[w])

\* No step loses a kept message: a retry stores the new copy before the old
\* one stops being live, and an acknowledged copy is handled or replaced.
LEMMA KeptStep ==
  ASSUME TypeOK, TypeOK', Bookkeeping, [Next]_vars,
         NEW m \in Msgs, Kept(m)
  PROVE  Kept(m)'
<1> USE BusAssumption DEF TypeOK, Places, Points, Busy, Live,
        Handled, history, worker, broker
<1>h. CASE Handled(m)
  <2>1. ASSUME NEW w \in Workers, HandlerReturns(w) PROVE Handled(m)'
    <3>1. completions[m] \in 0..2
      OBVIOUS
    <3>2. completions'[m] >= completions[m]
      BY <2>1, <3>1 DEF HandlerReturns, AtMost
    <3> QED
      BY <1>h, <3>1, <3>2
  <2>2. CASE completions' = completions
    BY <1>h, <2>2 DEF Kept
  <2>3. completions' = completions \/ \E w \in Workers : HandlerReturns(w)
    BY DEF Next, vars, Publish, PublishInDoubt, WorkerStep, Pop, PopMalformed,
      HandlerRaises, Ack, Retry, DeadLetter, SettleStale, Restart, Crash,
      ConnectionLost
  <2> QED
    BY <2>1, <2>2, <2>3 DEF Kept
<1>l. CASE ~Handled(m)
  <2> SUFFICES \E c \in Copies : (of[c] = m /\ Live(c))'
    BY DEF Kept
  <2>1. PICK c \in Copies : of[c] = m /\ Live(c)
    BY <1>l DEF Kept
  <2>2. ASSUME NEW n \in Msgs, Publish(n) \/ PublishInDoubt(n)
        PROVE  of'[c] = m /\ Live(c)'
    BY <2>1, <2>2 DEF Publish, PublishInDoubt, Store, Bookkeeping
  <2>3. ASSUME NEW w \in Workers, Pop(w) PROVE of'[c] = m /\ Live(c)'
    BY <2>1, <2>3 DEF Pop, Bookkeeping
  <2>4. ASSUME NEW w \in Workers, PopMalformed(w) PROVE of'[c] = m /\ Live(c)'
    BY <2>1, <2>4 DEF PopMalformed, Settle, Bookkeeping
  <2>5. ASSUME NEW w \in Workers, HandlerReturns(w) PROVE of'[c] = m /\ Live(c)'
    BY <2>1, <2>5 DEF HandlerReturns
  <2>6. ASSUME NEW w \in Workers, HandlerRaises(w) PROVE of'[c] = m /\ Live(c)'
    BY <2>1, <2>6 DEF HandlerRaises
  <2>7. ASSUME NEW w \in Workers, Ack(w) PROVE of'[c] = m /\ Live(c)'
    <3>1. c # delivery[w]
      BY <1>l, <2>1, <2>7 DEF Ack, OwnsDelivery, Bookkeeping
    <3> QED
      BY <2>1, <2>7, <3>1 DEF Ack, OwnsDelivery, Settle, Drop, Bookkeeping
  <2>8. ASSUME NEW w \in Workers, Retry(w)
        PROVE  \E d \in Copies : (of[d] = m /\ Live(d))'
    <3>1. PICK d \in Copies : Store(d, msg[w], NextAttempt(w))
      BY <2>8 DEF Retry
    <3>2. CASE m = msg[w]
      BY <2>8, <3>1, <3>2 DEF Retry, Store
    <3>3. CASE m # msg[w]
      <4>1. c # d
        BY <2>1, <3>1 DEF Store
      <4>2. st[c] = "unacked" => holder[c] # w
        BY <2>1, <3>3 DEF Bookkeeping
      <4> QED
        BY <2>1, <2>8, <3>1, <4>1, <4>2 DEF Retry, Store
    <3> QED
      BY <3>2, <3>3
  <2>9. ASSUME NEW w \in Workers, DeadLetter(w) PROVE of'[c] = m /\ Live(c)'
    BY <2>1, <2>9 DEF DeadLetter, OwnsDelivery, Settle, Drop, Bookkeeping
  <2>10. ASSUME NEW w \in Workers, SettleStale(w) PROVE of'[c] = m /\ Live(c)'
    BY <2>1, <2>10 DEF SettleStale, Drop
  <2>11. ASSUME NEW w \in Workers, Restart(w) PROVE of'[c] = m /\ Live(c)'
    BY <2>1, <2>11 DEF Restart
  <2>12. ASSUME NEW w \in Workers, Crash(w) PROVE of'[c] = m /\ Live(c)'
    BY <2>1, <2>12 DEF Crash, Requeue, Drop
  <2>13. ASSUME NEW w \in Workers, ConnectionLost(w) PROVE of'[c] = m /\ Live(c)'
    BY <2>1, <2>13 DEF ConnectionLost, Requeue
  <2>14. CASE UNCHANGED vars
    BY <2>1, <2>14 DEF vars
  <2> HIDE DEF TypeOK, Live
  <2> QED
    BY <2>2, <2>3, <2>4, <2>5, <2>6, <2>7, <2>8, <2>9, <2>10, <2>11, <2>12,
       <2>13, <2>14 DEF Next, WorkerStep
<1> QED
  BY <1>h, <1>l

\* Publishing is the only way into accepted, and it stores a live copy.
LEMMA NoMessageLostStep ==
  ASSUME TypeOK, TypeOK', Bookkeeping, NoMessageLost, [Next]_vars
  PROVE  NoMessageLost'
<1> SUFFICES ASSUME NEW m \in accepted' PROVE Kept(m)'
  BY DEF NoMessageLost, Kept
<1>1. m \in Msgs
  BY DEF TypeOK
<1>2. CASE m \in accepted
  BY <1>1, <1>2, KeptStep DEF NoMessageLost, Kept
<1>3. CASE m \notin accepted
  <2>1. Publish(m)
    BY <1>3 DEF Next, vars, history, Publish, PublishInDoubt, WorkerStep, Pop,
      PopMalformed, HandlerReturns, HandlerRaises, Ack, Retry, DeadLetter,
      SettleStale, Restart, Crash, ConnectionLost
  <2> QED
    BY <2>1 DEF Publish, Store, Kept, Live, TypeOK
<1> QED
  BY <1>2, <1>3

\* A worker takes a message in hand by popping a live copy of it.
LEMMA InHandKeptStep ==
  ASSUME TypeOK, TypeOK', Bookkeeping, InHandKept, [Next]_vars
  PROVE  InHandKept'
<1> SUFFICES ASSUME NEW w \in Workers, (pc[w] \in Busy)' PROVE Kept(msg[w])'
  BY DEF InHandKept
<1>1. CASE Pop(w)
  <2>1. PICK c \in Copies : st[c] = "ready" /\ msg'[w] = of[c]
    BY <1>1 DEF Pop, TypeOK
  <2>2. of[c] \in Msgs /\ Kept(of[c])
    BY <2>1 DEF Bookkeeping, Kept, Live
  <2>3. Kept(of[c])'
    <3> DEFINE n == of[c]
    <3>1. n \in Msgs /\ Kept(n)
      BY <2>2
    <3>2. n' = n
      BY <1>1 DEF Pop
    <3> QED
      BY <3>1, <3>2, KeptStep DEF Kept
  <2> QED
    BY <2>1, <2>2, <2>3, <1>1 DEF Pop, Kept
<1>2. CASE ~Pop(w)
  <2>1. pc[w] \in Busy /\ msg'[w] = msg[w]
    BY <1>2 DEF Next, vars, history, worker, TypeOK, Busy, Publish, PublishInDoubt,
      WorkerStep, Pop, PopMalformed, HandlerReturns, HandlerRaises, Ack, Retry,
      DeadLetter, SettleStale, Drop, Restart, Crash, ConnectionLost
  <2>2. msg[w] \in Msgs /\ Kept(msg[w])
    BY <2>1 DEF InHandKept, Bookkeeping
  <2> QED
    BY <2>1, <2>2, KeptStep DEF Kept
<1> QED
  BY <1>1, <1>2

\* A copy enters the dead-letter queue malformed or exhausted, and neither a
\* failure count nor a dead copy ever changes back.
LEMMA DeadLetterStep ==
  ASSUME TypeOK, TypeOK', Bookkeeping, DeadLetterOnlyExhausted, [Next]_vars
  PROVE  DeadLetterOnlyExhausted'
<1> USE BusAssumption DEF TypeOK, Places, DeadLetterOnlyExhausted, history,
        worker, broker
<1>1. ASSUME NEW m \in Msgs, Publish(m) \/ PublishInDoubt(m)
      PROVE  DeadLetterOnlyExhausted'
  BY <1>1 DEF Publish, PublishInDoubt, Store
<1>2. ASSUME NEW w \in Workers, HandlerRaises(w) PROVE DeadLetterOnlyExhausted'
  BY <1>2 DEF HandlerRaises, AtMost, Bookkeeping
<1>3. ASSUME NEW w \in Workers, DeadLetter(w) PROVE DeadLetterOnlyExhausted'
  <2>1. failures[msg[w]] = MaxRetries + 1
    <3>1. pc[w] = "failed" /\ ~(attempt[w] < MaxRetries)
      BY <1>3 DEF DeadLetter, MayRetry
    <3>2. msg[w] \in Msgs /\ attempt[w] < failures[msg[w]]
      BY <3>1 DEF Bookkeeping, Busy
    <3>3. attempt[w] \in 0..MaxRetries /\ failures[msg[w]] \in 0..(MaxRetries + 1)
      BY <3>2
    <3> HIDE DEF TypeOK, DeadLetterOnlyExhausted
    <3> QED
      BY <3>1, <3>2, <3>3
  <2> QED
    BY <1>3, <2>1 DEF DeadLetter, OwnsDelivery, Settle, Bookkeeping
<1>4. ASSUME NEW w \in Workers, PopMalformed(w) PROVE DeadLetterOnlyExhausted'
  BY <1>4 DEF PopMalformed, Settle
<1>5. ASSUME NEW w \in Workers,
             Pop(w) \/ HandlerReturns(w) \/ Restart(w) \/ SettleStale(w)
      PROVE  DeadLetterOnlyExhausted'
  BY <1>5 DEF Pop, HandlerReturns, Restart, SettleStale
<1>6. ASSUME NEW w \in Workers, Ack(w) PROVE DeadLetterOnlyExhausted'
  BY <1>6 DEF Ack, OwnsDelivery, Settle
<1>7. ASSUME NEW w \in Workers, Retry(w) PROVE DeadLetterOnlyExhausted'
  BY <1>7 DEF Retry, Store
<1>8. ASSUME NEW w \in Workers, Crash(w) \/ ConnectionLost(w)
      PROVE  DeadLetterOnlyExhausted'
  BY <1>8 DEF Crash, ConnectionLost, Requeue
<1>9. CASE UNCHANGED vars
  BY <1>9 DEF vars
<1> QED
  BY <1>1, <1>2, <1>3, <1>4, <1>5, <1>6, <1>7, <1>8, <1>9 DEF Next, WorkerStep

BusInv ==
  /\ TypeOK
  /\ Bookkeeping
  /\ NoMessageLost
  /\ InHandKept
  /\ DeadLetterOnlyExhausted

\* The bus keeps its types and its bookkeeping.
LEMMA BusInvariant == Spec => []BusInv
<1>1. Init => BusInv
  BY BusAssumption DEF Init, BusInv, TypeOK, Places, Points, Bookkeeping, Busy,
    NoMessageLost, InHandKept, DeadLetterOnlyExhausted
<1>2. BusInv /\ TypeOK' /\ [Next]_vars => BusInv'
  BY BookkeepingStep, NoMessageLostStep, InHandKeptStep, DeadLetterStep DEF BusInv
<1> QED
  BY <1>1, <1>2, TypeCorrect, PTL DEF Spec

\* No message the bus accepted is lost, for any number of workers, messages,
\* retries and faults: the order publish-then-ack of queue.py's retry and the
\* broker's requeue together keep a live copy until a handler has returned.
THEOREM MessagesSurvive == Spec => []NoMessageLost
  BY BusInvariant, PTL DEF BusInv

\* The dead-letter queue holds only malformed messages and messages whose
\* handler raised max_retries + 1 times.
THEOREM DeadLettersExhausted == Spec => []DeadLetterOnlyExhausted
  BY BusInvariant, PTL DEF BusInv

-----------------------------------------------------------------------------
(* The bus implements AtLeastOnce.  Publishing enqueues; a handler that     *)
(* returns completes; a reject parks; an ack removes the message only when  *)
(* no other copy waits, and then it is completed or parked.                 *)

Pending == {m \in Msgs : \E c \in Copies : of[c] = m /\ st[c] \in {"ready", "unacked"}}
Completed == {m \in Msgs : Handled(m)}
Parked == {m \in Msgs : \E c \in Copies : of[c] = m /\ st[c] = "dead"}

\* A kept message is in one of the three sets of the promise.
LEMMA KeptIsPromised ==
  ASSUME TypeOK, NEW m \in Msgs, Kept(m)
  PROVE  m \in Pending \cup Completed \cup Parked
  BY DEF Kept, Live, Pending, Completed, Parked

\* Storing a copy of m adds m to the pending messages and nothing else.
LEMMA StoreEnqueues ==
  ASSUME TypeOK, NEW m \in Msgs, NEW c \in Copies, NEW r, Store(c, m, r)
  PROVE  Pending' = Pending \cup {m} /\ Parked' = Parked
<1> USE DEF TypeOK, Store
<1>1. \A d \in Copies : d # c => of'[d] = of[d] /\ st'[d] = st[d]
  OBVIOUS
<1>2. of'[c] = m /\ st'[c] = "ready" /\ st[c] = "free"
  OBVIOUS
<1> HIDE DEF TypeOK, Store
<1> QED
  BY <1>1, <1>2 DEF Pending, Parked

\* Settling a stored copy c takes at most its message out of the pending ones,
\* and parks exactly that message when the copy is dead-lettered.
LEMMA SettleRemoves ==
  ASSUME TypeOK, NEW c \in Copies, NEW place \in {"free", "dead"},
         st[c] \in {"ready", "unacked"}, of[c] \in Msgs, Settle(c, place)
  PROVE  /\ of[c] \in Pending
         /\ Pending' \in {Pending, Pending \ {of[c]}}
         /\ Parked' = IF place = "dead" THEN Parked \cup {of[c]} ELSE Parked
<1>1. \A d \in Copies : d # c => of'[d] = of[d] /\ st'[d] = st[d]
  BY DEF TypeOK, Settle
<1>2. of'[c] = of[c] /\ st'[c] = place
  BY DEF TypeOK, Settle
<1>3. of[c] \in Pending
  BY DEF Pending
<1>4. \A m \in Msgs : m # of[c] => (m \in Pending <=> m \in Pending')
  BY <1>1, <1>2 DEF Pending
<1>5. Pending' \in {Pending, Pending \ {of[c]}}
  <2>1. Pending \subseteq Msgs /\ Pending' \subseteq Msgs
    BY DEF Pending
  <2>2. CASE of[c] \in Pending'
    <3>1. Pending' = Pending
      BY <1>3, <1>4, <2>1, <2>2
    <3> QED
      BY <3>1
  <2>3. CASE of[c] \notin Pending'
    <3>1. Pending' = Pending \ {of[c]}
      BY <1>3, <1>4, <2>1, <2>3
    <3> QED
      BY <3>1
  <2> QED
    BY <2>2, <2>3
<1>6. Parked' = IF place = "dead" THEN Parked \cup {of[c]} ELSE Parked
  BY <1>1, <1>2 DEF Parked
<1> QED
  BY <1>3, <1>5, <1>6

\* A requeue moves unacknowledged copies back to ready: nothing the promise
\* can see changes.
LEMMA RequeueStutters ==
  ASSUME TypeOK, Bookkeeping, NEW w \in Workers, Requeue(w)
  PROVE  Pending' = Pending /\ Parked' = Parked
<1>1. \A c \in Copies :
        /\ of'[c] = of[c]
        /\ st'[c] = st[c] \/ (st[c] = "unacked" /\ st'[c] = "ready")
  <2> SUFFICES ASSUME NEW c \in Copies
               PROVE  /\ of'[c] = of[c]
                      /\ st'[c] = st[c] \/ (st[c] = "unacked" /\ st'[c] = "ready")
    OBVIOUS
  <2>1. of'[c] = of[c] /\ st'[c] = IF holder[c] = w THEN "ready" ELSE st[c]
    BY DEF Requeue
  <2>2. holder[c] = w => st[c] = "unacked"
    BY BusAssumption DEF Bookkeeping
  <2> QED
    BY <2>1, <2>2
<1> QED
  BY <1>1 DEF Pending, Parked

\* Every step of the bus is a step of the promise or leaves it unchanged.
LEMMA PromiseStep ==
  ASSUME BusInv, TypeOK', [Next]_vars
  PROVE  [Promise!ANext]_(Promise!avars)
<1> DEFINE Same == Pending' = Pending /\ Completed' = Completed /\ Parked' = Parked
<1> SUFFICES
      \/ \E m \in Msgs :
           \/ /\ Pending' = Pending \cup {m}
              /\ Completed' = Completed /\ Parked' = Parked
           \/ /\ m \in Pending \cup Completed \cup Parked
              /\ Completed' = Completed \cup {m}
              /\ Pending' = Pending /\ Parked' = Parked
           \/ /\ m \in Pending
              /\ Parked' = Parked \cup {m}
              /\ Pending' \in {Pending, Pending \ {m}}
              /\ Completed' = Completed
           \/ /\ m \in Pending
              /\ m \in Completed \cup Parked
              /\ Pending' = Pending \ {m}
              /\ Completed' = Completed /\ Parked' = Parked
      \/ Same
  BY DEF Promise!ANext, Promise!avars, Promise!Enqueue, Promise!Complete,
    Promise!Park, Promise!Remove, Pending, Completed, Parked
<1> USE DEF BusInv
<1>c. ASSUME completions' = completions PROVE Completed' = Completed
  BY <1>c DEF Completed, Handled
<1>s. ASSUME UNCHANGED <<st, of>> PROVE Pending' = Pending /\ Parked' = Parked
  BY <1>s DEF Pending, Parked
<1>1. ASSUME NEW m \in Msgs, Publish(m) \/ PublishInDoubt(m)
      PROVE  Pending' = Pending \cup {m} /\ Completed' = Completed /\ Parked' = Parked
  <2>1. PICK c \in Copies : Store(c, m, 0)
    BY <1>1 DEF Publish, PublishInDoubt
  <2>2. completions' = completions
    BY <1>1 DEF Publish, PublishInDoubt, history
  <2> QED
    BY <2>1, <2>2, <1>c, StoreEnqueues
<1>2. ASSUME NEW w \in Workers, Pop(w) PROVE Same
  <2>1. \A c \in Copies :
          /\ of'[c] = of[c]
          /\ st'[c] = st[c] \/ (st[c] = "ready" /\ st'[c] = "unacked")
    <3>1. PICK d \in Copies : st[d] = "ready" /\ st' = [st EXCEPT ![d] = "unacked"]
      BY <1>2 DEF Pop
    <3>2. of' = of
      BY <1>2 DEF Pop
    <3>3. st \in [Copies -> Places]
      BY DEF TypeOK
    <3> HIDE DEF BusInv
    <3> QED
      BY <3>1, <3>2, <3>3
  <2>2. Pending' = Pending /\ Parked' = Parked
    BY <2>1 DEF Pending, Parked
  <2> QED
    BY <2>2, <1>2, <1>c DEF Pop, history
<1>3. ASSUME NEW w \in Workers, PopMalformed(w)
      PROVE  \E m \in Msgs :
               /\ m \in Pending
               /\ Parked' = Parked \cup {m}
               /\ Pending' \in {Pending, Pending \ {m}}
               /\ Completed' = Completed
  <2>1. PICK c \in Copies : st[c] = "ready" /\ Settle(c, "dead")
    BY <1>3 DEF PopMalformed
  <2>2. of[c] \in Msgs
    BY <2>1 DEF Bookkeeping
  <2>3. Completed' = Completed
    BY <1>3, <1>c DEF PopMalformed, history
  <2> QED
    BY <2>1, <2>2, <2>3, SettleRemoves
<1>4. ASSUME NEW w \in Workers, HandlerReturns(w)
      PROVE  \E m \in Msgs :
               /\ m \in Pending \cup Completed \cup Parked
               /\ Completed' = Completed \cup {m}
               /\ Pending' = Pending /\ Parked' = Parked
  <2>1. msg[w] \in Msgs /\ Kept(msg[w])
    BY <1>4 DEF HandlerReturns, Bookkeeping, InHandKept, Busy
  <2>2. Completed' = Completed \cup {msg[w]}
    <3>1. \A m \in Msgs : m # msg[w] => completions'[m] = completions[m]
      BY <1>4 DEF HandlerReturns, TypeOK
    <3>2. completions'[msg[w]] > 0
      <4>1. completions[msg[w]] \in 0..2
        BY <2>1 DEF TypeOK
      <4>2. completions'[msg[w]] = AtMost(completions[msg[w]] + 1, 2)
        BY <1>4, <2>1 DEF HandlerReturns, TypeOK
      <4> QED
        BY <4>1, <4>2 DEF AtMost
    <3> QED
      BY <2>1, <3>1, <3>2 DEF Completed, Handled
  <2>3. Pending' = Pending /\ Parked' = Parked
    BY <1>4, <1>s DEF HandlerReturns, broker
  <2> QED
    BY <2>1, <2>2, <2>3, KeptIsPromised
<1>5. ASSUME NEW w \in Workers,
             HandlerRaises(w) \/ SettleStale(w) \/ Restart(w)
      PROVE  Same
  BY <1>5, <1>c, <1>s DEF HandlerRaises, SettleStale, Restart, broker, history
<1>6. ASSUME NEW w \in Workers, Ack(w)
      PROVE  \/ Same
             \/ \E m \in Msgs :
                  /\ m \in Pending
                  /\ m \in Completed \cup Parked
                  /\ Pending' = Pending \ {m}
                  /\ Completed' = Completed /\ Parked' = Parked
  <2> DEFINE d == delivery[w]
             m == msg[w]
  <2>1. /\ d \in Copies /\ of[d] = m /\ m \in Msgs
        /\ st[d] = "unacked" /\ holder[d] = w
    BY <1>6, BusAssumption DEF Ack, OwnsDelivery, Bookkeeping, Busy, TypeOK
  <2>2. /\ m \in Pending
        /\ Pending' \in {Pending, Pending \ {m}}
        /\ Parked' = Parked
    BY <1>6, <2>1, SettleRemoves DEF Ack
  <2>3. Completed' = Completed
    BY <1>6, <1>c DEF Ack, history
  <2>4. CASE m \in Completed \cup Parked
    BY <2>1, <2>2, <2>3, <2>4
  <2>5. CASE m \notin Completed \cup Parked
    <3>1. pc[w] = "retried"
      BY <1>6, <2>1, <2>5 DEF Ack, Bookkeeping, Completed
    <3>2. PICK c \in Copies : of[c] = m /\ Live(c)
      BY <2>1, <2>5, <3>1 DEF InHandKept, Kept, Busy, Completed
    <3>3. c # d /\ st[c] \in {"ready", "unacked"}
      BY <2>1, <2>5, <3>1, <3>2 DEF Live, Parked
    <3>4. m \in Pending'
      BY <1>6, <2>1, <3>2, <3>3 DEF Ack, Settle, TypeOK, Pending
    <3> QED
      BY <2>2, <2>3, <3>4
  <2> QED
    BY <2>4, <2>5
<1>7. ASSUME NEW w \in Workers, Retry(w)
      PROVE  \E m \in Msgs :
               /\ Pending' = Pending \cup {m}
               /\ Completed' = Completed /\ Parked' = Parked
  <2>1. msg[w] \in Msgs
    BY <1>7 DEF Retry, Bookkeeping, Busy
  <2>2. PICK c \in Copies : Store(c, msg[w], NextAttempt(w))
    BY <1>7 DEF Retry
  <2>3. Completed' = Completed
    BY <1>7, <1>c DEF Retry, history
  <2> QED
    BY <2>1, <2>2, <2>3, StoreEnqueues
<1>8. ASSUME NEW w \in Workers, DeadLetter(w)
      PROVE  \E m \in Msgs :
               /\ m \in Pending
               /\ Parked' = Parked \cup {m}
               /\ Pending' \in {Pending, Pending \ {m}}
               /\ Completed' = Completed
  <2>1. delivery[w] \in Copies /\ st[delivery[w]] = "unacked" /\ of[delivery[w]] \in Msgs
    BY <1>8, BusAssumption DEF DeadLetter, OwnsDelivery, Bookkeeping, TypeOK
  <2>2. Completed' = Completed
    BY <1>8, <1>c DEF DeadLetter, history
  <2> QED
    BY <1>8, <2>1, <2>2, SettleRemoves DEF DeadLetter
<1>9. ASSUME NEW w \in Workers, Crash(w) \/ ConnectionLost(w) PROVE Same
  BY <1>9, <1>c, RequeueStutters DEF Crash, ConnectionLost, history
<1>10. CASE UNCHANGED vars
  BY <1>10, <1>c, <1>s DEF vars, broker, history
<1> HIDE DEF Same, BusInv
<1> QED
  BY <1>1, <1>2, <1>3, <1>4, <1>5, <1>6, <1>7, <1>8, <1>9, <1>10
  DEF Next, WorkerStep

\* The RabbitMQ transport and run_forever implement the at-least-once promise
\* for any number of workers, copies and faults: a message leaves the queue
\* only when a handler has completed for it or it is dead-lettered.
THEOREM BusImplementsPromise == Spec => ImplementsPromise
<1>1. Init => Promise!AInit
  BY DEF Init, Promise!AInit, Handled
<1>2. BusInv /\ TypeOK' /\ [Next]_vars => [Promise!ANext]_(Promise!avars)
  BY PromiseStep
<1> QED
  BY <1>1, <1>2, BusInvariant, TypeCorrect, PTL
  DEF Spec, ImplementsPromise, Promise!ASpec, BusInv

=============================================================================
