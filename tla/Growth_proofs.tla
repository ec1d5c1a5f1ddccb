---------------------------- MODULE Growth_proofs ----------------------------
(***************************************************************************)
(* Proofs about the services around users and admins: referrals, source    *)
(* suggestions, audience tags and content automation.  Every theorem is    *)
(* about one service by itself, as the services share no state.            *)
(***************************************************************************)
EXTENDS Growth, FiniteSetTheorems, FunctionTheorems, TLAPS

-----------------------------------------------------------------------------
(* The instances have finite sets of their own, with the same definitions.  *)

\* The referral module's finite sets are the library's.
LEMMA FiniteSetsOfReferrals ==
  \A S : (Ref!IsFiniteSet(S) <=> IsFiniteSet(S)) /\ Ref!Cardinality(S) = Cardinality(S)
BY Zenon DEF IsFiniteSet, Ref!IsFiniteSet, Cardinality, Ref!Cardinality

\* The suggestion module's finite sets are the library's.
LEMMA FiniteSetsOfSuggestions ==
  \A S : Sug!Cardinality(S) = Cardinality(S)
BY Zenon DEF IsFiniteSet, Sug!IsFiniteSet, Cardinality, Sug!Cardinality

\* The content module's cardinality is the library's.
LEMMA FiniteSetsOfContent ==
  \A S : Con!Cardinality(S) = Cardinality(S)
BY Zenon DEF IsFiniteSet, Con!IsFiniteSet, Cardinality, Con!Cardinality

-----------------------------------------------------------------------------
(* Referrals                                                               *)

\* A referral event is empty or names its referrer and has a status; a start in
\* flight names two users.
RefType ==
  /\ \A u \in Users :
       event[u] = Ref!NoEvent \/ event[u] \in [referrer : Users, status : {"pending", "active"}]
  /\ DOMAIN event = Users
  /\ \A r \in Requests :
       request[r].at # None => request[r].user \in Users /\ request[r].referrer \in Users
  /\ DOMAIN request = Requests
  /\ active \in [Users -> Nat] /\ rpremium \in [Users -> Nat] /\ told \in [Users -> Nat]
  /\ award \subseteq Users

\* Referral steps keep the types.
LEMMA RefTypeStep ==
  ASSUME Ref!Constants, RefType, Ref!Next
  PROVE  RefType'
<1> USE DEF Ref!Constants, RefType, Ref!NoEvent, Ref!NoRequest, Ref!Finish
<1>1. ASSUME NEW r \in Requests, NEW u \in Users, NEW code \in Users, Ref!Start(r, u, code)
      PROVE  RefType'
  BY <1>1 DEF Ref!Start
<1>2. ASSUME UNCHANGED <<event, active, award, rpremium, told>>,
             NEW r \in Requests, request[r].at # None, NEW q,
             request' = [request EXCEPT ![r] = q],
             q = Ref!NoRequest \/ (q.user = request[r].user /\ q.referrer = request[r].referrer)
      PROVE  RefType'
  BY <1>2
<1>3. ASSUME NEW r \in Requests, Ref!Walk(r) \/ Ref!CheckExisting(r) PROVE RefType'
  <2>1. UNCHANGED <<event, active, award, rpremium, told>> /\ request[r].at # None
    BY <1>3 DEF Ref!Walk, Ref!CheckExisting
  <2>2. CASE request' = [request EXCEPT ![r] = Ref!NoRequest]
    BY <1>2, <2>1, <2>2
  <2>3. ASSUME NEW at, request' = [request EXCEPT ![r].at = at] PROVE RefType'
    <3>1. request' = [request EXCEPT ![r] = [request[r] EXCEPT !.at = at]]
      BY <2>3
    <3> QED
      BY <1>2, <2>1, <3>1
  <2>4. ASSUME NEW c, NEW s, request' = [request EXCEPT ![r].current = c, ![r].visited = s]
        PROVE  RefType'
    <3>1. request' = [request EXCEPT ![r] = [request[r] EXCEPT !.current = c, !.visited = s]]
      BY <2>4
    <3> QED
      BY <1>2, <2>1, <3>1
  <2> HIDE DEF RefType
  <2>5. CASE Ref!CheckExisting(r)
    BY <2>2, <2>3, <2>5 DEF Ref!CheckExisting
  <2>6. CASE Ref!Walk(r)
    BY <2>2, <2>3, <2>4, <2>6 DEF Ref!Walk
  <2> QED
    BY <1>3, <2>5, <2>6
<1>4. ASSUME NEW r \in Requests, Ref!Create(r) PROVE RefType'
  BY <1>4 DEF Ref!Create, Ref!Inserted
<1>5. ASSUME NEW u \in Users, Ref!WindowPasses(u) PROVE RefType'
  BY <1>5 DEF Ref!WindowPasses
<1>6. ASSUME NEW u \in Users, NEW b \in BOOLEAN, Ref!Activate(u, b) PROVE RefType'
  BY <1>6 DEF Ref!Activate, Ref!ActivateOnce
<1>7. CASE Ref!Restart
  BY <1>7 DEF Ref!Restart
<1> QED
  BY <1>1, <1>3, <1>4, <1>5, <1>6, <1>7 DEF Ref!Next

\* Only an activation changes who counts as an active referral: it adds one
\* user to those of one referrer.
LEMMA ReferredStep ==
  ASSUME Ref!Constants, RefType, NEW u \in Users, NEW b \in BOOLEAN, Ref!Activate(u, b)
  PROVE  \E r \in Users :
           /\ r = event[u].referrer /\ u \notin Ref!Referred(r)
           /\ Ref!Referred(r)' = Ref!Referred(r) \cup {u}
           /\ \A v \in Users : v # r => Ref!Referred(v)' = Ref!Referred(v)
<1>1. event[u].status = "pending" /\ event[u].referrer \in Users
  BY DEF Ref!Activate, Ref!ActivateOnce, Ref!Constants, RefType, Ref!NoEvent
<1>2. PICK r \in Users : r = event[u].referrer
  BY <1>1
<1>3. /\ event'[u].status = "active" /\ event'[u].referrer = r
      /\ \A v \in Users : v # u => event'[v] = event[v]
  BY <1>1, <1>2 DEF Ref!Activate, Ref!ActivateOnce, RefType, Ref!NoEvent
<1>4. u \notin Ref!Referred(r) /\ Ref!Referred(r)' = Ref!Referred(r) \cup {u}
  BY <1>1, <1>2, <1>3 DEF Ref!Referred
<1>5. ASSUME NEW v \in Users, v # r PROVE Ref!Referred(v)' = Ref!Referred(v)
  BY <1>1, <1>2, <1>3, <1>5 DEF Ref!Referred
<1> QED
  BY <1>2, <1>4, <1>5

\* The state of one referrer's counters that AwardMatchesCount asks for.
Balanced(u, count) ==
  /\ active[u] = count
  /\ u \in award <=> active[u] >= Threshold
  /\ rpremium[u] = IF u \in award THEN 1 ELSE 0
  /\ told[u] <= rpremium[u]

\* The award property, user by user.
LEMMA BalancedForAll ==
  Ref!AwardMatchesCount <=> \A u \in Users : Balanced(u, Cardinality(Ref!Referred(u)))
BY FiniteSetsOfReferrals DEF Ref!AwardMatchesCount, Balanced

\* The counter on the referrer's row counts the active events, and premium is
\* given exactly once to each referrer at the threshold, for every number of
\* users, concurrent starts and any threshold (activate_once).
THEOREM AwardsMatchCounts ==
  ASSUME Ref!Constants
  PROVE  Ref!Spec => []AwardMatchesCount
<1> DEFINE Inv == RefType /\ \A u \in Users : Balanced(u, Cardinality(Ref!Referred(u)))
<1>1. Ref!Init => Inv
  <2> SUFFICES ASSUME Ref!Init PROVE Inv
    OBVIOUS
  <2>1. RefType
    BY DEF Ref!Init, RefType, Ref!NoEvent, Ref!NoRequest
  <2>2. \A u \in Users : Ref!Referred(u) = {}
    BY DEF Ref!Init, Ref!Referred, Ref!NoEvent, Ref!Constants
  <2>3. Cardinality({}) = 0
    BY FS_EmptySet
  <2>4. \A u \in Users : Balanced(u, 0)
    BY DEF Ref!Init, Balanced, Ref!Constants
  <2> QED
    BY <2>1, <2>2, <2>3, <2>4
<1>2. Inv /\ [Ref!Next]_(Ref!vars) => Inv'
  <2> SUFFICES ASSUME Inv, [Ref!Next]_(Ref!vars) PROVE Inv'
    OBVIOUS
  <2>1. RefType'
    <3>1. CASE Ref!Next
      BY <3>1, RefTypeStep
    <3>2. CASE UNCHANGED Ref!vars
      BY <3>2 DEF Ref!vars, RefType
    <3> QED
      BY <3>1, <3>2
  <2>2. ASSUME NEW u \in Users, NEW b \in BOOLEAN, Ref!Activate(u, b),
               NEW v \in Users
        PROVE  Balanced(v, Cardinality(Ref!Referred(v)))'
    <3>1. PICK r \in Users :
            /\ r = event[u].referrer /\ u \notin Ref!Referred(r)
            /\ Ref!Referred(r)' = Ref!Referred(r) \cup {u}
            /\ \A w \in Users : w # r => Ref!Referred(w)' = Ref!Referred(w)
      BY <2>2, ReferredStep
    <3>2. CASE v # r
      <4>1. /\ active'[v] = active[v] /\ (v \in award' <=> v \in award)
            /\ rpremium'[v] = rpremium[v] /\ told'[v] = told[v]
        BY <2>2, <3>1, <3>2 DEF Ref!Activate, Ref!ActivateOnce, RefType
      <4>2. Balanced(v, Cardinality(Ref!Referred(v))) /\ Ref!Referred(v)' = Ref!Referred(v)
        BY <3>1, <3>2
      <4> QED
        BY <4>1, <4>2 DEF Balanced
    <3>3. CASE v = r
      <4>1. IsFiniteSet(Users) /\ Ref!Referred(r) \subseteq Users
        BY FiniteSetsOfReferrals DEF Ref!Referred, Ref!Constants
      <4>2. IsFiniteSet(Ref!Referred(r))
        BY <4>1, FS_Subset
      <4>3. Cardinality(Ref!Referred(r)') = Cardinality(Ref!Referred(r)) + 1
        BY <3>1, <4>2, FS_AddElement
      <4>4. /\ active'[r] = active[r] + 1
            /\ r \in award' <=> r \in award \/ active[r] + 1 >= Threshold
            /\ rpremium'[r] = IF active[r] + 1 >= Threshold /\ r \notin award
                              THEN rpremium[r] + 1 ELSE rpremium[r]
            /\ told'[r] = told[r] \/ (active[r] + 1 >= Threshold /\ r \notin award
                                      /\ told'[r] = told[r] + 1)
        BY <2>2, <3>1 DEF Ref!Activate, Ref!ActivateOnce, Ref!Earns, RefType
      <4>5. active[r] \in Nat /\ rpremium[r] \in Nat /\ told[r] \in Nat /\ Threshold \in Nat
        BY <2>1, <3>1 DEF RefType, Ref!Constants
      <4>6. Balanced(r, Cardinality(Ref!Referred(r)))
        OBVIOUS
      <4>7. /\ r \in award' <=> active'[r] >= Threshold
            /\ rpremium'[r] = IF r \in award' THEN 1 ELSE 0
            /\ told'[r] <= rpremium'[r]
        BY <4>4, <4>5, <4>6 DEF Balanced
      <4> QED
        BY <3>3, <4>3, <4>4, <4>6, <4>7 DEF Balanced
    <3> QED
      BY <3>2, <3>3
  <2>3. ASSUME UNCHANGED <<active, award, rpremium, told>>, NEW v \in Users,
               Ref!Referred(v)' = Ref!Referred(v)
        PROVE  Balanced(v, Cardinality(Ref!Referred(v)))'
    BY <2>3 DEF Balanced
  <2>4. ASSUME NEW r \in Requests, Ref!Create(r), NEW v \in Users
        PROVE  Balanced(v, Cardinality(Ref!Referred(v)))'
    <3>1. \A w \in Users :
            \/ event'[w] = event[w]
            \/ event[w] = Ref!NoEvent /\ event'[w].status = "pending"
      BY <2>4 DEF Ref!Create, Ref!Inserted, Ref!HasEvent, RefType
    <3>2. Ref!Referred(v)' = Ref!Referred(v)
      BY <3>1 DEF Ref!Referred, Ref!NoEvent, Ref!Constants
    <3> QED
      BY <2>3, <2>4, <3>2 DEF Ref!Create
  <2>5. ASSUME UNCHANGED <<event, active, award, rpremium, told>>, NEW v \in Users
        PROVE  Balanced(v, Cardinality(Ref!Referred(v)))'
    <3>1. Ref!Referred(v)' = Ref!Referred(v)
      BY <2>5 DEF Ref!Referred
    <3> QED
      BY <2>3, <2>5, <3>1
  <2>6. \A v \in Users : Balanced(v, Cardinality(Ref!Referred(v)))'
    BY <2>2, <2>4, <2>5
    DEF Ref!Next, Ref!vars, Ref!Start, Ref!Walk, Ref!CheckExisting, Ref!WindowPasses,
      Ref!Restart
  <2> QED
    BY <2>1, <2>6
<1>3. Inv => Ref!AwardMatchesCount
  BY BalancedForAll
<1> QED
  BY <1>1, <1>2, <1>3, PTL DEF Ref!Spec, AwardMatchesCount

\* A start in flight, and how far up the chain of referrers it has come.
RequestShape ==
  [user : Users, referrer : Users, at : {"walk", "existing", "create"}, current : Users,
   visited : SUBSET Users]

Reached(q) == q.visited \cup {q.current}

\* The walk began at the referrer, has not met the user, and has read the event of everybody it
\* has left behind; where it ended there is none.
WalkSound(q) ==
  /\ q.referrer \in Reached(q) /\ q.user \notin Reached(q)
  /\ \A v \in q.visited : event[v].referrer \in Reached(q)
  /\ q.at \in {"existing", "create"} => event[q.current] = Ref!NoEvent

ChainInv ==
  /\ RefType
  /\ \A r \in Requests : request[r] = Ref!NoRequest \/ request[r] \in RequestShape
  /\ ~raced =>
       /\ \A S \in SUBSET Users : ~Ref!Ring(S)
       /\ \A r \in Requests : request[r] = Ref!NoRequest \/ WalkSound(request[r])

\* A step of one start that changes no event.
LEMMA RequestMoves ==
  ASSUME ChainInv, RefType', NEW r \in Requests, NEW q, request' = [request EXCEPT ![r] = q],
         q = Ref!NoRequest \/ (q \in RequestShape /\ (~raced => WalkSound(q))),
         UNCHANGED <<event, raced>>
  PROVE  ChainInv'
<1>1. \A s \in Requests : request'[s] = IF s = r THEN q ELSE request[s]
  BY DEF ChainInv, RefType
<1>2. \A s \in Requests : request'[s] = Ref!NoRequest \/ request'[s] \in RequestShape
  BY <1>1 DEF ChainInv
<1>3. ASSUME ~raced PROVE \A S \in SUBSET Users : ~Ref!Ring(S)'
  BY <1>3 DEF ChainInv, Ref!Ring
<1>4. ASSUME ~raced, NEW s \in Requests PROVE request'[s] = Ref!NoRequest \/ WalkSound(request[s])'
  <2>1. CASE s = r
    <3>1. request'[s] = q
      BY <1>1, <2>1
    <3>2. q = Ref!NoRequest \/ WalkSound(q)
      BY <1>4
    <3> QED
      BY <3>1, <3>2 DEF WalkSound, Reached
  <2>2. CASE s # r
    <3>1. request'[s] = request[s]
      BY <1>1, <2>2
    <3>2. request[s] = Ref!NoRequest \/ WalkSound(request[s])
      BY <1>4 DEF ChainInv
    <3> QED
      BY <3>1, <3>2 DEF WalkSound, Reached
  <2> QED
    BY <2>1, <2>2
<1> QED
  BY <1>2, <1>3, <1>4 DEF ChainInv

\* A new event closes no ring: the part of the ring above the referrer would have been one before.
LEMMA NoNewRing ==
  ASSUME Ref!Constants, RefType, NEW q \in RequestShape, WalkSound(q), event[q.current] = Ref!NoEvent,
         \A S \in SUBSET Users : ~Ref!Ring(S),
         \A v \in Users : v # q.user => event'[v] = event[v],
         event'[q.user] = event[q.user] \/ event'[q.user].referrer = q.referrer
  PROVE  \A S \in SUBSET Users : ~Ref!Ring(S)'
<1> SUFFICES ASSUME NEW S \in SUBSET Users, Ref!Ring(S)' PROVE FALSE
  OBVIOUS
<1>0. S # {} /\ \A u \in S : event'[u].referrer \in S
  BY DEF Ref!Ring
<1>1. CASE event'[q.user] = event[q.user] \/ q.user \notin S
  <2>1. \A u \in S : event'[u] = event[u]
    BY <1>1
  <2>2. Ref!Ring(S)
    BY <1>0, <2>1 DEF Ref!Ring
  <2> QED
    BY <2>2
<1>2. CASE event'[q.user].referrer = q.referrer /\ q.user \in S
  <2> DEFINE T == S \cap Reached(q)
  <2>1. q.referrer \in T
    BY <1>0, <1>2 DEF WalkSound
  <2>2. ASSUME NEW v \in T PROVE event[v].referrer \in T
    <3>1. v # q.user
      BY DEF WalkSound
    <3>2. event[v].referrer \in S
      BY <1>0, <3>1
    <3>3. v # q.current
      BY <3>2 DEF Ref!NoEvent, Ref!Constants
    <3>4. v \in q.visited
      BY <3>3 DEF Reached
    <3>5. event[v].referrer \in Reached(q)
      BY <3>4 DEF WalkSound
    <3> QED
      BY <3>2, <3>5
  <2>3. T \in SUBSET Users
    OBVIOUS
  <2>4. Ref!Ring(T)
    BY <2>1, <2>2 DEF Ref!Ring
  <2> QED
    BY <2>3, <2>4
<1> QED
  BY <1>1, <1>2

LEMMA ChainStep ==
  ASSUME Ref!Constants, ChainInv, [Ref!Next]_(Ref!vars)
  PROVE  ChainInv'
<1>0. RefType'
  <2>1. CASE Ref!Next
    BY <2>1, RefTypeStep DEF ChainInv
  <2>2. CASE UNCHANGED Ref!vars
    BY <2>2 DEF Ref!vars, RefType, ChainInv
  <2> QED
    BY <2>1, <2>2
<1>1. ASSUME UNCHANGED raced, request' = request \/ request' = [r \in Requests |-> Ref!NoRequest],
             \A u \in Users : /\ event'[u].referrer = event[u].referrer
                              /\ event[u] = Ref!NoEvent => event'[u] = Ref!NoEvent
      PROVE  ChainInv'
  <2>1. \A r \in Requests : request'[r] \in {request[r], Ref!NoRequest}
    BY <1>1
  <2>2. \A r \in Requests : request'[r] = Ref!NoRequest \/ request'[r] \in RequestShape
    BY <2>1 DEF ChainInv
  <2>3. ASSUME ~raced PROVE \A S \in SUBSET Users : ~Ref!Ring(S)'
    <3>1. SUFFICES ASSUME NEW S \in SUBSET Users, Ref!Ring(S)' PROVE FALSE
      OBVIOUS
    <3>2. Ref!Ring(S)
      BY <1>1, <3>1 DEF Ref!Ring
    <3> QED
      BY <2>3, <3>2 DEF ChainInv
  <2>4. ASSUME ~raced, NEW r \in Requests, request'[r] # Ref!NoRequest PROVE WalkSound(request[r])'
    <3>1. request'[r] = request[r] /\ request[r] \in RequestShape /\ WalkSound(request[r])
      BY <2>1, <2>4 DEF ChainInv
    <3>2. request[r].visited \subseteq Users /\ request[r].current \in Users
      BY <3>1 DEF RequestShape
    <3> QED
      BY <1>1, <3>1, <3>2 DEF WalkSound, Reached
  <2> QED
    BY <1>0, <1>1, <2>2, <2>3, <2>4 DEF ChainInv
<1>2. ASSUME NEW r \in Requests, NEW u \in Users, NEW code \in Users, Ref!Start(r, u, code)
      PROVE  ChainInv'
  <2> DEFINE q == [user |-> u, referrer |-> code, at |-> "walk", current |-> code, visited |-> {}]
  <2>1. UNCHANGED <<event, raced>>
    BY <1>2 DEF Ref!Start
  <2>2. CASE request' = request
    BY <1>1, <2>1, <2>2
  <2>3. CASE request' = [request EXCEPT ![r] = q] /\ code # u
    <3>1. q \in RequestShape /\ WalkSound(q)
      BY <2>3 DEF RequestShape, WalkSound, Reached
    <3> HIDE DEF q
    <3> QED
      BY <1>0, <2>1, <2>3, <3>1, RequestMoves
  <2> QED
    BY <1>2, <2>2, <2>3 DEF Ref!Start
<1>3. ASSUME NEW r \in Requests, Ref!Walk(r) PROVE ChainInv'
  <2> DEFINE q == request[r]
             e == event[q.current]
  <2>0. q.at = "walk" /\ UNCHANGED <<event, raced>>
    BY <1>3 DEF Ref!Walk
  <2>1. q \in RequestShape /\ (~raced => WalkSound(q))
    BY <2>0 DEF ChainInv, Ref!NoRequest, Ref!Constants
  <2>2. CASE Ref!Finish(r)
    BY <1>0, <2>0, <2>2, RequestMoves DEF Ref!Finish
  <2>3. CASE ~Ref!HasEvent(q.current) /\ request' = [request EXCEPT ![r].at = "existing"]
    <3> DEFINE p == [q EXCEPT !.at = "existing"]
    <3>1. request' = [request EXCEPT ![r] = p]
      BY <2>3
    <3>2. /\ p \in RequestShape /\ p.user = q.user /\ p.referrer = q.referrer
          /\ p.current = q.current /\ p.visited = q.visited
      BY <2>1 DEF RequestShape
    <3>3. e = Ref!NoEvent
      BY <2>3 DEF Ref!HasEvent
    <3> HIDE DEF p, q
    <3>4. ~raced => WalkSound(p)
      BY <2>1, <3>2, <3>3 DEF WalkSound, Reached
    <3> QED
      BY <1>0, <2>0, <3>1, <3>2, <3>4, RequestMoves
  <2>4. CASE /\ q.current \notin q.visited /\ ~(e # Ref!NoEvent /\ e.referrer = q.user)
             /\ Ref!HasEvent(q.current)
             /\ request' = [request EXCEPT ![r].current = e.referrer,
                                           ![r].visited = @ \cup {q.current}]
    <3> DEFINE p == [q EXCEPT !.current = e.referrer, !.visited = @ \cup {q.current}]
    <3>1. request' = [request EXCEPT ![r] = p]
      BY <2>4
    <3>2. e # Ref!NoEvent /\ e.referrer # q.user /\ q.current \in Users
      BY <2>1, <2>4 DEF Ref!HasEvent, RequestShape
    <3>3. e.referrer \in Users
      BY <3>2 DEF ChainInv, RefType
    <3>4. /\ p.user = q.user /\ p.referrer = q.referrer /\ p.at = "walk"
          /\ p.current = e.referrer /\ p.visited = q.visited \cup {q.current}
      BY <2>0, <2>1 DEF RequestShape
    <3>5. p \in RequestShape
      BY <2>1, <3>2, <3>3 DEF RequestShape
    <3> HIDE DEF p, q
    <3>6. ~raced => WalkSound(p)
      BY <2>1, <3>2, <3>4 DEF WalkSound, Reached
    <3> QED
      BY <1>0, <2>0, <3>1, <3>5, <3>6, RequestMoves
  <2> QED
    BY <1>3, <2>2, <2>3, <2>4 DEF Ref!Walk
<1>4. ASSUME NEW r \in Requests, Ref!CheckExisting(r) PROVE ChainInv'
  <2> DEFINE q == request[r]
  <2>0. q.at = "existing" /\ UNCHANGED <<event, raced>>
    BY <1>4 DEF Ref!CheckExisting
  <2>1. q \in RequestShape /\ (~raced => WalkSound(q))
    BY <2>0 DEF ChainInv, Ref!NoRequest, Ref!Constants
  <2>2. CASE Ref!Finish(r)
    BY <1>0, <2>0, <2>2, RequestMoves DEF Ref!Finish
  <2>3. CASE request' = [request EXCEPT ![r].at = "create"]
    <3> DEFINE p == [q EXCEPT !.at = "create"]
    <3>1. request' = [request EXCEPT ![r] = p]
      BY <2>3
    <3>2. /\ p \in RequestShape /\ p.user = q.user /\ p.referrer = q.referrer
          /\ p.current = q.current /\ p.visited = q.visited
      BY <2>1 DEF RequestShape
    <3> HIDE DEF p, q
    <3>4. ~raced => WalkSound(p)
      BY <2>0, <2>1, <3>2 DEF WalkSound, Reached
    <3> QED
      BY <1>0, <2>0, <3>1, <3>2, <3>4, RequestMoves
  <2> QED
    BY <1>4, <2>2, <2>3 DEF Ref!CheckExisting
<1>5. ASSUME NEW r \in Requests, Ref!Create(r) PROVE ChainInv'
  <2> DEFINE q == request[r]
  <2>0. /\ q.at = "create" /\ event' = Ref!Inserted(q.user, q.referrer)
        /\ request' = [request EXCEPT ![r] = Ref!NoRequest]
        /\ raced' = (raced \/ (event' # event /\ \E s \in Requests \ {r} : request[s] # Ref!NoRequest))
    BY <1>5 DEF Ref!Create, Ref!Finish
  <2>1. q \in RequestShape /\ (~raced => WalkSound(q))
    BY <2>0 DEF ChainInv, Ref!NoRequest, Ref!Constants
  <2>2. CASE event' = event
    <3>1. raced' = (raced \/ FALSE)
      BY <2>0, <2>2, Zenon
    <3>2. CASE raced
      <4>1. raced'
        BY <3>1, <3>2
      <4>2. \A s \in Requests : request'[s] = Ref!NoRequest \/ request'[s] \in RequestShape
        BY <2>0 DEF ChainInv, RefType
      <4> QED
        BY <1>0, <4>1, <4>2 DEF ChainInv
    <3>3. CASE ~raced
      <4>1. ~raced'
        BY <3>1, <3>3
      <4>2. \A s \in Requests : request'[s] = IF s = r THEN Ref!NoRequest ELSE request[s]
        BY <2>0 DEF ChainInv, RefType
      <4>3. \A s \in Requests : request'[s] = Ref!NoRequest \/ request'[s] \in RequestShape
        BY <4>2 DEF ChainInv
      <4>4. \A S \in SUBSET Users : ~Ref!Ring(S)'
        BY <2>2, <3>3 DEF ChainInv, Ref!Ring
      <4>5. ASSUME NEW s \in Requests, request'[s] # Ref!NoRequest PROVE WalkSound(request[s])'
        <5>1. request'[s] = request[s] /\ WalkSound(request[s])
          BY <3>3, <4>2, <4>5 DEF ChainInv
        <5> QED
          BY <2>2, <5>1 DEF WalkSound, Reached
      <4> QED
        BY <1>0, <4>3, <4>4, <4>5 DEF ChainInv
    <3> QED
      BY <3>2, <3>3
  <2>3. CASE event' # event
    <3>1. \A s \in Requests : request'[s] = IF s = r THEN Ref!NoRequest ELSE request[s]
      BY <2>0 DEF ChainInv, RefType
    <3>2. \A s \in Requests : request'[s] = Ref!NoRequest \/ request'[s] \in RequestShape
      BY <3>1 DEF ChainInv
    <3>3. CASE raced'
      BY <1>0, <3>2, <3>3 DEF ChainInv
    <3>4. CASE ~raced'
      <4>1. ~raced /\ \A s \in Requests : s # r => request[s] = Ref!NoRequest
        BY <2>0, <2>3, <3>4
      <4>2. \A s \in Requests : request'[s] = Ref!NoRequest
        BY <3>1, <4>1
      <4>3. q.user \in Users /\ ~Ref!HasEvent(q.user) /\ event' = [event EXCEPT ![q.user] = [referrer |-> q.referrer, status |-> "pending"]]
        BY <2>0, <2>1, <2>3 DEF Ref!Inserted, RequestShape
      <4>4. /\ \A v \in Users : v # q.user => event'[v] = event[v]
            /\ event'[q.user].referrer = q.referrer
        BY <4>3 DEF ChainInv, RefType
      <4>5. WalkSound(q) /\ event[q.current] = Ref!NoEvent
        BY <2>0, <2>1, <4>1 DEF WalkSound
      <4>6. \A S \in SUBSET Users : ~Ref!Ring(S)
        BY <4>1 DEF ChainInv
      <4>7. RefType
        BY DEF ChainInv
      <4> HIDE DEF q
      <4>8. \A S \in SUBSET Users : ~Ref!Ring(S)'
        BY <2>1, <4>4, <4>5, <4>6, <4>7, NoNewRing
      <4> QED
        BY <1>0, <3>2, <4>2, <4>8 DEF ChainInv
    <3> QED
      BY <3>3, <3>4
  <2> QED
    BY <2>2, <2>3
<1>6. ASSUME NEW u \in Users, Ref!WindowPasses(u) PROVE ChainInv'
  BY <1>1, <1>6 DEF Ref!WindowPasses
<1>7. ASSUME NEW u \in Users, NEW b \in BOOLEAN, Ref!Activate(u, b) PROVE ChainInv'
  <2>1. /\ event[u].status = "pending" /\ event' = [event EXCEPT ![u].status = "active"]
        /\ UNCHANGED <<request, raced>>
    BY <1>7 DEF Ref!Activate, Ref!ActivateOnce
  <2>2. event[u] # Ref!NoEvent
    BY <2>1 DEF Ref!NoEvent, Ref!Constants
  <2>3. event[u] \in [referrer : Users, status : {"pending", "active"}]
    BY <2>2 DEF ChainInv, RefType
  <2>4. \A v \in Users : /\ event'[v].referrer = event[v].referrer
                         /\ event[v] = Ref!NoEvent => event'[v] = Ref!NoEvent
    BY <2>1, <2>2, <2>3 DEF ChainInv, RefType
  <2> QED
    BY <1>1, <2>1, <2>4
<1>8. CASE Ref!Restart
  BY <1>1, <1>8 DEF Ref!Restart
<1>9. CASE UNCHANGED Ref!vars
  BY <1>1, <1>9 DEF Ref!vars
<1> QED
  BY <1>2, <1>3, <1>4, <1>5, <1>6, <1>7, <1>8, <1>9 DEF Ref!Next

\* For any number of users and of starts at once: users refer each other in a ring only if an
\* event was inserted while another start was being checked (register_start).
THEOREM CyclesOnlyByRace == ASSUME Ref!Constants PROVE Ref!Spec => []CycleOnlyByRace
<1>1. Ref!Init => ChainInv
  <2> SUFFICES ASSUME Ref!Init PROVE ChainInv
    OBVIOUS
  <2>1. RefType
    BY DEF Ref!Init, RefType, Ref!NoEvent, Ref!NoRequest
  <2>2. \A S \in SUBSET Users : ~Ref!Ring(S)
    BY DEF Ref!Init, Ref!Ring, Ref!NoEvent, Ref!Constants
  <2> QED
    BY <2>1, <2>2 DEF ChainInv, Ref!Init
<1>2. ChainInv /\ [Ref!Next]_(Ref!vars) => ChainInv'
  BY ChainStep
<1>3. ChainInv => CycleOnlyByRace
  BY DEF ChainInv, CycleOnlyByRace, Ref!CycleOnlyByRace
<1> QED
  BY <1>1, <1>2, <1>3, PTL DEF Ref!Spec

-----------------------------------------------------------------------------
(* Source suggestions                                                       *)

Statuses == {"pending", "approved", "rejected"}

Rows == [status : Statuses \cup {None}, user : Suggesters \cup {None}, rewarded : BOOLEAN]

Calls ==
  [at : {"read", "enable", "grant", "write", None}, action : {"approve", "reject", None},
   expected : Statuses \cup {None}, seen : Rows]

SugType ==
  /\ row \in Rows
  /\ row = Sug!NoRow \/ row.user \in Suggesters
  /\ premium \in [Suggesters -> Nat]
  /\ scall \in [Decisions -> Calls]
  /\ \A d \in Decisions : scall[d] = Sug!NoCall \/ (scall[d].at # None /\ row.user \in Suggesters)
  /\ enabled \in BOOLEAN /\ scrossed \in BOOLEAN

\* The source is enabled before the status is written.
EnabledFirst ==
  /\ row.status = "approved" => enabled
  /\ \A d \in Decisions : scall[d].action = "approve" /\ scall[d].at \in {"grant", "write"} => enabled

\* With no overlap one decision is in flight, and the row is as it read it.
Alone ==
  /\ \A d \in Decisions, e \in Decisions :
       scall[d] # Sug!NoCall /\ scall[e] # Sug!NoCall => d = e
  /\ \A d \in Decisions :
       /\ scall[d].at \in {"enable", "grant", "write"} => scall[d].seen = row
       /\ scall[d].at \in {"enable", "grant"} => scall[d].action = "approve"

\* The reward was given: the row says so, or the approval that gave it is about to.
Paid ==
  row.rewarded \/ \E d \in Decisions : scall[d].action = "approve" /\ scall[d].at = "write"

\* What was given is what Paid says.
RewardIsPaid ==
  IF Paid THEN \E u \in Suggesters : premium = [v \in Suggesters |-> IF v = u THEN 1 ELSE 0]
  ELSE \A u \in Suggesters : premium[u] = 0

SugInv == SugType /\ EnabledFirst /\ (~scrossed => Alone /\ RewardIsPaid)

\* A step of a decision changes its own call; the others stay.
LEMMA CallStep ==
  ASSUME SugType, NEW d \in Decisions, NEW c \in Calls, scall' = [scall EXCEPT ![d] = c]
  PROVE  /\ scall' \in [Decisions -> Calls] /\ scall'[d] = c
         /\ \A e \in Decisions \ {d} : scall'[e] = scall[e]
BY DEF SugType

\* Suggestion steps keep the types.
LEMMA SugTypeStep ==
  ASSUME Sug!Constants, SugType, Sug!Next PROVE SugType'
<1> USE DEF Sug!NoRow, Sug!NoCall, Sug!Constants
<1>a. Sug!NoCall \in Calls
  BY DEF Calls, Rows
<1>1. ASSUME NEW u \in Suggesters, Sug!Submit(u) PROVE SugType'
  <2>1. row' \in Rows /\ (row'.user = row.user \/ row'.user \in Suggesters) /\ (row' = row \/ row'.user \in Suggesters)
    BY <1>1 DEF Sug!Submit, Sug!Submitted, SugType, Rows, Statuses
  <2> QED
    BY <1>1, <2>1 DEF Sug!Submit, SugType
<1>2. ASSUME NEW d \in Decisions, NEW a \in {"approve", "reject"}, NEW k \in Keys,
             NEW x \in Statuses \cup {None}, Sug!Open(d, a, k, x)
      PROVE  SugType'
  BY <1>2 DEF Sug!Open, SugType, Calls, Rows
<1>3. ASSUME NEW d \in Decisions, Sug!Read(d) PROVE SugType'
  <2>1. CASE scall' = [scall EXCEPT ![d] = Sug!NoCall]
    BY <1>3, <1>a, <2>1, CallStep DEF SugType, Sug!Read
  <2>2. ASSUME NEW at \in {"enable", "write"},
               scall' = [scall EXCEPT ![d].at = at, ![d].seen = row]
        PROVE  SugType'
    <3>1. scall' = [scall EXCEPT ![d] = [scall[d] EXCEPT !.at = at, !.seen = row]]
      BY <2>2
    <3>0. PICK c : c = [scall[d] EXCEPT !.at = at, !.seen = row]
      OBVIOUS
    <3>2. c \in Calls /\ c.at = at
      BY <3>0 DEF SugType, Calls
    <3>3. row.user \in Suggesters /\ UNCHANGED <<row, premium, enabled, scrossed>>
      BY <1>3 DEF SugType, Sug!Read
    <3> QED
      BY <3>0, <3>1, <3>2, <3>3, CallStep DEF SugType
  <2> QED
    BY <1>3, <2>1, <2>2 DEF Sug!Read
<1>4. ASSUME NEW d \in Decisions, NEW at \in {"grant", "write"}, scall[d].at # None,
             scall' = [scall EXCEPT ![d].at = at]
      PROVE  /\ scall' \in [Decisions -> Calls]
             /\ \A e \in Decisions :
                  scall'[e] = Sug!NoCall \/ (scall'[e].at # None /\ row.user \in Suggesters)
  <2>1. scall' = [scall EXCEPT ![d] = [scall[d] EXCEPT !.at = at]]
    BY <1>4
  <2>0. PICK c : c = [scall[d] EXCEPT !.at = at]
    OBVIOUS
  <2>2. c \in Calls /\ c.at = at
    BY <2>0 DEF SugType, Calls
  <2>3. row.user \in Suggesters
    BY <1>4 DEF SugType
  <2> QED
    BY <2>0, <2>1, <2>2, <2>3, CallStep DEF SugType
<1>5. ASSUME NEW d \in Decisions, Sug!EnableSource(d) PROVE SugType'
  BY <1>4, <1>5 DEF Sug!EnableSource, SugType
<1>6. ASSUME NEW d \in Decisions, Sug!GrantPremium(d) PROVE SugType'
  <2>0. \A x : [premium EXCEPT ![x] = @ + 1] \in [Suggesters -> Nat]
    <3> SUFFICES ASSUME NEW x PROVE [premium EXCEPT ![x] = @ + 1] \in [Suggesters -> Nat]
      OBVIOUS
    <3>1. [premium EXCEPT ![x] = @ + 1]
          = [v \in Suggesters |-> IF v = x THEN premium[v] + 1 ELSE premium[v]]
      BY DEF SugType
    <3>2. \A v \in Suggesters : (IF v = x THEN premium[v] + 1 ELSE premium[v]) \in Nat
      BY DEF SugType
    <3> QED
      BY <3>1, <3>2
  <2>1. premium' \in [Suggesters -> Nat]
    BY <1>6, <2>0 DEF Sug!GrantPremium, Sug!Extended, SugType
  <2> QED
    BY <1>4, <1>6, <2>1 DEF Sug!GrantPremium, SugType
<1>7. ASSUME NEW d \in Decisions, Sug!SetApproved(d) \/ Sug!SetRejected(d) PROVE SugType'
  <2>1. scall[d].seen.rewarded \in BOOLEAN
    BY DEF SugType, Calls, Rows
  <2>2. row' \in Rows /\ row'.user = row.user
    BY <1>7, <2>1 DEF Sug!SetApproved, Sug!SetRejected, Sug!Written, SugType, Rows, Statuses
  <2>3. /\ scall' = [scall EXCEPT ![d] = Sug!NoCall] /\ scall[d].at = "write"
        /\ UNCHANGED <<premium, enabled, scrossed>>
    BY <1>7 DEF Sug!SetApproved, Sug!SetRejected
  <2>4. row.user \in Suggesters
    BY <2>3 DEF SugType
  <2> QED
    BY <1>a, <2>2, <2>3, <2>4, CallStep DEF SugType
<1>8. ASSUME NEW d \in Decisions, Sug!Abort(d) PROVE SugType'
  BY <1>8, <1>a, CallStep DEF Sug!Abort, SugType
<1> QED
  BY <1>1, <1>2, <1>3, <1>5, <1>6, <1>7, <1>8 DEF Sug!Next, Sug!Approve, Sug!Reject, Statuses

\* No step approves a suggestion before its source is enabled.
LEMMA EnabledFirstStep ==
  ASSUME Sug!Constants, SugType, EnabledFirst, Sug!Next PROVE EnabledFirst'
<1>1. ASSUME NEW u \in Suggesters, Sug!Submit(u) PROVE EnabledFirst'
  BY <1>1 DEF Sug!Submit, Sug!Submitted, EnabledFirst, SugType, Rows
<1>2. ASSUME NEW d \in Decisions, NEW c, scall' = [scall EXCEPT ![d] = c],
             c.action = "approve" /\ c.at \in {"grant", "write"} => enabled',
             row'.status = "approved" => enabled', enabled => enabled'
      PROVE  EnabledFirst'
  BY <1>2 DEF EnabledFirst, SugType
<1>3. ASSUME NEW d \in Decisions, NEW a \in {"approve", "reject"}, NEW k \in Keys,
             NEW x \in Statuses \cup {None}, Sug!Open(d, a, k, x)
      PROVE  EnabledFirst'
  BY <1>3 DEF Sug!Open, EnabledFirst, SugType
<1>4. Sug!NoCall.at = None /\ Sug!NoCall.action = None
      /\ None \notin {"approve", "reject", "grant", "write"}
  BY DEF Sug!NoCall, Sug!Constants
<1>5. ASSUME NEW d \in Decisions, Sug!Read(d) PROVE EnabledFirst'
  <2>1. CASE Sug!Conflict(d)
    BY <1>2, <1>4, <1>5, <2>1 DEF Sug!Read, EnabledFirst
  <2>2. CASE ~Sug!Conflict(d)
    <3>1. PICK at : /\ at = IF scall[d].action = "approve" THEN "enable" ELSE "write"
                    /\ scall' = [scall EXCEPT ![d].at = at, ![d].seen = row]
      BY <1>5, <2>2 DEF Sug!Read
    <3>2. PICK c : c = [scall[d] EXCEPT !.at = at, !.seen = row]
      OBVIOUS
    <3>3. c.at = at /\ c.action = scall[d].action
      BY <3>2 DEF SugType, Calls
    <3>4. scall' = [scall EXCEPT ![d] = c]
      BY <3>1, <3>2
    <3>5. c.action = "approve" => c.at = "enable"
      BY <3>1, <3>3
    <3> QED
      BY <1>2, <1>5, <3>4, <3>5 DEF Sug!Read, EnabledFirst
  <2> QED
    BY <2>1, <2>2
<1>6. ASSUME NEW d \in Decisions, NEW at \in {"grant", "write"}, scall' = [scall EXCEPT ![d].at = at],
             scall[d].action = "approve" => enabled', UNCHANGED row, enabled => enabled'
      PROVE  EnabledFirst'
  <2>1. PICK c : c = [scall[d] EXCEPT !.at = at]
    OBVIOUS
  <2>2. scall' = [scall EXCEPT ![d] = c]
    BY <1>6, <2>1
  <2>3. c.action = scall[d].action
    BY <2>1 DEF SugType, Calls
  <2> QED
    BY <1>2, <1>6, <2>2, <2>3 DEF EnabledFirst
<1>7. ASSUME NEW d \in Decisions, Sug!EnableSource(d) PROVE EnabledFirst'
  BY <1>6, <1>7 DEF Sug!EnableSource
<1>8. ASSUME NEW d \in Decisions, Sug!GrantPremium(d) PROVE EnabledFirst'
  BY <1>6, <1>8 DEF Sug!GrantPremium, EnabledFirst
<1>9. ASSUME NEW d \in Decisions, Sug!SetApproved(d) PROVE EnabledFirst'
  BY <1>2, <1>4, <1>9 DEF Sug!SetApproved, EnabledFirst
<1>10. ASSUME NEW d \in Decisions, Sug!SetRejected(d) PROVE EnabledFirst'
  <2>1. row'.status = "rejected"
    BY <1>10 DEF Sug!SetRejected, Sug!Written, SugType, Rows
  <2> QED
    BY <1>2, <1>4, <1>10, <2>1 DEF Sug!SetRejected, EnabledFirst
<1>11. ASSUME NEW d \in Decisions, Sug!Abort(d) PROVE EnabledFirst'
  BY <1>2, <1>4, <1>11 DEF Sug!Abort, EnabledFirst
<1> QED
  BY <1>1, <1>3, <1>5, <1>7, <1>8, <1>9, <1>10, <1>11
  DEF Sug!Next, Sug!Approve, Sug!Reject, Statuses

\* The parts that hold until two writes of the row overlap.
LEMMA AloneStep ==
  ASSUME Sug!Constants, SugInv, Sug!Next, ~scrossed'
  PROVE  Alone' /\ RewardIsPaid'
<1> USE DEF Sug!InFlight
<1>0. /\ SugType /\ Alone /\ RewardIsPaid
      /\ Sug!NoCall.at = None /\ Sug!NoCall.action = None /\ Sug!NoRow.rewarded = FALSE
      /\ None \notin {"approve", "reject", "read", "enable", "grant", "write"}
  <2>1. ~scrossed
    BY DEF SugInv, SugType, Sug!Next, Sug!Submit, Sug!Approve, Sug!Reject, Sug!Open, Sug!Read,
      Sug!EnableSource, Sug!GrantPremium, Sug!SetApproved, Sug!SetRejected, Sug!Abort
  <2> QED
    BY <2>1 DEF SugInv, Sug!NoCall, Sug!NoRow, Sug!Constants
<1>1. ASSUME NEW u \in Suggesters, Sug!Submit(u) PROVE Alone' /\ RewardIsPaid'
  <2>1. row'.rewarded = row.rewarded
    BY <1>0, <1>1 DEF Sug!Submit, Sug!Submitted, SugType, Rows
  <2>2. row' = row \/ \A d \in Decisions : scall[d] = Sug!NoCall
    BY <1>1 DEF Sug!Submit
  <2> QED
    BY <1>0, <1>1, <2>1, <2>2 DEF Sug!Submit, Alone, RewardIsPaid, Paid
<1>2. ASSUME NEW d \in Decisions, NEW a \in {"approve", "reject"}, NEW k \in Keys,
             NEW x \in Statuses \cup {None}, Sug!Open(d, a, k, x)
      PROVE  Alone' /\ RewardIsPaid'
  <2>1. CASE scall' = scall
    BY <1>0, <1>2, <2>1 DEF Sug!Open, Alone, RewardIsPaid, Paid
  <2>2. CASE scall' # scall
    <3>1. PICK c : c = [at |-> "read", action |-> a, expected |-> x, seen |-> Sug!NoRow]
      OBVIOUS
    <3>2. scall' = [scall EXCEPT ![d] = c] /\ c.at = "read"
      BY <1>2, <2>2, <3>1 DEF Sug!Open
    <3>3. UNCHANGED <<row, premium>> /\ \A e \in Decisions : scall[e] = Sug!NoCall
      BY <1>2, <2>2 DEF Sug!Open
    <3>4. \A e \in Decisions : scall'[e] = IF e = d THEN c ELSE Sug!NoCall
      BY <1>0, <3>2, <3>3 DEF SugType
    <3> QED
      BY <1>0, <3>2, <3>3, <3>4 DEF Alone, RewardIsPaid, Paid
  <2> QED
    BY <2>1, <2>2
\* A step of the one call in flight that leaves the row alone.
<1>3. ASSUME NEW d \in Decisions, NEW c, scall[d] # Sug!NoCall,
             scall' = [scall EXCEPT ![d] = c], UNCHANGED row,
             c.at \in {"enable", "grant", "write"} => c.seen = row,
             c.at \in {"enable", "grant"} => c.action = "approve"
      PROVE  /\ Alone'
             /\ Paid' <=> row.rewarded \/ (c.action = "approve" /\ c.at = "write")
             /\ Paid <=> row.rewarded \/ (scall[d].action = "approve" /\ scall[d].at = "write")
  <2>1. \A e \in Decisions : e # d => scall[e] = Sug!NoCall /\ scall'[e] = Sug!NoCall
    BY <1>0, <1>3 DEF Alone, SugType
  <2>2. scall'[d] = c
    BY <1>0, <1>3 DEF SugType
  <2> QED
    BY <1>0, <1>3, <2>1, <2>2 DEF Alone, Paid
<1>4. ASSUME NEW d \in Decisions, Sug!Read(d) PROVE Alone' /\ RewardIsPaid'
  <2>0. scall[d] # Sug!NoCall /\ UNCHANGED <<row, premium>> /\ scall[d].at # "write"
    BY <1>0, <1>4 DEF Sug!Read
  <2>1. CASE Sug!Conflict(d)
    BY <1>0, <1>3, <1>4, <2>0, <2>1 DEF Sug!Read, RewardIsPaid
  <2>2. CASE ~Sug!Conflict(d)
    <3>1. PICK at : /\ at = IF scall[d].action = "approve" THEN "enable" ELSE "write"
                    /\ scall' = [scall EXCEPT ![d].at = at, ![d].seen = row]
      BY <1>4, <2>2 DEF Sug!Read
    <3>2. PICK c : c = [scall[d] EXCEPT !.at = at, !.seen = row]
      OBVIOUS
    <3>3. c.at = at /\ c.action = scall[d].action /\ c.seen = row
      BY <1>0, <3>2 DEF SugType, Calls
    <3>4. scall' = [scall EXCEPT ![d] = c]
      BY <3>1, <3>2
    <3>5. c.action = "approve" <=> c.at = "enable"
      BY <3>1, <3>3
    <3>6. Alone' /\ (Paid' <=> Paid)
      BY <1>3, <2>0, <3>1, <3>3, <3>4, <3>5
    <3> QED
      BY <1>0, <2>0, <3>6 DEF RewardIsPaid
  <2> QED
    BY <2>1, <2>2
<1>5. ASSUME NEW d \in Decisions, NEW at \in {"grant", "write"},
             scall[d].at \in {"enable", "grant"}, scall' = [scall EXCEPT ![d].at = at],
             UNCHANGED row
      PROVE  /\ Alone' /\ scall[d].seen = row
             /\ Paid' <=> row.rewarded \/ at = "write"
             /\ Paid <=> row.rewarded
  <2>1. PICK c : c = [scall[d] EXCEPT !.at = at]
    OBVIOUS
  <2>2. scall' = [scall EXCEPT ![d] = c] /\ scall[d] # Sug!NoCall
    BY <1>0, <1>5, <2>1
  <2>3. c.at = at /\ c.action = scall[d].action /\ c.seen = scall[d].seen
    BY <1>0, <2>1 DEF SugType, Calls
  <2>4. scall[d].action = "approve" /\ scall[d].seen = row
    BY <1>0, <1>5 DEF Alone
  <2> QED
    BY <1>3, <1>5, <2>2, <2>3, <2>4
<1>6. ASSUME NEW d \in Decisions, Sug!EnableSource(d) PROVE Alone' /\ RewardIsPaid'
  <2>1. Alone' /\ (Paid' <=> Paid) /\ UNCHANGED premium
    BY <1>5, <1>6 DEF Sug!EnableSource
  <2> QED
    BY <1>0, <2>1 DEF RewardIsPaid
<1>7. ASSUME NEW d \in Decisions, Sug!GrantPremium(d) PROVE Alone' /\ RewardIsPaid'
  <2>1. Alone' /\ Paid' /\ (Paid <=> row.rewarded) /\ scall[d].seen = row
    BY <1>5, <1>7 DEF Sug!GrantPremium
  <2>2. CASE row.rewarded
    BY <1>0, <1>7, <2>1, <2>2 DEF Sug!GrantPremium, RewardIsPaid
  <2>3. CASE ~row.rewarded
    <3>1. PICK u \in Suggesters : u = row.user
      BY <1>0, <1>7 DEF Sug!GrantPremium, SugType
    <3>2. premium' = [premium EXCEPT ![u] = @ + 1] /\ \A v \in Suggesters : premium[v] = 0
      BY <1>0, <1>7, <2>1, <2>3, <3>1 DEF Sug!GrantPremium, Sug!Extended, RewardIsPaid
    <3>3. premium' = [v \in Suggesters |-> IF v = u THEN premium[v] + 1 ELSE premium[v]]
      BY <1>0, <3>2 DEF SugType
    <3>4. \A v \in Suggesters : (IF v = u THEN premium[v] + 1 ELSE premium[v]) = IF v = u THEN 1 ELSE 0
      BY <3>2
    <3>5. premium' = [v \in Suggesters |-> IF v = u THEN 1 ELSE 0]
      BY <3>3, <3>4
    <3> QED
      BY <2>1, <3>5 DEF RewardIsPaid
  <2> QED
    BY <2>2, <2>3
<1>8. ASSUME NEW d \in Decisions, Sug!SetApproved(d) \/ Sug!SetRejected(d)
      PROVE  Alone' /\ RewardIsPaid'
  <2>1. /\ scall[d].at = "write" /\ scall' = [scall EXCEPT ![d] = Sug!NoCall]
        /\ UNCHANGED premium
    BY <1>8 DEF Sug!SetApproved, Sug!SetRejected
  <2>2. \A e \in Decisions : scall'[e] = Sug!NoCall /\ (e # d => scall[e] = Sug!NoCall)
    BY <1>0, <2>1 DEF SugType, Alone
  <2>3. Alone' /\ (Paid' <=> row'.rewarded)
    BY <1>0, <2>2 DEF Alone, Paid
  <2>4. row'.rewarded <=> Paid
    <3>1. CASE Sug!SetApproved(d)
      <4>1. row'.rewarded
        BY <1>0, <3>1 DEF Sug!SetApproved, Sug!Written, SugType, Rows
      <4> QED
        BY <3>1, <4>1 DEF Sug!SetApproved, Paid
    <3>2. CASE Sug!SetRejected(d)
      <4>1. row'.rewarded = row.rewarded
        BY <1>0, <3>2 DEF Sug!SetRejected, Sug!Written, SugType, Rows, Alone
      <4>2. Paid <=> row.rewarded
        BY <1>0, <2>2, <3>2 DEF Sug!SetRejected, Paid
      <4> QED
        BY <4>1, <4>2
    <3> QED
      BY <1>8, <3>1, <3>2
  <2> QED
    BY <1>0, <2>1, <2>3, <2>4 DEF RewardIsPaid
<1>9. ASSUME NEW d \in Decisions, Sug!Abort(d) PROVE FALSE
  BY <1>9 DEF Sug!Abort
<1> QED
  BY <1>1, <1>2, <1>4, <1>6, <1>7, <1>8, <1>9
  DEF Sug!Next, Sug!Approve, Sug!Reject, Statuses

\* A channel earns premium time once, to one user, however often it is rejected,
\* suggested again and approved, and an approved channel is enabled, for any
\* number of users, admins and idempotency keys, as long as no decision overlaps
\* another write of the row and none stops half way (approve, reject, submit).
THEOREM ChannelRewardedOnce ==
  ASSUME Sug!Constants
  PROVE  Sug!Spec => []RewardedOnce
<1>1. Sug!Init => SugInv
  <2> SUFFICES ASSUME Sug!Init PROVE SugInv
    OBVIOUS
  <2>1. SugType
    BY DEF Sug!Init, SugType, Rows, Calls, Sug!NoRow, Sug!NoCall
  <2> QED
    BY <2>1 DEF Sug!Init, Sug!Constants, SugInv, EnabledFirst, Alone, RewardIsPaid, Paid,
      Sug!NoRow, Sug!NoCall
<1>2. SugInv /\ [Sug!Next]_(Sug!vars) => SugInv'
  <2> SUFFICES ASSUME SugInv, [Sug!Next]_(Sug!vars) PROVE SugInv'
    OBVIOUS
  <2>1. CASE Sug!Next
    BY <2>1, SugTypeStep, EnabledFirstStep, AloneStep DEF SugInv
  <2>2. CASE UNCHANGED Sug!vars
    BY <2>2 DEF Sug!vars, SugInv, SugType, EnabledFirst, Alone, RewardIsPaid, Paid
  <2> QED
    BY <2>1, <2>2
<1>3. SugInv => Sug!RewardedOnce
  <2> SUFFICES ASSUME SugInv PROVE Sug!RewardedOnce
    OBVIOUS
  <2>1. row.status = "approved" => enabled
    BY DEF SugInv, EnabledFirst
  <2>2. ASSUME ~scrossed
        PROVE  /\ \A u \in Suggesters : premium[u] <= 1
               /\ Cardinality(Sug!Rewards) <= 1
               /\ row.rewarded => Sug!Rewards # {}
    <3>1. CASE Paid
      <4>1. PICK u \in Suggesters : premium = [v \in Suggesters |-> IF v = u THEN 1 ELSE 0]
        BY <2>2, <3>1 DEF SugInv, RewardIsPaid
      <4>2. Sug!Rewards = {u}
        BY <4>1 DEF Sug!Rewards
      <4>3. Cardinality({u}) = 1
        BY FS_Singleton
      <4> QED
        BY <4>1, <4>2, <4>3
    <3>2. CASE ~Paid
      <4>1. \A u \in Suggesters : premium[u] = 0
        BY <2>2, <3>2 DEF SugInv, RewardIsPaid
      <4>2. Sug!Rewards = {}
        BY <4>1 DEF Sug!Rewards
      <4>3. Cardinality({}) = 0
        BY FS_EmptySet
      <4> QED
        BY <3>2, <4>1, <4>2, <4>3 DEF Paid
    <3> QED
      BY <3>1, <3>2
  <2> QED
    BY <2>1, <2>2, FiniteSetsOfSuggestions DEF Sug!RewardedOnce
<1> QED
  BY <1>1, <1>2, <1>3, PTL DEF Sug!Spec, RewardedOnce

-----------------------------------------------------------------------------
(* Audience tags                                                            *)

TagCalls ==
  [at : {"read", "remap", "write", None}, action : {"approve", "reject", "merge", None},
   tag : Tags \cup {None}, target : Tags \cup {None}, expected : {"pending", "approved", None}]

\* A decision in flight has an action and a tag, a merge another tag to go into.
NamesTags(c) ==
  /\ c.tag \in Tags /\ c.action # None
  /\ c.action = "merge" => c.target \in Tags /\ c.target # c.tag

TagType ==
  /\ tag \in [Tags -> {"pending", "approved", "rejected", None}]
  /\ resolving \in [Listings -> Tags \cup {None}]
  /\ refs \in [Tag!Referring -> Tags \cup {None}]
  /\ call \in [Decisions -> TagCalls]
  /\ \A d \in Decisions : call[d] = Tag!NoCall \/ (call[d].at # None /\ NamesTags(call[d]))
  /\ crossed \in BOOLEAN

\* With no overlap one decision is in flight, and no listing is between the
\* resolution of its tag and its save meanwhile.
OneDecision ==
  \A d \in Decisions : call[d] # Tag!NoCall =>
    /\ \A e \in Decisions : call[e] # Tag!NoCall => e = d
    /\ \A l \in Listings : resolving[l] = None

\* A merge goes into an approved tag, and nothing refers to the merged tag once
\* the references are rewritten.
MergeIsSafe ==
  \A d \in Decisions :
    /\ call[d].at = "remap" => call[d].action = "merge"
    /\ call[d].action = "merge" /\ call[d].at \in {"remap", "write"} =>
         tag[call[d].target] = "approved"
    /\ call[d].action = "merge" /\ call[d].at = "write" =>
         \A x \in Tag!Referring : refs[x] # call[d].tag

Good(t, x) == tag[t] = "approved" \/ t \in forced \/ x \in unchecked

RefsGood ==
  /\ \A l \in Listings : resolving[l] # None => Good(resolving[l], l)
  /\ \A x \in Tag!Referring : refs[x] # None => Good(refs[x], x)

TagInv == TagType /\ (~crossed => OneDecision /\ MergeIsSafe /\ RefsGood)

\* A step of a decision changes its own call; the others stay.
LEMMA TagCallStep ==
  ASSUME TagType, NEW d \in Decisions, NEW c \in TagCalls, call' = [call EXCEPT ![d] = c]
  PROVE  /\ call' \in [Decisions -> TagCalls] /\ call'[d] = c
         /\ \A e \in Decisions \ {d} : call'[e] = call[e]
BY DEF TagType

\* A call that goes on to its next database call keeps what it is about.
LEMMA TagCallMoves ==
  ASSUME Tag!Constants, TagType, NEW d \in Decisions, call[d] # Tag!NoCall,
         NEW at \in {"remap", "write"}, call' = [call EXCEPT ![d].at = at]
  PROVE  /\ call' \in [Decisions -> TagCalls]
         /\ call'[d].at = at /\ call'[d] # Tag!NoCall
         /\ call'[d].action = call[d].action
         /\ call'[d].tag = call[d].tag /\ call'[d].target = call[d].target
         /\ NamesTags(call'[d])
         /\ \A e \in Decisions \ {d} : call'[e] = call[e]
<1>1. PICK c : c = [call[d] EXCEPT !.at = at]
  OBVIOUS
<1>2. /\ c \in TagCalls /\ c.at = at /\ c.action = call[d].action
      /\ c.tag = call[d].tag /\ c.target = call[d].target
  BY <1>1 DEF TagType, TagCalls
<1>3. call' = [call EXCEPT ![d] = c]
  BY <1>1
<1>4. call'[d] = c
  BY <1>2, <1>3, TagCallStep
<1>6. c # Tag!NoCall
  BY <1>2 DEF Tag!NoCall, Tag!Constants
<1>5. NamesTags(c)
  BY <1>2 DEF TagType, NamesTags
<1> QED
  BY <1>2, <1>3, <1>4, <1>5, <1>6, TagCallStep

\* Tag steps keep the types.
LEMMA TagTypeStep ==
  ASSUME Tag!Constants, TagType, Tag!Next PROVE TagType'
<1>0. Tag!NoCall \in TagCalls /\ Tag!NoCall.at = None
  BY DEF Tag!NoCall, TagCalls
<1>1. ASSUME NEW l \in Listings, NEW t \in Tags, Tag!Resolve(l, t) PROVE TagType'
  <2>1. PICK u \in Tags :
          /\ tag' = Tag!UpsertedPending(u)
          /\ resolving' = IF Tag!HandedOn(u) THEN [resolving EXCEPT ![l] = u] ELSE resolving
    BY <1>1 DEF Tag!Resolve, Tag!Resolved, Tag!FuzzyMatch, Tag!Approved
  <2>2. /\ tag' \in [Tags -> {"pending", "approved", "rejected", None}]
        /\ resolving' \in [Listings -> Tags \cup {None}]
    BY <2>1 DEF Tag!UpsertedPending, TagType
  <2> QED
    BY <1>1, <2>2 DEF Tag!Resolve, TagType, NamesTags
<1>2. ASSUME NEW l \in Listings, Tag!Save(l) PROVE TagType'
  <2>1. resolving[l] \in Tags \cup {None}
    BY <1>2 DEF TagType
  <2>2. refs' \in [Tag!Referring -> Tags \cup {None}]
    BY <1>2, <2>1 DEF Tag!Save, TagType
  <2> QED
    BY <1>2, <2>2 DEF Tag!Save, TagType, NamesTags
<1>10. ASSUME NEW l \in Listings, NEW t \in Tags, Tag!ResolveSeed(l, t) PROVE TagType'
  BY <1>10 DEF Tag!ResolveSeed, TagType, NamesTags
<1>11. ASSUME NEW f \in Filters, NEW t \in Tags \cup {None}, Tag!SaveFilter(f, t) PROVE TagType'
  BY <1>11 DEF Tag!SaveFilter, TagType, NamesTags
<1>3. ASSUME NEW d \in Decisions, NEW a \in {"approve", "reject", "merge"}, NEW t \in Tags,
             NEW target \in Tags \cup {None}, NEW k \in TagKeys,
             NEW x \in {"pending", "approved", None},
             a = "merge" => target \in Tags /\ target # t,
             Tag!Open(d, a, t, target, k, x)
      PROVE  TagType'
  <2>1. PICK c : c = [at |-> "read", action |-> a, tag |-> t, target |-> target, expected |-> x]
    OBVIOUS
  <2>2. c \in TagCalls /\ c.at # None /\ NamesTags(c)
    BY <1>3, <2>1 DEF TagCalls, NamesTags, Tag!Constants
  <2>3. UNCHANGED <<tag, resolving, refs>> /\ crossed' \in BOOLEAN
        /\ (call' = call \/ call' = [call EXCEPT ![d] = c])
    BY <1>3, <2>1 DEF Tag!Open, TagType
  <2>4. CASE call' = call
    BY <2>3, <2>4 DEF TagType, NamesTags
  <2>5. CASE call' = [call EXCEPT ![d] = c]
    <3>1. /\ call' \in [Decisions -> TagCalls] /\ call'[d] = c
          /\ \A e \in Decisions \ {d} : call'[e] = call[e]
      BY <2>2, <2>5, TagCallStep
    <3> QED
      BY <2>2, <2>3, <3>1 DEF TagType, NamesTags
  <2> QED
    BY <2>3, <2>4, <2>5
\* The last step of a call.
<1>4. ASSUME NEW d \in Decisions, call' = [call EXCEPT ![d] = Tag!NoCall],
             UNCHANGED <<resolving, refs>>, crossed' \in BOOLEAN,
             tag' \in [Tags -> {"pending", "approved", "rejected", None}]
      PROVE  TagType'
  <2>1. /\ call' \in [Decisions -> TagCalls] /\ call'[d] = Tag!NoCall
        /\ \A e \in Decisions \ {d} : call'[e] = call[e]
    BY <1>0, <1>4, TagCallStep
  <2> QED
    BY <1>4, <2>1 DEF TagType, NamesTags
<1>5. ASSUME NEW d \in Decisions, call[d] # Tag!NoCall, NEW at \in {"remap", "write"},
             call' = [call EXCEPT ![d].at = at], UNCHANGED <<resolving, tag, crossed>>,
             refs' \in [Tag!Referring -> Tags \cup {None}]
      PROVE  TagType'
  <2>1. /\ call' \in [Decisions -> TagCalls] /\ call'[d].at = at /\ NamesTags(call'[d])
        /\ \A e \in Decisions \ {d} : call'[e] = call[e]
    BY <1>5, TagCallMoves
  <2>2. at # None
    BY DEF Tag!Constants
  <2>3. ASSUME NEW e \in Decisions
        PROVE  call'[e] = Tag!NoCall \/ (call'[e].at # None /\ NamesTags(call'[e]))
    <3>1. CASE e = d
      BY <2>1, <2>2, <3>1
    <3>2. CASE e # d
      BY <2>1, <3>2 DEF TagType
    <3> QED
      BY <3>1, <3>2
  <2> QED
    BY <1>5, <2>1, <2>3 DEF TagType, NamesTags, Tag!NoCall
<1>6. ASSUME NEW d \in Decisions, Tag!Read(d) PROVE TagType'
  <2>1. /\ call[d] # Tag!NoCall /\ UNCHANGED <<tag, resolving, refs, crossed>>
        /\ call' = [call EXCEPT ![d] = Tag!NoCall]
           \/ \E at \in {"remap", "write"} : call' = [call EXCEPT ![d].at = at]
    BY <1>0, <1>6 DEF Tag!Read, Tag!Constants
  <2> QED
    BY <1>4, <1>5, <2>1 DEF TagType
<1>7. ASSUME NEW d \in Decisions, Tag!RemapReferences(d) PROVE TagType'
  <2>1. /\ call[d] # Tag!NoCall /\ UNCHANGED <<tag, resolving, crossed>>
        /\ call' = [call EXCEPT ![d].at = "write"]
    BY <1>0, <1>7 DEF Tag!RemapReferences, Tag!Constants
  <2>2. call[d].target \in Tags \cup {None}
    BY DEF TagType, TagCalls
  <2>3. refs' \in [Tag!Referring -> Tags \cup {None}]
    BY <1>7, <2>2 DEF Tag!RemapReferences, Tag!Remap, TagType
  <2> QED
    BY <1>5, <2>1, <2>3
<1>8. ASSUME NEW d \in Decisions, Tag!SetStatus(d) PROVE TagType'
  <2>1. tag' \in [Tags -> {"pending", "approved", "rejected", None}]
    BY <1>8 DEF Tag!SetStatus, Tag!Written, TagType
  <2> QED
    BY <1>4, <1>8, <2>1 DEF Tag!SetStatus, TagType
<1>9. ASSUME NEW d \in Decisions, Tag!Abort(d) PROVE TagType'
  BY <1>4, <1>9 DEF Tag!Abort, TagType
<1> QED
  BY <1>1, <1>2, <1>3, <1>6, <1>7, <1>8, <1>9, <1>10, <1>11
  DEF Tag!Next, Tag!Approve, Tag!Reject, Tag!Merge

\* The parts that hold until a writer or a decision overlaps a decision.
LEMMA RefsGoodStep ==
  ASSUME Tag!Constants, TagInv, Tag!Next, ~crossed'
  PROVE  OneDecision' /\ MergeIsSafe' /\ RefsGood'
<1>0. /\ TagType /\ OneDecision /\ MergeIsSafe /\ RefsGood
      /\ Tag!NoCall.at = None /\ Tag!NoCall.action = None
      /\ None \notin Tags \cup {"approved", "approve", "reject", "merge", "read", "remap", "write"}
  <2>1. ~crossed
    BY DEF TagInv, TagType, Tag!Next, Tag!Save, Tag!Resolve, Tag!ResolveSeed, Tag!SaveFilter,
      Tag!Approve, Tag!Reject, Tag!Merge, Tag!Open, Tag!Read, Tag!RemapReferences, Tag!SetStatus, Tag!Abort
  <2> QED
    BY <2>1 DEF TagInv, Tag!NoCall, Tag!Constants
<1>1. ASSUME NEW l \in Listings, NEW t \in Tags, Tag!Resolve(l, t)
      PROVE  OneDecision' /\ MergeIsSafe' /\ RefsGood'
  <2>1. PICK u \in Tags :
          /\ tag' = Tag!UpsertedPending(u)
          /\ resolving' = IF Tag!HandedOn(u) THEN [resolving EXCEPT ![l] = u] ELSE resolving
          /\ crossed' = (crossed \/ (Tag!HandedOn(u) /\ Tag!InFlight # {}))
    BY <1>1 DEF Tag!Resolve, Tag!Resolved, Tag!FuzzyMatch, Tag!Approved
  <2>2. /\ \A v \in Tags : tag[v] = "approved" => tag'[v] = "approved"
        /\ UNCHANGED <<refs, call, forced, unchecked>>
    BY <1>0, <1>1, <2>1 DEF Tag!UpsertedPending, TagType, Tag!Resolve
  <2>3. \A m \in Listings : resolving'[m] = resolving[m]
          \/ (tag[resolving'[m]] = "approved" /\ resolving'[m] \in Tags
              /\ \A d \in Decisions : call[d] = Tag!NoCall)
    BY <1>0, <2>1 DEF Tag!HandedOn, Tag!InFlight, TagType
  <2>4. OneDecision'
    BY <1>0, <2>2, <2>3 DEF OneDecision
  <2>5. RefsGood'
    BY <1>0, <2>2, <2>3 DEF RefsGood, Good, TagType
  <2>6. MergeIsSafe'
    BY <1>0, <2>2 DEF MergeIsSafe, TagType, NamesTags
  <2> QED
    BY <2>4, <2>5, <2>6
<1>2. ASSUME NEW l \in Listings, Tag!Save(l)
      PROVE  OneDecision' /\ MergeIsSafe' /\ RefsGood'
  <2>1. \A d \in Decisions : call[d] = Tag!NoCall /\ call'[d] = Tag!NoCall
    BY <1>0, <1>2 DEF Tag!Save, OneDecision
  <2>2. OneDecision' /\ MergeIsSafe'
    BY <1>0, <2>1 DEF OneDecision, MergeIsSafe
  <2>3. tag' = tag /\ forced' = forced /\ unchecked' = unchecked /\ Good(resolving[l], l)
    BY <1>0, <1>2 DEF Tag!Save, RefsGood
  <2>5. \A m \in Listings : resolving'[m] = IF m = l THEN None ELSE resolving[m]
    BY <1>0, <1>2 DEF Tag!Save, TagType
  <2>6. \A x \in Tag!Referring : refs'[x] = IF x = l THEN resolving[l] ELSE refs[x]
    BY <1>0, <1>2 DEF Tag!Save, TagType
  <2>4. RefsGood'
    BY <1>0, <2>3, <2>5, <2>6 DEF RefsGood, Good
  <2> QED
    BY <2>2, <2>4
\* The writers that do not look at the status.
<1>10. ASSUME NEW l \in Listings, NEW t \in Tags, Tag!ResolveSeed(l, t)
       PROVE  OneDecision' /\ MergeIsSafe' /\ RefsGood'
  <2>1. /\ UNCHANGED <<tag, refs, call, forced>> /\ refs[l] = None
        /\ \A m \in Listings : resolving'[m] = IF m = l THEN t ELSE resolving[m]
        /\ unchecked \subseteq unchecked' /\ (tag[t] # "approved" => l \in unchecked')
        /\ \A d \in Decisions : call[d] = Tag!NoCall
    BY <1>0, <1>10 DEF Tag!ResolveSeed, Tag!HandedOn, Tag!InFlight, TagType
  <2>2. OneDecision'
    BY <1>0, <2>1 DEF OneDecision
  <2>3. RefsGood'
    BY <1>0, <2>1 DEF RefsGood, Good
  <2>4. MergeIsSafe'
    BY <1>0, <2>1 DEF MergeIsSafe
  <2> QED
    BY <2>2, <2>3, <2>4
<1>11. ASSUME NEW f \in Filters, NEW t \in Tags \cup {None}, Tag!SaveFilter(f, t)
       PROVE  OneDecision' /\ MergeIsSafe' /\ RefsGood'
  <2>1. /\ tag' = tag /\ resolving' = resolving /\ call' = call /\ forced' = forced
        /\ \A d \in Decisions : call[d] = Tag!NoCall
        /\ \A x \in Tag!Referring : refs'[x] = IF x = f THEN t ELSE refs[x]
        /\ \A x \in Tag!Referring : x # f /\ x \in unchecked => x \in unchecked'
        /\ t # None => tag[t] = "approved" \/ f \in unchecked'
    BY <1>0, <1>11 DEF Tag!SaveFilter, Tag!InFlight, TagType
  <2>2. OneDecision' /\ MergeIsSafe'
    BY <1>0, <2>1 DEF OneDecision, MergeIsSafe
  <2>3. \A l \in Listings : l \in Tag!Referring /\ l # f
    BY <1>11 DEF Tag!Constants, Tag!Referring
  <2>4. RefsGood'
    BY <1>0, <2>1, <2>3 DEF RefsGood, Good
  <2> QED
    BY <2>2, <2>4
<1>3. ASSUME NEW d \in Decisions, NEW a \in {"approve", "reject", "merge"}, NEW t \in Tags,
             NEW target \in Tags \cup {None}, NEW k \in TagKeys,
             NEW x \in {"pending", "approved", None},
             Tag!Open(d, a, t, target, k, x)
      PROVE  OneDecision' /\ MergeIsSafe' /\ RefsGood'
  <2>0. UNCHANGED <<tag, resolving, refs, forced, unchecked>>
    BY <1>3 DEF Tag!Open
  <2>1. RefsGood'
    BY <1>0, <2>0 DEF RefsGood, Good
  <2>2. CASE call' = call
    BY <1>0, <2>0, <2>1, <2>2 DEF OneDecision, MergeIsSafe
  <2>3. CASE call' # call
    <3>1. PICK c : c = [at |-> "read", action |-> a, tag |-> t, target |-> target, expected |-> x]
      OBVIOUS
    <3>2. call' = [call EXCEPT ![d] = c] /\ c.at = "read"
      BY <1>3, <2>3, <3>1 DEF Tag!Open
    <3>3. /\ \A e \in Decisions : call[e] = Tag!NoCall
          /\ \A l \in Listings : resolving[l] = None
      BY <1>3, <2>3 DEF Tag!Open, Tag!InFlight
    <3>4. \A e \in Decisions : call'[e] = IF e = d THEN c ELSE Tag!NoCall
      BY <1>0, <3>2, <3>3 DEF TagType
    <3> QED
      BY <1>0, <2>0, <2>1, <3>2, <3>3, <3>4 DEF OneDecision, MergeIsSafe
  <2> QED
    BY <2>2, <2>3
\* The last step of the one call in flight.
<1>4. ASSUME NEW d \in Decisions, call[d] # Tag!NoCall, UNCHANGED <<resolving, refs>>,
             call' = [call EXCEPT ![d] = Tag!NoCall]
      PROVE  OneDecision' /\ MergeIsSafe'
  <2>1. \A e \in Decisions : call'[e] = Tag!NoCall
    BY <1>0, <1>4 DEF OneDecision, TagType
  <2> QED
    BY <1>0, <2>1 DEF OneDecision, MergeIsSafe
\* A step of the one call in flight to its next database call.
<1>5. ASSUME NEW d \in Decisions, call[d] # Tag!NoCall, NEW at \in {"remap", "write"},
             call' = [call EXCEPT ![d].at = at], UNCHANGED <<resolving, tag>>,
             at = "remap" => call[d].action = "merge",
             call[d].action = "merge" => tag[call[d].target] = "approved",
             call[d].action = "merge" /\ at = "write" =>
               \A x \in Tag!Referring : refs'[x] # call[d].tag
      PROVE  OneDecision' /\ MergeIsSafe'
  <2>1. /\ call'[d].at = at /\ call'[d].action = call[d].action
        /\ call'[d].tag = call[d].tag /\ call'[d].target = call[d].target
        /\ \A e \in Decisions \ {d} : call'[e] = call[e]
    BY <1>0, <1>5, TagCallMoves
  <2>2. \A e \in Decisions \ {d} : call'[e] = Tag!NoCall
    BY <1>0, <1>5, <2>1 DEF OneDecision
  <2> QED
    BY <1>0, <1>5, <2>1, <2>2 DEF OneDecision, MergeIsSafe
<1>6. ASSUME NEW d \in Decisions, Tag!Read(d)
      PROVE  OneDecision' /\ MergeIsSafe' /\ RefsGood'
  <2>1. call[d] # Tag!NoCall /\ UNCHANGED <<tag, resolving, refs, forced, unchecked>>
    BY <1>0, <1>6 DEF Tag!Read
  <2>2. RefsGood'
    BY <1>0, <2>1 DEF RefsGood, Good
  <2>3. CASE Tag!Refused(call[d])
    BY <1>4, <1>6, <2>1, <2>2, <2>3 DEF Tag!Read
  <2>4. CASE ~Tag!Refused(call[d])
    <3>1. PICK at \in {"remap", "write"} :
            /\ at = IF call[d].action = "merge" THEN "remap" ELSE "write"
            /\ call' = [call EXCEPT ![d].at = at]
      BY <1>6, <2>4 DEF Tag!Read
    <3>2. call[d].action = "merge" => tag[call[d].target] = "approved"
      BY <2>4 DEF Tag!Refused
    <3> QED
      BY <1>5, <2>1, <2>2, <3>1, <3>2
  <2> QED
    BY <2>3, <2>4
<1>7. ASSUME NEW d \in Decisions, Tag!RemapReferences(d)
      PROVE  OneDecision' /\ MergeIsSafe' /\ RefsGood'
  <2>1. call[d] # Tag!NoCall /\ UNCHANGED <<tag, resolving, forced>>
    BY <1>0, <1>7 DEF Tag!RemapReferences
  <2>2. call[d].action = "merge" /\ tag[call[d].target] = "approved"
    BY <1>0, <1>7 DEF Tag!RemapReferences, MergeIsSafe
  <2>3. call[d].target \in Tags /\ call[d].target # call[d].tag
    BY <1>0, <2>1, <2>2 DEF TagType, NamesTags
  <2>4. \A x \in Tag!Referring :
          /\ refs'[x] = IF refs[x] = call[d].tag THEN call[d].target ELSE refs[x]
          /\ refs[x] # call[d].tag /\ x \in unchecked => x \in unchecked'
    BY <1>7 DEF Tag!RemapReferences, Tag!Remap, Tag!PutRight
  <2>6. \A l \in Listings : resolving[l] = None
    BY <1>0, <2>1 DEF OneDecision
  <2>5. RefsGood'
    BY <1>0, <2>1, <2>2, <2>4, <2>6 DEF RefsGood, Good
  <2> QED
    BY <1>5, <1>7, <2>1, <2>2, <2>3, <2>4, <2>5 DEF Tag!RemapReferences
<1>8. ASSUME NEW d \in Decisions, Tag!SetStatus(d)
      PROVE  OneDecision' /\ MergeIsSafe' /\ RefsGood'
  <2>1. call[d] # Tag!NoCall /\ call[d].at = "write" /\ UNCHANGED <<resolving, refs>>
    BY <1>0, <1>8 DEF Tag!SetStatus
  <2>2. call[d].tag \in Tags /\ \A l \in Listings : resolving[l] = None
    BY <1>0, <2>1 DEF TagType, NamesTags, OneDecision
  <2>3. \A t \in Tags : t # call[d].tag => tag'[t] = tag[t] /\ (t \in forced => t \in forced')
    BY <1>0, <1>8 DEF Tag!SetStatus, Tag!Written, TagType
  <2>4. \/ tag'[call[d].tag] = "approved"
        \/ call[d].action = "merge" /\ \A x \in Tag!Referring : refs[x] # call[d].tag
        \/ (tag[call[d].tag] = "approved" \/ call[d].tag \in forced) => call[d].tag \in forced'
    <3>1. call[d].action \in {"approve", "reject", "merge"}
      BY <1>0, <2>1 DEF TagType, TagCalls, NamesTags
    <3>2. CASE call[d].action = "approve"
      BY <1>0, <1>8, <2>2, <3>2 DEF Tag!SetStatus, Tag!Written, TagType
    <3>3. CASE call[d].action = "reject"
      BY <1>0, <1>8, <2>2, <3>3 DEF Tag!SetStatus
    <3>4. CASE call[d].action = "merge"
      BY <1>0, <2>1, <3>4 DEF MergeIsSafe
    <3> QED
      BY <3>1, <3>2, <3>3, <3>4
  <2>7. \A x \in Tag!Referring :
          x \in unchecked =>
            x \in unchecked' \/ (refs[x] = call[d].tag /\ tag'[call[d].tag] = "approved")
    BY <1>0, <1>8, <2>2 DEF Tag!SetStatus, Tag!Written, Tag!PutRight, TagType
  <2>5. ASSUME NEW x \in Tag!Referring, refs[x] # None PROVE Good(refs[x], x)'
    <3>1. refs[x] \in Tags /\ refs'[x] = refs[x] /\ Good(refs[x], x)
      BY <1>0, <2>1, <2>5 DEF TagType, RefsGood
    <3> QED
      BY <2>3, <2>4, <2>7, <3>1 DEF Good
  <2>6. RefsGood'
    BY <2>1, <2>2, <2>5 DEF RefsGood
  <2> QED
    BY <1>4, <1>8, <2>1, <2>6 DEF Tag!SetStatus
<1>9. ASSUME NEW d \in Decisions, Tag!Abort(d) PROVE FALSE
  BY <1>9 DEF Tag!Abort
<1> QED
  BY <1>1, <1>2, <1>3, <1>6, <1>7, <1>8, <1>9, <1>10, <1>11
  DEF Tag!Next, Tag!Approve, Tag!Reject, Tag!Merge

\* A saved listing or filter refers only to approved tags, or to one an admin
\* rejected outright while it was approved, or has a tag that a writer which does
\* not look at the status gave it (a filter, the AI worker without a tag service)
\* and no approval or merge has put right, through any sequence of writes,
\* approvals, rejections and merges over any vocabulary, as long as nothing
\* overlaps a decision (resolve_tag, remap_references, set_status).
THEOREM SavedTagsApproved ==
  ASSUME Tag!Constants
  PROVE  Tag!Spec => []RefsApproved
<1>1. Tag!Init => TagInv
  <2> SUFFICES ASSUME Tag!Init PROVE TagInv
    OBVIOUS
  <2>1. TagType
    BY DEF Tag!Init, TagType, TagCalls, Tag!NoCall
  <2> QED
    BY <2>1 DEF Tag!Init, TagInv, OneDecision, MergeIsSafe, RefsGood, Tag!NoCall, Tag!Constants
<1>2. TagInv /\ [Tag!Next]_(Tag!vars) => TagInv'
  <2> SUFFICES ASSUME TagInv, [Tag!Next]_(Tag!vars) PROVE TagInv'
    OBVIOUS
  <2>1. CASE Tag!Next
    BY <2>1, TagTypeStep, RefsGoodStep DEF TagInv
  <2>2. CASE UNCHANGED Tag!vars
    BY <2>2 DEF Tag!vars, TagInv, TagType, NamesTags, OneDecision, MergeIsSafe, RefsGood, Good
  <2> QED
    BY <2>1, <2>2
<1>3. TagInv => Tag!RefsApproved
  BY DEF TagInv, RefsGood, Good, Tag!RefsApproved
<1> QED
  BY <1>1, <1>2, <1>3, PTL DEF Tag!Spec, RefsApproved

-----------------------------------------------------------------------------
(* Content automation                                                       *)

Steps == {"get", "count", "publish", "ok", "lost", "retryable", "permanent"}

CallerStates ==
  [at : Steps \cup {None}, todo : Seq(Con!Kinds), seen : {"published", "failed", None}]

\* A caller is free, or has a kind of post it is busy with.
Busy(x) == x.at \in Steps /\ x.todo # << >>

ConType ==
  /\ post \in [Con!Kinds -> {"published", "failed", None}]
  /\ sent \in [Con!Kinds -> Nat]
  /\ caller \in [Callers -> CallerStates]
  /\ \A c \in Callers : caller[c] = Con!Free \/ Busy(caller[c])
  /\ strays \in Nat /\ overlap \in BOOLEAN

Sent == {k \in Con!Kinds : sent[k] > 0}

Published == {k \in Con!Kinds : post[k] = "published"}

\* The rows of the day's keys that count_posts finds.
Dated == {k \in Con!Kinds : post[k] # None} \ astray

\* What x says of a message that is accepted and not yet saved.
Unsaved(x) == IF x.at = "ok" THEN {Head(x.todo)} ELSE {}

\* The steps of a caller that has looked the post up.
Looked == {"count", "publish", "ok", "retryable", "permanent"}

\* Every caller but c is free, and the state agrees with c's own.
AloneIn(c, x) ==
  /\ \A d \in Callers : d # c => caller[d] = Con!Free
  /\ Sent = Published \cup Unsaved(x)
  /\ x.at # "lost"
  /\ x.at \in Looked => Head(x.todo) \notin Published /\ x.seen = post[Head(x.todo)]
  /\ x.at \in Looked \ {"count"} => Cardinality(Dated) < DailyPostLimit

WithinLimit ==
  /\ \A k \in Con!Kinds : sent[k] <= 1
  /\ IsFiniteSet(Dated) /\ Cardinality(Dated) <= DailyPostLimit

\* With no overlap one caller is busy at a time, or none is.
ConSafe ==
  /\ WithinLimit
  /\ \/ (\A d \in Callers : caller[d] = Con!Free) /\ Sent = Published
     \/ \E c \in Callers : Busy(caller[c]) /\ AloneIn(c, caller[c])

ConInv == ConType /\ (~overlap => ConSafe)

\* A free caller holds nothing.
LEMMA FreeIsFree ==
  ASSUME Con!Constants
  PROVE  /\ Con!Free \in CallerStates /\ ~Busy(Con!Free) /\ Con!Free.at = None
         /\ None \notin Steps
BY DEF Con!Free, CallerStates, Busy, Con!Constants, Steps

\* Busy callers have a kind to be busy with.
LEMMA HeadIsKind ==
  ASSUME NEW x \in CallerStates, Busy(x)
  PROVE  Head(x.todo) \in Con!Kinds
BY DEF CallerStates, Busy

\* What remains of a longer batch is not empty.
LEMMA TailOfLonger ==
  ASSUME NEW S, NEW s \in Seq(S), s # << >>, Len(s) # 1
  PROVE  Tail(s) \in Seq(S) /\ Tail(s) # << >>
<1>1. Len(s) \in Nat /\ Len(s) # 0
  OBVIOUS
<1>2. Tail(s) \in Seq(S) /\ Len(Tail(s)) = Len(s) - 1
  BY <1>1
<1>3. Len(Tail(s)) # 0
  BY <1>1, <1>2
<1> QED
  BY <1>2, <1>3

\* The next state of a caller that is done with a kind: the rest of its list, or free.
LEMMA NextKindIs ==
  ASSUME Con!Constants, ConType, NEW c \in Callers, Busy(caller[c]), Con!NextKind(c)
  PROVE  \E x \in CallerStates :
           /\ caller' = [caller EXCEPT ![c] = x]
           /\ x = Con!Free \/ (Busy(x) /\ x.at = "get")
<1>1. caller[c].todo \in Seq(Con!Kinds) /\ caller[c].todo # << >>
  BY DEF ConType, CallerStates, Busy
<1>2. CASE Len(caller[c].todo) = 1
  BY <1>2, FreeIsFree DEF Con!NextKind
<1>3. CASE Len(caller[c].todo) # 1
  <2>1. PICK x : x = [Con!Free EXCEPT !.at = "get", !.todo = Tail(caller[c].todo)]
    OBVIOUS
  <2>2. x.at = "get" /\ x.todo = Tail(caller[c].todo) /\ x = [at |-> "get", todo |-> Tail(caller[c].todo), seen |-> None]
    BY <2>1 DEF Con!Free
  <2>3. Tail(caller[c].todo) \in Seq(Con!Kinds) /\ Tail(caller[c].todo) # << >>
    BY <1>1, <1>3, TailOfLonger
  <2>4. x \in CallerStates /\ Busy(x)
    BY <2>2, <2>3 DEF CallerStates, Busy, Steps
  <2> QED
    BY <1>3, <2>1, <2>2, <2>4 DEF Con!NextKind
<1> QED
  BY <1>2, <1>3

\* A step of a caller changes its own state; the others stay.
LEMMA CallerStep ==
  ASSUME Con!Constants, ConType, NEW c \in Callers, NEW x \in CallerStates,
         x = Con!Free \/ Busy(x), caller' = [caller EXCEPT ![c] = x],
         post' \in [Con!Kinds -> {"published", "failed", None}],
         sent' \in [Con!Kinds -> Nat], strays' = strays, overlap' \in BOOLEAN
  PROVE  /\ ConType' /\ caller'[c] = x
         /\ \A d \in Callers \ {c} : caller'[d] = caller[d]
<1>1. /\ caller' \in [Callers -> CallerStates] /\ caller'[c] = x
      /\ \A d \in Callers \ {c} : caller'[d] = caller[d]
  BY DEF ConType
<1>2. \A d \in Callers : caller'[d] = Con!Free \/ Busy(caller'[d])
  BY <1>1 DEF ConType
<1>3. ConType'
  BY <1>1, <1>2 DEF ConType, Busy, Con!Free, CallerStates, Con!Kinds
<1> QED
  BY <1>1, <1>3

\* A caller whose call to Telegram or whose query is answered goes on with the same kind.
LEMMA CallerMoves ==
  ASSUME Con!Constants, ConType, NEW c \in Callers, Busy(caller[c]), NEW at \in Steps,
         caller' = [caller EXCEPT ![c].at = at]
  PROVE  \E x \in CallerStates :
           /\ caller' = [caller EXCEPT ![c] = x]
           /\ Busy(x) /\ x.at = at /\ x.todo = caller[c].todo /\ x.seen = caller[c].seen
<1>1. PICK x : x = [caller[c] EXCEPT !.at = at]
  OBVIOUS
<1>2. /\ x \in CallerStates /\ Busy(x) /\ x.at = at
      /\ x.todo = caller[c].todo /\ x.seen = caller[c].seen
  BY <1>1 DEF ConType, CallerStates, Busy
<1>3. caller' = [caller EXCEPT ![c] = x]
  BY <1>1
<1> QED
  BY <1>2, <1>3

\* What a step of the one busy caller has to leave behind.
LEMMA BusyStep ==
  ASSUME Con!Constants, ConType, ConSafe, NEW c \in Callers, Busy(caller[c]),
         NEW x \in CallerStates, x = Con!Free \/ Busy(x), caller' = [caller EXCEPT ![c] = x],
         WithinLimit', Sent' = Published' \cup Unsaved(x), x.at # "lost",
         x.at \in Looked => Head(x.todo) \notin Published' /\ x.seen = post'[Head(x.todo)],
         x.at \in Looked \ {"count"} => Cardinality(Dated') < DailyPostLimit
  PROVE  ConSafe'
<1>1. \A d \in Callers : d # c => caller[d] = Con!Free
  BY FreeIsFree DEF ConSafe, AloneIn
<1>2. caller'[c] = x /\ \A d \in Callers : d # c => caller'[d] = Con!Free
  BY <1>1 DEF ConType
<1>3. CASE x = Con!Free
  <2>1. Unsaved(x) = {}
    BY <1>3, FreeIsFree DEF Unsaved, Steps
  <2>2. \A d \in Callers : caller'[d] = Con!Free
    BY <1>2, <1>3
  <2> QED
    BY <2>1, <2>2 DEF ConSafe, Con!Free
<1>4. CASE Busy(x)
  <2>1. AloneIn(c, caller[c])'
    BY <1>2 DEF AloneIn, Unsaved, Con!Free
  <2> QED
    BY <1>2, <1>4, <2>1 DEF ConSafe, Busy
<1> QED
  BY <1>3, <1>4

\* The state as the one busy caller finds it.
LEMMA AloneNow ==
  ASSUME Con!Constants, ConSafe, NEW c \in Callers, Busy(caller[c])
  PROVE  WithinLimit /\ AloneIn(c, caller[c])
BY FreeIsFree DEF ConSafe, AloneIn

\* What is within a set below the limit and one more is within the limit.
LEMMA OneMoreWithin ==
  ASSUME NEW S, NEW T, NEW k, NEW limit \in Nat,
         IsFiniteSet(S), Cardinality(S) < limit, T \subseteq S \cup {k}
  PROVE  IsFiniteSet(T) /\ Cardinality(T) <= limit
<1>1. IsFiniteSet(S \cup {k}) /\ Cardinality(S) \in Nat
  BY FS_AddElement, FS_CardinalityType
<1>2. Cardinality(S \cup {k}) \in Nat /\ Cardinality(S \cup {k}) <= Cardinality(S) + 1
  BY <1>1, FS_AddElement, FS_CardinalityType
<1>3. /\ IsFiniteSet(T) /\ Cardinality(T) <= Cardinality(S \cup {k})
      /\ Cardinality(T) \in Nat
  BY <1>1, FS_Subset, FS_CardinalityType
<1> QED
  BY <1>1, <1>2, <1>3

\* The posts that are sent and not astray are within the limit.
LEMMA SentWithin ==
  ASSUME Con!Constants, ConType, ConSafe
  PROVE  Cardinality(Sent \ astray) <= DailyPostLimit
<1>0. IsFiniteSet(Dated) /\ Cardinality(Dated) <= DailyPostLimit /\ DailyPostLimit \in Nat
  BY DEF ConSafe, WithinLimit, Con!Constants
<1>1. Published \ astray \subseteq Dated
  BY DEF Published, Dated, Con!Constants
<1>2. CASE Sent = Published
  <2>1. Sent \ astray \subseteq Dated
    BY <1>1, <1>2
  <2>2. Cardinality(Sent \ astray) <= Cardinality(Dated) /\ IsFiniteSet(Sent \ astray)
    BY <1>0, <2>1, FS_Subset
  <2> QED
    BY <1>0, <2>2, FS_CardinalityType
<1>3. ASSUME NEW c \in Callers, AloneIn(c, caller[c]), caller[c].at = "ok"
      PROVE  Cardinality(Sent \ astray) <= DailyPostLimit
  <2>1. Cardinality(Dated) < DailyPostLimit /\ Sent = Published \cup {Head(caller[c].todo)}
    BY <1>3 DEF AloneIn, Unsaved, Looked
  <2>2. Sent \ astray \subseteq Dated \cup {Head(caller[c].todo)}
    BY <1>1, <2>1
  <2> QED
    BY <1>0, <2>1, <2>2, OneMoreWithin
<1>4. ASSUME NEW c \in Callers, AloneIn(c, caller[c]), caller[c].at # "ok"
      PROVE  Sent = Published
  BY <1>4 DEF AloneIn, Unsaved
<1> QED
  BY <1>2, <1>3, <1>4 DEF ConSafe

\* Every step of the callers keeps the count within the cap.
LEMMA ContentStep ==
  ASSUME Con!Constants, ConInv, Con!Next PROVE ConInv'
<1>0. ConType /\ (~overlap => ConSafe)
  BY DEF ConInv
<1>a. ASSUME UNCHANGED <<post, astray, sent, caller, overlap>>, strays' \in Nat PROVE ConInv'
  BY <1>0, <1>a DEF ConInv, ConType, ConSafe, WithinLimit, AloneIn, Unsaved, Sent, Published,
    Dated, Busy, Con!Free, Con!Kinds, CallerStates
<1>1. CASE Con!EnqueueDaily \/ Con!TimePasses \/ Con!OtherDaysRow
  BY <1>0, <1>1, <1>a DEF Con!EnqueueDaily, Con!TimePasses, Con!OtherDaysRow, Con!rows, ConType
<1>2. ASSUME NEW k \in Con!Kinds, Con!BackoffPasses(k) PROVE ConInv'
  BY <1>0, <1>2, <1>a DEF Con!BackoffPasses, Con!rows, ConType
\* A call that begins while none runs.
<1>3. ASSUME NEW c \in Callers, NEW kinds \in Seq(Con!Kinds), kinds # << >>,
             Con!Begin(c, kinds), UNCHANGED <<post, astray, strays, sent>>
      PROVE  ConInv'
  <2>1. PICK x : x = [Con!Free EXCEPT !.at = "get", !.todo = kinds]
    OBVIOUS
  <2>0. x = [at |-> "get", todo |-> kinds, seen |-> None]
    BY <2>1 DEF Con!Free
  <2>2. x \in CallerStates /\ Busy(x) /\ x.at = "get"
    BY <1>3, <2>0 DEF CallerStates, Busy, Steps
  <2>3. caller' = [caller EXCEPT ![c] = x]
    BY <1>3, <2>1 DEF Con!Begin
  <2>4. ConType' /\ caller'[c] = x /\ \A d \in Callers \ {c} : caller'[d] = caller[d]
    <3>1. overlap' \in BOOLEAN
      BY <1>0, <1>3 DEF Con!Begin, ConType
    <3> QED
      BY <1>0, <1>3, <2>2, <2>3, <3>1, CallerStep DEF ConType
  <2>5. ASSUME ~overlap' PROVE ConSafe'
    <3>1. ~overlap /\ \A d \in Callers : caller[d] = Con!Free
      BY <1>3, <2>5 DEF Con!Begin
    <3>2. WithinLimit /\ Sent = Published
      BY <1>0, <3>1, FreeIsFree DEF ConSafe
    <3>3. WithinLimit' /\ Sent' = Published' /\ UNCHANGED <<Sent, Published>>
      BY <1>3, <3>2 DEF WithinLimit, Sent, Published, Dated, Con!Kinds
    <3>4. AloneIn(c, caller[c])'
      BY <2>2, <2>4, <3>1, <3>3 DEF AloneIn, Unsaved, Looked, Con!Free
    <3> QED
      BY <2>2, <2>4, <3>3, <3>4 DEF ConSafe, Busy
  <2> QED
    BY <2>4, <2>5 DEF ConInv
<1>4. ASSUME NEW c \in Callers, Con!GenerateDaily(c) PROVE ConInv'
  BY <1>3, <1>4 DEF Con!GenerateDaily, Con!rows, Con!Constants
<1>5. ASSUME NEW c \in Callers, NEW k \in Con!Kinds, Con!ProcessScheduled(c, k) PROVE ConInv'
  <2>1. <<k>> \in Seq(Con!Kinds) /\ <<k>> # << >>
    OBVIOUS
  <2> QED
    BY <1>3, <1>5, <2>1 DEF Con!ProcessScheduled, Con!rows
\* A step of a caller that neither sends nor saves, and does not begin to publish.
<1>6. ASSUME NEW c \in Callers, Busy(caller[c]), UNCHANGED <<post, astray, strays, sent, overlap>>,
             NEW x \in CallerStates, x = Con!Free \/ Busy(x), caller' = [caller EXCEPT ![c] = x],
             caller[c].at \in {"get", "count"}, x.at \in {"get", "count", None},
             x.at = "count" => Head(x.todo) \notin Published /\ x.seen = post[Head(x.todo)]
      PROVE  ConInv'
  <2>1. ConType'
    BY <1>0, <1>6, CallerStep DEF ConType
  <2>2. UNCHANGED <<Sent, Published, Dated>>
    BY <1>6 DEF Sent, Published, Dated, Con!Kinds
  <2>3. ASSUME ~overlap' PROVE ConSafe'
    <3>1. ConSafe /\ WithinLimit /\ AloneIn(c, caller[c])
      BY <1>0, <1>6, <2>3, AloneNow
    <3>2. Sent = Published /\ Unsaved(x) = {}
      BY <1>6, <3>1, FreeIsFree DEF AloneIn, Unsaved, Steps
    <3>3. WithinLimit'
      BY <1>6, <2>2, <3>1 DEF WithinLimit, Con!Kinds
    <3> QED
      BY <1>0, <1>6, <2>2, <3>1, <3>2, <3>3, BusyStep, FreeIsFree DEF Steps, Looked
  <2> QED
    BY <2>1, <2>3 DEF ConInv
<1>b. ASSUME NEW c \in Callers, caller[c].at \in Steps PROVE Busy(caller[c])
  BY <1>0, <1>b, FreeIsFree DEF ConType
<1>7. ASSUME NEW c \in Callers, Con!Get(c) PROVE ConInv'
  <2>1. Busy(caller[c]) /\ caller[c].at = "get" /\ UNCHANGED <<post, astray, strays, sent, overlap>>
    BY <1>7, <1>b DEF Con!Get, Con!rows, Steps
  <2>2. CASE Con!NextKind(c)
    BY <1>0, <1>6, <2>1, <2>2, NextKindIs, FreeIsFree DEF Steps
  <2>3. CASE ~Con!Settled(Head(caller[c].todo))
    <3>1. PICK x : x = [caller[c] EXCEPT !.at = "count", !.seen = post[Head(caller[c].todo)]]
      OBVIOUS
    <3>2. caller[c] \in CallerStates /\ Head(caller[c].todo) \in Con!Kinds
      BY <1>0, <2>1, HeadIsKind DEF ConType
    <3>3. post[Head(caller[c].todo)] \in {"published", "failed", None}
      BY <1>0, <3>2 DEF ConType
    <3>4. x \in CallerStates /\ x.at = "count" /\ x.todo = caller[c].todo
      BY <3>1, <3>2, <3>3 DEF CallerStates, Steps
    <3>5. Busy(x) /\ caller' = [caller EXCEPT ![c] = x]
      BY <1>7, <2>1, <2>3, <3>1, <3>4 DEF Busy, Steps, Con!Get
    <3>6. Head(x.todo) \notin Published /\ x.seen = post[Head(x.todo)]
      BY <2>3, <3>1, <3>2, <3>4 DEF Con!Settled, Published, CallerStates
    <3> QED
      BY <1>6, <2>1, <3>4, <3>5, <3>6
  <2> QED
    BY <1>7, <2>2, <2>3 DEF Con!Get
<1>8. ASSUME NEW c \in Callers, NEW text \in BOOLEAN, Con!Count(c, text) PROVE ConInv'
  <2>1. Busy(caller[c]) /\ caller[c].at = "count" /\ UNCHANGED <<post, astray, strays, sent, overlap>>
    BY <1>8, <1>b DEF Con!Count, Con!rows, Steps
  <2>2. CASE Con!NextKind(c)
    BY <1>0, <1>6, <2>1, <2>2, NextKindIs, FreeIsFree DEF Steps
  <2>3. CASE ~Con!CapReached /\ caller' = [caller EXCEPT ![c].at = "publish"]
    <3>1. PICK x \in CallerStates :
            /\ caller' = [caller EXCEPT ![c] = x]
            /\ Busy(x) /\ x.at = "publish" /\ x.todo = caller[c].todo /\ x.seen = caller[c].seen
      BY <1>0, <2>1, <2>3, CallerMoves DEF Steps
    <3>2. ConType'
      BY <1>0, <2>1, <3>1, CallerStep DEF ConType
    <3>3. UNCHANGED <<Sent, Published, Dated>>
      BY <2>1 DEF Sent, Published, Dated, Con!Kinds
    <3>4. ASSUME ~overlap' PROVE ConSafe'
      <4>1. ConSafe /\ WithinLimit /\ AloneIn(c, caller[c])
        BY <1>0, <2>1, <3>4, AloneNow
      <4>2. /\ Sent = Published /\ Unsaved(x) = {}
            /\ Head(x.todo) \notin Published /\ x.seen = post[Head(x.todo)]
        BY <2>1, <3>1, <4>1 DEF AloneIn, Unsaved, Looked
      <4>3. WithinLimit'
        BY <2>1, <3>3, <4>1 DEF WithinLimit, Con!Kinds
      <4>4. Cardinality(Dated) \in Nat /\ ~(Cardinality(Dated) + strays >= DailyPostLimit)
        BY <2>3, <4>1, FS_CardinalityType, FiniteSetsOfContent
        DEF Con!CapReached, Con!PostsToday, Dated, WithinLimit
      <4>5. Cardinality(Dated) < DailyPostLimit
        BY <1>0, <4>4 DEF Con!Constants, ConType
      <4> QED
        BY <1>0, <2>1, <3>1, <3>3, <4>1, <4>2, <4>3, <4>5, BusyStep
    <3> QED
      BY <3>2, <3>4 DEF ConInv
  <2> QED
    BY <1>8, <2>2, <2>3 DEF Con!Count
<1>9. ASSUME NEW c \in Callers, NEW outcome \in Con!Outcomes, Con!Publish(c, outcome)
      PROVE  ConInv'
  <2>1. /\ Busy(caller[c]) /\ caller[c].at = "publish"
        /\ post' = post /\ astray' = astray /\ strays' = strays
    BY <1>9, <1>b DEF Con!Publish, Con!rows, Steps
  <2>2. PICK k \in Con!Kinds : k = Head(caller[c].todo)
    BY <1>0, <2>1, HeadIsKind DEF ConType
  <2>3. PICK x \in CallerStates :
          /\ caller' = [caller EXCEPT ![c] = x]
          /\ Busy(x) /\ x.at = outcome /\ x.todo = caller[c].todo /\ x.seen = caller[c].seen
    <3>1. outcome \in Steps
      BY DEF Con!Outcomes, Steps
    <3>2. caller' = [caller EXCEPT ![c].at = outcome]
      BY <1>9 DEF Con!Publish
    <3> QED
      BY <1>0, <2>1, <3>1, <3>2, CallerMoves
  <2>4. sent' = IF outcome \in {"ok", "lost"} THEN [sent EXCEPT ![k] = @ + 1] ELSE sent
    BY <1>9, <2>2 DEF Con!Publish
  <2>5. ConType'
    <3>1. sent' \in [Con!Kinds -> Nat] /\ overlap' \in BOOLEAN
      BY <1>0, <1>9, <2>4 DEF ConType, Con!Publish
    <3> QED
      BY <1>0, <2>1, <2>3, <3>1, CallerStep DEF ConType
  <2>6. ASSUME ~overlap' PROVE ConSafe'
    <3>1. ~overlap /\ outcome # "lost"
      BY <1>9, <2>6 DEF Con!Publish
    <3>2. ConSafe /\ WithinLimit /\ AloneIn(c, caller[c])
      BY <1>0, <2>1, <3>1, AloneNow
    <3>3. /\ Sent = Published /\ k \notin Published /\ caller[c].seen = post[k]
          /\ Cardinality(Dated) < DailyPostLimit
      BY <2>1, <2>2, <3>2 DEF AloneIn, Unsaved, Looked
    <3>6. Published' = Published /\ Dated' = Dated
      BY <2>1 DEF Published, Dated, Con!Kinds
    <3>7. x.at \in Looked =>
            Head(x.todo) \notin Published' /\ x.seen = post'[Head(x.todo)]
      BY <2>1, <2>2, <2>3, <3>3, <3>6
    <3>8. Cardinality(Dated') < DailyPostLimit
      BY <3>3, <3>6
    <3>4. CASE outcome = "ok"
      <4>1. \A j \in Con!Kinds : sent'[j] = IF j = k THEN sent[k] + 1 ELSE sent[j]
        BY <1>0, <2>4, <3>4 DEF ConType
      <4>2. sent[k] = 0 /\ \A j \in Con!Kinds : sent[j] \in Nat
        BY <1>0, <3>3 DEF ConType, Sent
      <4>3. Sent' = Sent \cup {k}
        BY <4>1, <4>2 DEF Sent, Con!Kinds
      <4>6. WithinLimit'
        <5>1. \A j \in Con!Kinds : sent'[j] <= 1
          BY <3>2, <4>1, <4>2 DEF WithinLimit
        <5> QED
          BY <3>2, <3>6, <5>1 DEF WithinLimit, Con!Kinds
      <4>7. Unsaved(x) = {k} /\ Head(x.todo) = k
        BY <2>2, <2>3, <3>4 DEF Unsaved
      <4> QED
        BY <1>0, <2>1, <2>3, <3>2, <3>3, <3>4, <3>6, <3>7, <3>8, <4>3, <4>6, <4>7, BusyStep
    <3>5. CASE outcome \in {"retryable", "permanent"}
      <4>1. sent' = sent /\ Sent' = Sent
        BY <2>4, <3>5 DEF Sent, Con!Kinds
      <4>2. WithinLimit'
        BY <3>2, <3>6, <4>1 DEF WithinLimit, Con!Kinds
      <4>3. Unsaved(x) = {} /\ Head(x.todo) = k
        BY <2>2, <2>3, <3>5 DEF Unsaved
      <4> QED
        BY <1>0, <2>1, <2>3, <3>2, <3>3, <3>5, <3>6, <3>7, <3>8, <4>1, <4>2, <4>3, BusyStep
    <3> QED
      BY <3>1, <3>4, <3>5 DEF Con!Outcomes
  <2> QED
    BY <2>5, <2>6 DEF ConInv
<1>10. ASSUME NEW c \in Callers, Con!SavePost(c) PROVE ConInv'
  <2>1. /\ Busy(caller[c]) /\ caller[c].at \in Con!Outcomes
        /\ sent' = sent /\ strays' = strays /\ overlap' = overlap
    BY <1>10, <1>b DEF Con!SavePost, Steps, Con!Outcomes
  <2>2. PICK k \in Con!Kinds : k = Head(caller[c].todo)
    BY <1>0, <2>1, HeadIsKind DEF ConType
  <2>3. PICK x \in CallerStates :
          caller' = [caller EXCEPT ![c] = x] /\ (x = Con!Free \/ (Busy(x) /\ x.at = "get"))
    <3>1. CASE Con!KeyTaken(c)
      BY <1>10, <3>1, FreeIsFree DEF Con!SavePost
    <3>2. CASE ~Con!KeyTaken(c)
      BY <1>0, <1>10, <2>1, <3>2, NextKindIs DEF Con!SavePost
    <3> QED
      BY <3>1, <3>2
  <2>4. ~Con!KeyTaken(c) =>
          /\ post' = [post EXCEPT ![k] = IF caller[c].at = "ok" THEN "published" ELSE "failed"]
          /\ astray \subseteq astray'
    BY <1>10, <2>2 DEF Con!SavePost, Con!Saved
  <2>5. ConType'
    <3>1. post' \in [Con!Kinds -> {"published", "failed", None}]
      BY <1>0, <1>10, <2>4 DEF ConType, Con!SavePost
    <3> QED
      BY <1>0, <2>1, <2>3, <3>1, CallerStep DEF ConType
  <2>6. ASSUME ~overlap' PROVE ConSafe'
    <3>1. ConSafe /\ WithinLimit /\ AloneIn(c, caller[c])
      BY <1>0, <2>1, <2>6, AloneNow
    <3>2. /\ k \notin Published /\ caller[c].seen = post[k]
          /\ Cardinality(Dated) < DailyPostLimit
      BY <2>1, <2>2, <3>1 DEF AloneIn, Con!Outcomes, Looked
    <3>3. ~Con!KeyTaken(c)
      BY <2>2, <3>2 DEF Con!KeyTaken
    <3>4. Published' = Published \cup Unsaved(caller[c])
      BY <1>0, <2>2, <2>4, <3>2, <3>3 DEF Published, Unsaved, ConType, Con!Kinds
    <3>5. Unsaved(x) = {} /\ x.at \in {"get", None}
      BY <2>3, FreeIsFree DEF Unsaved, Steps
    <3>6. Sent' = Sent /\ Sent' = Published' \cup Unsaved(x)
      BY <2>1, <3>1, <3>4, <3>5 DEF AloneIn, Sent, Con!Kinds
    <3>7. WithinLimit'
      <4>1. Dated' \subseteq Dated \cup {k}
        BY <1>0, <2>4, <3>3 DEF Dated, ConType, Con!Kinds
      <4>2. IsFiniteSet(Dated') /\ Cardinality(Dated') <= DailyPostLimit
        BY <3>1, <3>2, <4>1, OneMoreWithin DEF WithinLimit, Con!Constants
      <4> QED
        BY <2>1, <3>1, <4>2 DEF WithinLimit, Con!Kinds
    <3> QED
      BY <1>0, <2>1, <2>3, <3>1, <3>5, <3>6, <3>7, BusyStep, FreeIsFree DEF Steps, Looked
  <2> QED
    BY <2>5, <2>6 DEF ConInv
<1>11. ASSUME NEW c \in Callers, Con!Crash(c) PROVE ConInv'
  <2>1. /\ Busy(caller[c]) /\ caller' = [caller EXCEPT ![c] = Con!Free]
        /\ UNCHANGED <<post, astray, strays, sent>>
    BY <1>0, <1>11 DEF Con!Crash, Con!rows, ConType
  <2>2. ConType'
    <3>1. overlap' \in BOOLEAN
      BY <1>0, <1>11 DEF Con!Crash, ConType
    <3> QED
      BY <1>0, <2>1, <3>1, CallerStep, FreeIsFree DEF ConType
  <2>3. ASSUME ~overlap' PROVE ConSafe'
    <3>1. ~overlap /\ caller[c].at # "ok"
      BY <1>11, <2>3 DEF Con!Crash
    <3>2. ConSafe /\ WithinLimit /\ AloneIn(c, caller[c])
      BY <1>0, <2>1, <3>1, AloneNow
    <3>3. WithinLimit' /\ UNCHANGED <<Sent, Published, Dated>>
      BY <2>1, <3>2 DEF WithinLimit, Sent, Published, Dated, Con!Kinds
    <3>4. Sent = Published /\ Unsaved(Con!Free) = {}
      BY <3>1, <3>2, FreeIsFree DEF AloneIn, Unsaved, Steps
    <3> QED
      BY <1>0, <2>1, <3>2, <3>3, <3>4, BusyStep, FreeIsFree DEF Steps, Looked
  <2> QED
    BY <2>2, <2>3 DEF ConInv
<1> QED
  BY <1>1, <1>2, <1>4, <1>5, <1>7, <1>8, <1>9, <1>10, <1>11 DEF Con!Next

\* The channel gets each kind of post at most once a day, and of those whose row
\* is created on the database's date of the day no more than the limit, for every
\* plan of kinds, limit and number of calls, through refusals, retries, crashes
\* and midnights, unless two calls overlap or a post that was accepted is not
\* saved (generate_daily, process_scheduled_message, count_posts, save_post).
THEOREM ChannelCapped ==
  ASSUME Con!Constants
  PROVE  Con!Spec => []CappedUnlessOverlap
<1>1. Con!Init => ConInv
  <2> SUFFICES ASSUME Con!Init PROVE ConInv
    OBVIOUS
  <2>1. ConType
    BY FreeIsFree DEF Con!Init, ConType
  <2>2. Sent = {} /\ Published = {} /\ Dated = {}
    BY DEF Con!Init, Sent, Published, Dated, Con!Constants
  <2>3. IsFiniteSet({}) /\ Cardinality({}) = 0
    BY FS_EmptySet
  <2>4. WithinLimit
    BY <2>2, <2>3 DEF Con!Init, WithinLimit, Con!Constants
  <2> QED
    BY <2>1, <2>2, <2>4 DEF Con!Init, ConInv, ConSafe
<1>2. ConInv /\ [Con!Next]_(Con!vars) => ConInv'
  <2> SUFFICES ASSUME ConInv, [Con!Next]_(Con!vars) PROVE ConInv'
    OBVIOUS
  <2>1. CASE Con!Next
    BY <2>1, ContentStep
  <2>2. CASE UNCHANGED Con!vars
    BY <2>2 DEF Con!vars, ConInv, ConType, ConSafe, WithinLimit, AloneIn, Unsaved, Sent,
      Published, Dated, Busy, Con!Free, Con!Kinds, CallerStates
  <2> QED
    BY <2>1, <2>2
<1>3. ConInv => Con!CappedUnlessOverlap
  BY FiniteSetsOfContent, SentWithin DEF ConInv, ConSafe, WithinLimit, Sent, Con!CappedUnlessOverlap
<1> QED
  BY <1>1, <1>2, <1>3, PTL DEF Con!Spec, CappedUnlessOverlap

=============================================================================
