----------------------------- MODULE Referrals -----------------------------
(***************************************************************************)
(* Referrals (services/referrals.py, SQLAlchemyReferralRepository): a user *)
(* who starts the bot with another user's code becomes that user's pending *)
(* referral; the first search or saved filter activates it, and the        *)
(* referrer who reaches the threshold is given premium time once.          *)
(*                                                                         *)
(* register_start reads one event per await while it walks up the chain of *)
(* referrers, and inserts the new event last; activate_once is one         *)
(* transaction that locks the event and the referrer's row.                *)
(***************************************************************************)
EXTENDS Naturals, FiniteSets

CONSTANTS
  Users, Requests,
  Threshold,     \* REFERRAL_THRESHOLD
  MaxAttempts,   \* starts the rate limiter allows in its window
  None

\* What the services' configuration guarantees; None is no user and no state of a row.
Constants ==
  /\ IsFiniteSet(Users) /\ Threshold \in Nat \ {0}
  /\ None \notin Users \cup {"pending", "active", "walk", "existing", "create"}

VARIABLES
  known,     \* users with a row
  event,     \* the referral event of each referred user, unique by referred_user_id
  request,   \* the register_start calls in flight
  attempts,  \* starts in the current window of the rate limiter
  active,    \* users.active_referral_count
  award,     \* referrers with a premium award row for the milestone
  premium,   \* premium extensions given to each user
  told,      \* premium_awarded notifications sent
  raced      \* some event was inserted while another start was being checked

vars == <<known, event, request, attempts, active, award, premium, told, raced>>

NoEvent == [referrer |-> None, status |-> None]
NoRequest == [user |-> None, referrer |-> None, at |-> None, current |-> None, visited |-> {}]

Init ==
  /\ known = {}
  /\ event = [u \in Users |-> NoEvent]
  /\ request = [r \in Requests |-> NoRequest]
  /\ attempts = [u \in Users |-> 0]
  /\ active = [u \in Users |-> 0]
  /\ award = {}
  /\ premium = [u \in Users |-> 0]
  /\ told = [u \in Users |-> 0]
  /\ raced = FALSE

\* InMemoryReferralRateLimiter.allow
Allows(u) == attempts[u] < MaxAttempts

\* upsert_telegram_user: the row, with the code made from the user's id.
Upserted(u) == known \cup {u}

\* get_pending_or_active_event
HasEvent(u) == event[u] # NoEvent

\* create_pending_event: the unique index on the referred user decides between two inserts.
Inserted(u, referrer) ==
  IF HasEvent(u) THEN event
  ELSE [event EXCEPT ![u] = [referrer |-> referrer, status |-> "pending"]]

Finish(r) == request' = [request EXCEPT ![r] = NoRequest]

\* The rate limiter, the upsert of the user, and the checks of the code itself: no code, an
\* unknown code or the user's own code end the call here.
Start(r, u, code) ==
  /\ request[r] = NoRequest
  /\ known' = Upserted(u)
  /\ attempts' = [attempts EXCEPT ![u] = IF Allows(u) THEN @ + 1 ELSE @]
  /\ IF Allows(u) /\ code \in known' \ {u}
     THEN request' = [request EXCEPT ![r] =
            [user |-> u, referrer |-> code, at |-> "walk", current |-> code, visited |-> {}]]
     ELSE UNCHANGED request
  /\ UNCHANGED <<event, active, award, premium, told, raced>>

WindowPasses(u) ==
  /\ attempts[u] > 0
  /\ attempts' = [attempts EXCEPT ![u] = 0]
  /\ UNCHANGED <<known, event, request, active, award, premium, told, raced>>

\* Mutant: the walk stops at the first referrer.
WalkOnce(r) ==
  LET q == request[r]
      e == event[q.current]
  IN  /\ q.at = "walk"
      /\ IF e # NoEvent /\ e.referrer = q.user
         THEN Finish(r)
         ELSE request' = [request EXCEPT ![r].at = "existing"]
      /\ UNCHANGED <<known, event, attempts, active, award, premium, told, raced>>

\* One iteration of _would_create_cycle.
Walk(r) ==
  LET q == request[r]
      e == event[q.current]
  IN  /\ q.at = "walk"
      /\ IF q.current \in q.visited \/ (e # NoEvent /\ e.referrer = q.user)
         THEN Finish(r)
         ELSE IF ~HasEvent(q.current)
         THEN request' = [request EXCEPT ![r].at = "existing"]
         ELSE request' = [request EXCEPT ![r].current = e.referrer,
                                         ![r].visited = @ \cup {q.current}]
      /\ UNCHANGED <<known, event, attempts, active, award, premium, told, raced>>

\* An event the user already has is kept: the referrer is immutable.
CheckExisting(r) ==
  /\ request[r].at = "existing"
  /\ IF HasEvent(request[r].user)
     THEN Finish(r)
     ELSE request' = [request EXCEPT ![r].at = "create"]
  /\ UNCHANGED <<known, event, attempts, active, award, premium, told, raced>>

\* The event is made last.
Create(r) ==
  LET q == request[r]
  IN  /\ q.at = "create"
      /\ event' = Inserted(q.user, q.referrer)
      /\ Finish(r)
      /\ raced' = (raced \/ (event' # event
                             /\ \E s \in Requests \ {r} : request[s] # NoRequest))
      /\ UNCHANGED <<known, attempts, active, award, premium, told>>

\* Mutant: no award row is looked up.
EarnsAlways(u) == active[u] + 1 >= Threshold

Earns(u) == active[u] + 1 >= Threshold /\ u \notin award

\* activate_once: one transaction, with the event and the referrer's row locked.
ActivateOnce(u, referrer) ==
  /\ event[u].status = "pending"
  /\ event' = [event EXCEPT ![u].status = "active"]
  /\ active' = [active EXCEPT ![referrer] = @ + 1]
  /\ award' = IF Earns(referrer) THEN award \cup {referrer} ELSE award
  /\ premium' = IF Earns(referrer) THEN [premium EXCEPT ![referrer] = @ + 1] ELSE premium

\* record_qualifying_action: the notification follows the commit.
Activate(u, delivered) ==
  LET referrer == event[u].referrer
  IN  /\ ActivateOnce(u, referrer)
      /\ told' = IF Earns(referrer) /\ delivered THEN [told EXCEPT ![referrer] = @ + 1] ELSE told
      /\ UNCHANGED <<known, request, attempts, raced>>

\* The process ends with calls in flight, its rate limiter forgets.
Restart ==
  /\ \E r \in Requests : request[r] # NoRequest
  /\ request' = [r \in Requests |-> NoRequest]
  /\ attempts' = [u \in Users |-> 0]
  /\ UNCHANGED <<known, event, active, award, premium, told, raced>>

Next ==
  \/ \E r \in Requests :
       \/ \E u \in Users, code \in Users : Start(r, u, code)
       \/ Walk(r) \/ CheckExisting(r) \/ Create(r)
  \/ \E u \in Users : WindowPasses(u) \/ \E delivered \in BOOLEAN : Activate(u, delivered)
  \/ Restart

Spec == Init /\ [][Next]_vars

----------------------------------------------------------------------------

Referred(u) == {v \in Users : event[v].referrer = u /\ event[v].status = "active"}

\* The counter on the referrer's row is the number of active events, premium is given exactly
\* once to every referrer at or past the threshold, and nobody is told of premium they have not
\* got, in whatever order the referred users activate (activate_once).
AwardMatchesCount ==
  \A u \in Users :
    /\ active[u] = Cardinality(Referred(u))
    /\ u \in award <=> active[u] >= Threshold
    /\ premium[u] = IF u \in award THEN 1 ELSE 0
    /\ told[u] <= premium[u]

\* Users who refer each other around: everybody's referrer is one of them.
Ring(S) == S # {} /\ \A u \in S : event[u].referrer \in S

\* Nobody is, over any number of referrals, their own referrer, unless an event was inserted
\* while another start was still walking up the chain (register_start rejects
\* "circular_referral").
CycleOnlyByRace == raced \/ \A S \in SUBSET Users : ~Ring(S)
=============================================================================
