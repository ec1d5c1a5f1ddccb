------------------------------ MODULE Metrics ------------------------------
(***************************************************************************)
(* Product metrics (services/analytics.py): events recorded once a key,    *)
(* best effort, while time passes, and the beta snapshot an admin asks for *)
(* over a window of days.  Time is counted in half days.                   *)
(***************************************************************************)
EXTENDS Naturals, FiniteSets

CONSTANTS
  Users,
  MaxTime,     \* bound: the clock
  MaxEvents,   \* bound: recorded events
  Windows      \* the [start, end) windows asked for

\* An admin asks for a window of whole days that does not end before it starts.
Constants ==
  \A w \in Windows : w.start \in Nat /\ w.end \in Nat /\ w.start <= w.end

VARIABLES
  now,
  events       \* analytics_events: [key, name, user, at]

vars == <<now, events>>

Day == 2
D7Window == Day        \* d7_window_hours = 24

\* ACTIVATION_EVENTS.
ActivationEvents == {"search_completed", "saved_filter_created"}

Names == {"user_registered", "referral_accepted", "referral_activated"} \cup ActivationEvents

\* The callers' keys: one a user and name, but one a search's criteria, and one a
\* filter, of which the user has one here.
Key(name, u, detail) == <<name, u, detail>>
Details(name) == IF name = "search_completed" THEN {1, 2} ELSE {1}

Init == now = 0 /\ events = {}

Tick ==
  /\ now < MaxTime
  /\ now' = now + 1
  /\ UNCHANGED events

\* A registration is dated by the user's row, which is older than the event when
\* earlier attempts to record it failed; everything else by the clock.
OccurredAt(name) == IF name = "user_registered" THEN 0 .. now ELSE {now}

\* record_once: insert on conflict do nothing, so the first event of a key stays.
\* A failed insert, or a recorder's error, is swallowed and nothing is recorded.
Record(name, u, detail) ==
  /\ Cardinality(events) < MaxEvents
  /\ \E at \in OccurredAt(name) :
       events' = IF \E e \in events : e.key = Key(name, u, detail) THEN events
                 ELSE events \cup {[key |-> Key(name, u, detail), name |-> name,
                                    user |-> u, at |-> at]}
  /\ UNCHANGED now

Next ==
  \/ Tick
  \/ \E name \in Names, u \in Users : \E d \in Details(name) : Record(name, u, d)

Spec == Init /\ [][Next]_vars

-----------------------------------------------------------------------------
(* The snapshot                                                            *)

\* list_events: start <= occurred_at < end.
ListEvents(start, end) == {e \in events : start <= e.at /\ e.at < end}

\* Mutant: the lookup forgets the width of the day-7 window.
LookupEndNarrow(end) == end + 7 * Day

\* beta_snapshot: retention_lookup_end.
LookupEnd(end) == end + 8 * Day + D7Window

UsersOf(es, name) == {e.user : e \in {x \in es : x.name = name}}

RegisteredAt(es, u) == (CHOOSE e \in es : e.name = "user_registered" /\ e.user = u).at

\* _activation_rate: of those registered in the window, the ones active in it since.
Registered(w) == UsersOf(ListEvents(w.start, w.end), "user_registered")
Activated(w) ==
  LET es == ListEvents(w.start, w.end) IN
  {u \in Registered(w) :
     \E e \in es : e.user = u /\ e.name \in ActivationEvents /\ RegisteredAt(es, u) <= e.at}

\* _d7_retention, over the events list_events returned.
Retained(w) ==
  LET es == ListEvents(w.start, LookupEnd(w.end))
      day7(u) == RegisteredAt(es, u) + 7 * Day
  IN {u \in Registered(w) :
        \E e \in es : /\ e.user = u /\ e.name # "user_registered"
                      /\ day7(u) <= e.at /\ e.at < day7(u) + D7Window}

\* _referral_conversion: accepted and activated, both in the window.
Invited(w) == UsersOf(ListEvents(w.start, w.end), "referral_accepted")
Converted(w) == UsersOf(ListEvents(w.start, w.end), "referral_activated") \cap Invited(w)

-----------------------------------------------------------------------------
(* Properties                                                              *)

\* What becomes of a user, as far as it is recorded: active in the day from the
\* seventh day on.  A search asked for once more with the same criteria is not.
ReturnedOnDay7(u) ==
  \E r, e \in events : /\ r.user = u /\ r.name = "user_registered"
                       /\ e.user = u /\ e.name # "user_registered"
                       /\ r.at + 7 * Day <= e.at /\ e.at < r.at + 7 * Day + D7Window

\* The snapshot's retention, computed from a bounded lookup, misses no user of
\* the window with an event recorded on day seven, whenever in the window he
\* registered, and counts nobody else.
RetentionIsComplete ==
  \A w \in Windows : Retained(w) = {u \in Registered(w) : ReturnedOnDay7(u)}

\* A window's metrics split over the days it is made of: nobody registers, is
\* invited or retained in two of them or in none; activations and conversions
\* are only those that happened within one part, so the parts never add up to
\* more than the whole.
DaysAddUp ==
  \A v, w \in Windows :
    v.end = w.start =>
      LET whole == [start |-> v.start, end |-> w.end] IN
      /\ Registered(v) \cap Registered(w) = {}
      /\ Registered(v) \cup Registered(w) = Registered(whole)
      /\ Retained(v) \cup Retained(w) = Retained(whole)
      /\ Activated(v) \cup Activated(w) \subseteq Activated(whole)
      /\ Converted(v) \cup Converted(w) \subseteq Converted(whole)

\* Both: no snapshot loses or repeats a user, as a whole or by its days.
SnapshotIsComplete == RetentionIsComplete /\ DaysAddUp
=============================================================================
