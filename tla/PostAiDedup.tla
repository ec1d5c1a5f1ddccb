---------------------------- MODULE PostAiDedup ----------------------------
(***************************************************************************)
(* The post-AI stage: workers that persist announcements as parents,      *)
(* children or review cases (services/post_ai_dedup.py over               *)
(* repositories/post_ai_dedup.py), and the admin who settles the cases     *)
(* (ManualReviewQueueService behind api/admin.py).                         *)
(*                                                                         *)
(* What the scoring says of two announcements is `likeness`; which         *)
(* candidate scores best is left open (DedupScoring has the arithmetic).   *)
(* An announcement's canonical listing is the set of fields it fills.      *)
(***************************************************************************)
EXTENDS Naturals, FiniteSets

CONSTANTS
    Announcements,  \* one per source message, each with one queue message
    Workers,        \* dedup worker processes
    Fields,         \* canonical fields a listing may fill
    MaxFaults,      \* bound: handlers that fail or die, and admin API restarts
    MaxActions,     \* bound: admin actions
    Inputs          \* the initial [flagged, likeness, fields] triples tried

NoOne == "no one"

Status == {"active", "manual_review"}
ReviewStatus == {"pending", "approved", "rejected", "merged"}
ReviewReason == {"possible_duplicate", "low_confidence"}
Verdict == {"merge", "review", "new"}

\* A listing has finitely many fields; every announcement is told apart from no
\* one, and compared with every other.
Constants ==
    /\ NoOne \notin Announcements /\ IsFiniteSet(Fields)
    /\ \A i \in Inputs :
        /\ \A a \in Announcements : i.fields[a] \in SUBSET Fields
        /\ \A a, c \in Announcements : a # c => i.likeness[{a, c}] \in Verdict

VARIABLES
    input,      \* [flagged, likeness, fields]: what the announcements say, fixed
    queue,      \* announcements whose message is ready
    row,        \* the announcements table
    review,     \* manual_review_items, by announcement and reason
    published,  \* announcements behind a stored announcement.persisted event
    handled,    \* announcements whose message was acknowledged
    worker,     \* what each worker holds
    admin,      \* the admin action between its two writes, or idle
    faults, actions,
    interrupted, \* history: announcements whose processing failed part way
    clock,      \* the time: goes on with every message that is read
    since,      \* when each worker read the message it holds, 0 when idle
    stale,      \* workers whose connection was lost: the broker has the message back
    outlived,   \* history: a worker went on with a message the broker had back
    crossed      \* history: a link or an activation was committed while another
                 \* process held a decision it had not carried out, or an admin
                 \* merged into a candidate that was merged after the case was opened

deliveries == <<clock, since, stale, outlived>>
vars == <<input, queue, row, review, published, handled, worker, admin,
          faults, actions, interrupted, crossed, deliveries>>

Absent == [status |-> "absent"]
Row == [status: Status, parent: Announcements \cup {NoOne}, fields: SUBSET Fields,
        created: Nat]
Item == [status: ReviewStatus, related: Announcements \cup {NoOne}]
NoItem == [status |-> "absent"]
Idle == [at |-> "idle"]
NoAction == [at |-> "idle"]

Persisted(a) == row[a] # Absent
IsParent(a) == Persisted(a) /\ row[a].parent = NoOne

\* from_payload: a review reason in the payload makes the announcement one.
Flagged(a) == a \in input.flagged

-----------------------------------------------------------------------------
(* The repository. *)

\* save_parent: insert, or the row the source message already has.
Saved(a, status, time) ==
    IF Persisted(a) THEN row[a]
    ELSE [status |-> status, parent |-> NoOne, fields |-> input.fields[a],
          created |-> time]

\* Mutant: the parent's fields stay as they are.
MergeParentFieldsKeep(parent, child) == parent

\* merge_parent_fields: the child fills what the parent leaves empty.
MergeParentFields(parent, child) == parent \cup child

\* _upsert_child: a child that has a row keeps its own fields and created_at.
UpsertedChild(c, fields, time, p) ==
    IF Persisted(c) THEN [row[c] EXCEPT !.parent = p, !.status = "active"]
    ELSE [status |-> "active", parent |-> p, fields |-> fields, created |-> time]

\* _update_parent_aggregate
ParentAggregate(p, fields) ==
    [row[p] EXCEPT !.fields = MergeParentFields(@, fields)]

\* link_child: both in one transaction under row locks, nothing when linked already.
LinkChild(c, fields, time, p) ==
    IF Persisted(c) /\ row[c].parent = p THEN row
    ELSE [row EXCEPT ![c] = UpsertedChild(c, fields, time, p),
                     ![p] = ParentAggregate(p, fields)]

\* activate_announcement: only out of manual review.
Activated(a) ==
    IF Persisted(a) /\ row[a].status = "manual_review"
    THEN [row EXCEPT ![a].status = "active"] ELSE row

\* enqueue_manual_review_item: one item per announcement and reason.
Enqueued(a, reason, related) ==
    IF review[a][reason] # NoItem THEN review
    ELSE [review EXCEPT ![a][reason] = [status |-> "pending", related |-> related]]

\* update_manual_review_item
Updated(a, reason, status) == [review EXCEPT ![a][reason].status = status]

-----------------------------------------------------------------------------
(* A worker takes a message and evaluates it. *)

\* from_payload stamps what it parses: created_at.
TimeOf(w) ==
    /\ clock' = clock + 1
    /\ since' = [since EXCEPT ![w] = clock]
    /\ UNCHANGED <<stale, outlived>>

\* Mutant: the review reason of the payload is not looked at.
TakeUnflagged(w) ==
    /\ worker[w].at = "idle"
    /\ \E a \in queue :
        /\ queue' = queue \ {a}
        /\ worker' = [worker EXCEPT ![w] = [at |-> "evaluate", of |-> a]]
    /\ TimeOf(w)
    /\ UNCHANGED <<input, row, review, published, handled, admin, faults, actions,
                   interrupted, crossed>>

Take(w) ==
    /\ worker[w].at = "idle"
    /\ \E a \in queue :
        /\ queue' = queue \ {a}
        /\ worker' = [worker EXCEPT ![w] =
                        [at |-> IF Flagged(a) THEN "flagged" ELSE "evaluate", of |-> a]]
    /\ TimeOf(w)
    /\ UNCHANGED <<input, row, review, published, handled, admin, faults,
                   actions, interrupted, crossed>>

\* list_candidates: the other active parents.
Candidates(a) == {c \in Announcements \ {a} : IsParent(c) /\ row[c].status = "active"}

Likeness(a, c) == input.likeness[{a, c}]

\* evaluate: some candidate scores best and gives its verdict; without one, "new".
Evaluate(w) ==
    /\ worker[w].at = "evaluate"
    /\ LET a == worker[w].of
       IN  \/ /\ Candidates(a) = {}
              /\ worker' = [worker EXCEPT ![w] = [at |-> "new", of |-> a]]
           \/ \E c \in Candidates(a) :
                worker' = [worker EXCEPT ![w] =
                            [at |-> Likeness(a, c), of |-> a, candidate |-> c]]
    /\ UNCHANGED <<input, queue, row, review, published, handled, admin,
                   faults, actions, interrupted, crossed, deliveries>>

\* Mutant: a tie goes to the incoming announcement.
CandidateIsParentStrict(a, time, c) ==
    Cardinality(row[c].fields) > Cardinality(input.fields[a])

\* ParentSelectionPolicy: the more complete listing, of equals the one created
\* first. A message read again is created again; a row keeps its created_at.
CandidateIsParent(a, time, c) ==
    \/ Cardinality(row[c].fields) > Cardinality(input.fields[a])
    \/ /\ Cardinality(row[c].fields) = Cardinality(input.fields[a])
       /\ row[c].created <= time

\* get and select_parent, for a verdict that merges.
SelectParent(w) ==
    /\ worker[w].at = "merge"
    /\ LET a == worker[w].of
           c == worker[w].candidate
       IN  worker' = [worker EXCEPT ![w] =
                IF CandidateIsParent(a, since[w], c)
                THEN [at |-> "link", of |-> a, child |-> a, parent |-> c,
                      fields |-> input.fields[a]]
                ELSE [at |-> "saveparent", of |-> a, child |-> c, parent |-> a,
                      fields |-> row[c].fields]]
    /\ UNCHANGED <<input, queue, row, review, published, handled, admin,
                   faults, actions, interrupted, crossed, deliveries>>

-----------------------------------------------------------------------------
(* Carrying the decision out, one await at a time. *)

\* Processes that read the tables and have not written what they decided.
Deciding ==
    {w \in Workers : worker[w].at \in {"merge", "link", "saveparent", "publishlink"}}

SaveParent(w) ==
    /\ worker[w].at \in {"new", "saveparent"}
    /\ row' = [row EXCEPT ![worker[w].of] = Saved(worker[w].of, "active", since[w])]
    /\ worker' = [worker EXCEPT ![w].at = IF @ = "new" THEN "publish" ELSE "publishlink"]
    /\ UNCHANGED <<input, queue, review, published, handled, admin, faults,
                   actions, interrupted, crossed, deliveries>>

\* Mutant: a parent that takes over a stored one is not announced.
PublishPersistedNewOnly(w) ==
    /\ worker[w].at \in {"publish", "publishlink"}
    /\ published' = IF worker[w].at = "publish" THEN published \cup {worker[w].of}
                    ELSE published
    /\ worker' = [worker EXCEPT ![w].at = IF @ = "publish" THEN "decided" ELSE "link"]
    /\ UNCHANGED <<input, queue, row, review, handled, admin, faults, actions,
                   interrupted, crossed, deliveries>>

\* _publish_persisted: only for a row that is active.
PublishPersisted(w) ==
    /\ worker[w].at \in {"publish", "publishlink"}
    /\ published' = IF row[worker[w].of].status = "active"
                    THEN published \cup {worker[w].of} ELSE published
    /\ worker' = [worker EXCEPT ![w].at = IF @ = "publish" THEN "decided" ELSE "link"]
    /\ UNCHANGED <<input, queue, row, review, handled, admin, faults, actions,
                   interrupted, crossed, deliveries>>

Link(w) ==
    /\ worker[w].at = "link"
    /\ row' = LinkChild(worker[w].child, worker[w].fields, since[w], worker[w].parent)
    /\ worker' = [worker EXCEPT ![w] = [at |-> "decided", of |-> worker[w].of]]
    /\ crossed' = (crossed \/ Deciding # {w} \/ admin.at # "idle")
    /\ UNCHANGED <<input, queue, review, published, handled, admin, faults,
                   actions, interrupted, deliveries>>

\* Mutant: only what the AI stage flagged gets a case.
SaveForReviewWithoutCase(w) ==
    /\ worker[w].at \in {"review", "flagged"}
    /\ row' = [row EXCEPT ![worker[w].of] = Saved(worker[w].of, "manual_review", since[w])]
    /\ worker' = [worker EXCEPT ![w] =
                    IF worker[w].at = "review" THEN [at |-> "decided", of |-> worker[w].of]
                    ELSE [at |-> "enqueue", of |-> worker[w].of,
                          reason |-> "low_confidence", related |-> NoOne]]
    /\ UNCHANGED <<input, queue, review, published, handled, admin, faults, actions,
                   interrupted, crossed, deliveries>>

\* A possible duplicate, or a flagged announcement: saved for review.
SaveForReview(w) ==
    /\ worker[w].at \in {"review", "flagged"}
    /\ row' = [row EXCEPT ![worker[w].of] = Saved(worker[w].of, "manual_review", since[w])]
    /\ worker' = [worker EXCEPT ![w] =
                    [at |-> "enqueue", of |-> worker[w].of,
                     reason |-> IF worker[w].at = "review" THEN "possible_duplicate"
                                ELSE "low_confidence",
                     related |-> IF worker[w].at = "review" THEN worker[w].candidate
                                 ELSE NoOne]]
    /\ UNCHANGED <<input, queue, review, published, handled, admin, faults,
                   actions, interrupted, crossed, deliveries>>

Enqueue(w) ==
    /\ worker[w].at = "enqueue"
    /\ review' = Enqueued(worker[w].of, worker[w].reason, worker[w].related)
    /\ worker' = [worker EXCEPT ![w] = [at |-> "decided", of |-> worker[w].of]]
    /\ UNCHANGED <<input, queue, row, published, handled, admin, faults,
                   actions, interrupted, crossed, deliveries>>

\* record_decision adds an audit row, and the message is acknowledged; on a lost
\* connection that raises (Fail).
Acknowledge(w) ==
    /\ worker[w].at = "decided"
    /\ w \notin stale
    /\ handled' = handled \cup {worker[w].of}
    /\ worker' = [worker EXCEPT ![w] = Idle]
    /\ since' = [since EXCEPT ![w] = 0]
    /\ UNCHANGED <<input, queue, row, review, published, admin, faults,
                   actions, interrupted, crossed, clock, stale, outlived>>

\* The connection is lost under the handler, which goes on; the broker has the
\* message back at once.
LoseConnection(w) ==
    /\ faults < MaxFaults
    /\ worker[w].at # "idle" /\ w \notin stale
    /\ faults' = faults + 1
    /\ queue' = queue \cup {worker[w].of}
    /\ interrupted' = interrupted \cup {worker[w].of}
    /\ stale' = stale \cup {w}
    /\ outlived' = TRUE
    /\ UNCHANGED <<input, row, review, published, handled, worker, admin, actions,
                   crossed, clock, since>>

\* The process dies, an await raises, the acknowledgement among them: the message
\* or a copy of it comes back and is processed from the start, unless it is in the
\* queue already, gone with its process or at the limit of its retries.
Fail(w) ==
    /\ worker[w].at # "idle"
    /\ \/ w \in stale /\ UNCHANGED faults
       \/ faults < MaxFaults /\ w \notin stale /\ faults' = faults + 1
    /\ queue' \in {queue, queue \cup {worker[w].of}}
    /\ interrupted' = interrupted \cup {worker[w].of}
    /\ worker' = [worker EXCEPT ![w] = Idle]
    /\ since' = [since EXCEPT ![w] = 0]
    /\ stale' = stale \ {w}
    /\ UNCHANGED <<input, row, review, published, handled, admin, actions,
                   crossed, clock, outlived>>

-----------------------------------------------------------------------------
(* The admin's actions. Each holds the process's lock over both its writes   *)
(* and carries the status the admin saw. A request whose idempotency key the *)
(* process has seen, or whose status does not fit, changes nothing.          *)

MayAct(a, reason, expected) ==
    /\ admin.at = "idle"
    /\ actions < MaxActions
    /\ review[a][reason] # NoItem
    /\ review[a][reason].status = expected

\* mark_as_new: activate, then store the item (nothing when already approved).
MarkAsNew(a, reason, expected) ==
    /\ MayAct(a, reason, expected)
    /\ review[a][reason].status # "approved"
    /\ row' = Activated(a)
    /\ admin' = [at |-> "store", of |-> a, reason |-> reason, status |-> "approved"]
    /\ actions' = actions + 1
    /\ crossed' = (crossed \/ Deciding # {})
    /\ UNCHANGED <<input, queue, review, published, handled, worker, faults,
                   interrupted, deliveries>>

\* merge_related_duplicate: link to the candidate of the case, then store. Whether the
\* candidate still is a parent is not looked at.
MergeRelated(a, reason, expected) ==
    /\ MayAct(a, reason, expected)
    /\ review[a][reason].related # NoOne
    /\ row' = LinkChild(a, row[a].fields, row[a].created, review[a][reason].related)
    /\ admin' = [at |-> "store", of |-> a, reason |-> reason, status |-> "merged"]
    /\ actions' = actions + 1
    /\ crossed' = (crossed \/ Deciding # {} \/ ~IsParent(review[a][reason].related))
    /\ UNCHANGED <<input, queue, review, published, handled, worker, faults,
                   interrupted, deliveries>>

\* reject: the item alone.
Reject(a, reason, expected) ==
    /\ MayAct(a, reason, expected)
    /\ review[a][reason].status # "rejected"
    /\ admin' = [at |-> "store", of |-> a, reason |-> reason, status |-> "rejected"]
    /\ actions' = actions + 1
    /\ UNCHANGED <<input, queue, row, review, published, handled, worker,
                   faults, interrupted, crossed, deliveries>>

StoreItem ==
    /\ admin.at = "store"
    /\ review' = Updated(admin.of, admin.reason, admin.status)
    /\ admin' = NoAction
    /\ UNCHANGED <<input, queue, row, published, handled, worker, faults, actions,
                   interrupted, crossed, deliveries>>

\* The admin API restarts between the two writes of an action.
AdminRestart ==
    /\ faults < MaxFaults
    /\ admin.at # "idle"
    /\ faults' = faults + 1
    /\ interrupted' = interrupted \cup {admin.of}
    /\ admin' = NoAction
    /\ UNCHANGED <<input, queue, row, review, published, handled, worker, actions,
                   crossed, deliveries>>

-----------------------------------------------------------------------------
Init ==
    /\ input \in Inputs
    /\ queue = Announcements
    /\ row = [a \in Announcements |-> Absent]
    /\ review = [a \in Announcements |-> [r \in ReviewReason |-> NoItem]]
    /\ published = {}
    /\ handled = {}
    /\ worker = [w \in Workers |-> Idle]
    /\ admin = NoAction
    /\ faults = 0
    /\ actions = 0
    /\ interrupted = {}
    /\ clock = 1
    /\ since = [w \in Workers |-> 0]
    /\ stale = {}
    /\ outlived = FALSE
    /\ crossed = FALSE

Process(w) ==
    \/ Take(w)
    \/ Evaluate(w)
    \/ SelectParent(w)
    \/ SaveParent(w)
    \/ PublishPersisted(w)
    \/ Link(w)
    \/ SaveForReview(w)
    \/ Enqueue(w)
    \/ Acknowledge(w)
    \/ LoseConnection(w)
    \/ Fail(w)

AdminActs ==
    \E a \in Announcements, reason \in ReviewReason, expected \in ReviewStatus :
        \/ MarkAsNew(a, reason, expected)
        \/ MergeRelated(a, reason, expected)
        \/ Reject(a, reason, expected)

Next ==
    \/ \E w \in Workers : Process(w)
    \/ AdminActs
    \/ StoreItem
    \/ AdminRestart

Spec == Init /\ [][Next]_vars

-----------------------------------------------------------------------------
(* Properties. *)

Child == {a \in Announcements : Persisted(a) /\ row[a].parent # NoOne}

\* A set of children each of whose parents is in the set is a ring: nothing in it
\* is a parent, so no search shows any of it.
Ring(S) == S # {} /\ S \subseteq Child /\ \A a \in S : row[a].parent \in S

\* The workers alone never close a ring of parents, even when an announcement is
\* processed again after its children and parents changed: a parent fills at
\* least the fields of what is merged into it, and of two listings as complete
\* the one read first is the parent, which keeps the direction of the link. (With
\* an admin's action, a decision that crossed another's write, or two redelivered
\* announcements it can; so can a worker that outlived its connection, for what it
\* read earlier it takes to be older than the parent its announcement was given.)
NoRingAlone ==
    ~crossed /\ ~outlived /\ actions = 0 /\ Cardinality(interrupted) <= 1 =>
        \A S \in SUBSET Announcements : ~Ring(S)

\* What a merged announcement gathered is never lost: the fields its row fills are
\* filled in its parent too, whichever of the two became the parent and however
\* long the chain. (A redelivered announcement is linked with what its message
\* says, so a failure, like a stale decision, can leave a gathered field behind; so
\* can an admin who merges into a candidate that is no parent any more, as what it
\* gathers then goes no further up.)
ParentCoversChild ==
    ~crossed /\ interrupted = {} =>
        \A a \in Child : row[a].fields \subseteq row[row[a].parent].fields

\* An acknowledged announcement is visible, merged, or in front of an admin: one
\* left in manual review has a review case, unless a failure between saving the
\* row and opening the case made it evaluate afresh.
HandledIsReachable ==
    \A a \in handled \ interrupted :
        /\ Persisted(a)
        /\ row[a].status = "manual_review" =>
                \E r \in ReviewReason : review[a][r] # NoItem

\* What the AI stage flagged reaches the review queue whatever fails: the retry
\* opens the case the first attempt did not.
FlaggedIsReviewed ==
    \A a \in handled : Flagged(a) => review[a]["low_confidence"] # NoItem

\* Subscribers hear of every visible parent the stage finished with, unless it
\* became visible through a review.
VisibleIsPublished ==
    \A a \in handled :
        IsParent(a) /\ row[a].status = "active" /\ a \notin published =>
            \E r \in ReviewReason : review[a][r] # NoItem

=============================================================================
