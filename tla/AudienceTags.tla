---------------------------- MODULE AudienceTags ----------------------------
(***************************************************************************)
(* The audience tag vocabulary (services/audience_tags.py with its         *)
(* SQLAlchemy repository, api/admin.py).  The AI stage resolves the tags a *)
(* listing names and hands the approved ones on; the AI worker of the      *)
(* split deployment has no tag service and hands the seed tags on; saved   *)
(* filters take the tag the user gives.  An admin approves, rejects or     *)
(* merges a tag, and a merge rewrites the listings and the saved filters   *)
(* that refer to it.  Every decision is several database calls.            *)
(***************************************************************************)
EXTENDS Naturals, FiniteSets

CONSTANTS
  Tags, Seeded,   \* tag keys, and SEED_AUDIENCE_TAGS: the migration approves them
  Near,           \* Near[t]: the keys SequenceMatcher finds at least fuzzy_threshold like t
  Listings, Filters, Decisions, Keys, None

\* None is no tag, and no value the code writes in a field; listings and filters are rows of two
\* tables.
Constants ==
  /\ Listings \cap Filters = {}
  /\ None \notin Tags \cup {"pending", "approved", "rejected", "approve", "reject", "merge",
                          "read", "remap", "write"}

VARIABLES
  tag,       \* tag -> None, "pending", "approved", "rejected"
  usage,     \* tags whose usage_count was incremented
  resolving, \* the listings between the resolution of their tag and their save
  refs,      \* the tags the saved listings and filters refer to
  unchecked, \* listings and filters given a tag that was not approved, by a writer that does
             \* not look at the status, and not put right since
  audit,     \* idempotency keys in admin_audit_events
  call,      \* admin calls in flight
  crossed,   \* a writer or a decision overlapped a decision, or one stopped half way
  forced     \* tags that were approved when an admin rejected them outright

vars == <<tag, usage, resolving, refs, unchecked, audit, call, crossed, forced>>

Referring == Listings \cup Filters

NoCall == [at |-> None, action |-> None, tag |-> None, target |-> None, expected |-> None]

Init ==
  /\ tag = [t \in Tags |-> IF t \in Seeded THEN "approved" ELSE None]
  /\ usage = {}
  /\ resolving = [l \in Listings |-> None]
  /\ refs = [x \in Referring |-> None]
  /\ unchecked = {}
  /\ audit = {}
  /\ call = [d \in Decisions |-> NoCall]
  /\ crossed = FALSE
  /\ forced = {}

InFlight == {d \in Decisions : call[d] # NoCall}

\* list_approved
Approved == {t \in Tags : tag[t] = "approved"}

\* upsert_pending: a key that has a row keeps it.
UpsertedPending(t) == [tag EXCEPT ![t] = IF @ = None THEN "pending" ELSE @]

\* increment_usage
UsageIncremented(t) == usage \cup {t}

\* The approved tag closest to t, when one is close enough.
FuzzyMatch(t) == Near[t] \cap Approved

\* resolve_tag: an exact key that is not rejected, else the closest approved tag, else a new
\* pending one.  A rejected key that nothing is close to stays rejected: upsert_pending returns
\* the row there is.
Resolved(t) ==
  IF tag[t] \in {"approved", "pending"} \/ FuzzyMatch(t) = {} THEN {t} ELSE FuzzyMatch(t)

\* resolve_for_canonical keeps the approved tags of the result.
HandedOn(t) == tag[t] = "approved"

\* The AI stage resolves the tag of a listing.
Resolve(l, t) ==
  /\ resolving[l] = None /\ refs[l] = None
  /\ \E u \in Resolved(t) :
       /\ tag' = UpsertedPending(u)
       /\ usage' = IF tag[u] \in {"approved", "pending"} THEN UsageIncremented(u) ELSE usage
       /\ resolving' = IF HandedOn(u) THEN [resolving EXCEPT ![l] = u] ELSE resolving
       /\ crossed' = (crossed \/ (HandedOn(u) /\ InFlight # {}))
  /\ UNCHANGED <<refs, unchecked, audit, call, forced>>

\* The worker without a tag service (services/worker_ai) hands on the seed tags, whatever an
\* admin made of them since.
ResolveSeed(l, t) ==
  /\ resolving[l] = None /\ refs[l] = None
  /\ t \in Seeded
  /\ resolving' = [resolving EXCEPT ![l] = t]
  /\ unchecked' = IF HandedOn(t) THEN unchecked ELSE unchecked \cup {l}
  /\ crossed' = (crossed \/ InFlight # {})
  /\ UNCHANGED <<tag, usage, refs, audit, call, forced>>

\* The listing is saved with the tags it was given, after its way through the queues.
Save(l) ==
  /\ resolving[l] # None
  /\ refs' = [refs EXCEPT ![l] = resolving[l]]
  /\ resolving' = [resolving EXCEPT ![l] = None]
  /\ UNCHANGED <<tag, usage, unchecked, audit, call, crossed, forced>>

\* POST and PATCH /webapp/filters, and the bot's filters: a filter takes any well-formed key, or
\* none, in one statement, without a look at its status.
SaveFilter(f, t) ==
  /\ refs' = [refs EXCEPT ![f] = t]
  /\ unchecked' = IF t = None \/ tag[t] = "approved" THEN unchecked \ {f} ELSE unchecked \cup {f}
  /\ crossed' = (crossed \/ InFlight # {})
  /\ UNCHANGED <<tag, usage, resolving, audit, call, forced>>

\* audit_once: the unique idempotency key.
IsNew(key) == key \notin audit

\* A used key ends the call.
Open(d, action, t, target, key, expected) ==
  /\ call[d] = NoCall
  /\ audit' = audit \cup {key}
  /\ call' = IF ~IsNew(key) THEN call
             ELSE [call EXCEPT ![d] = [at |-> "read", action |-> action, tag |-> t,
                                       target |-> target, expected |-> expected]]
  /\ crossed' = (crossed \/ (IsNew(key)
                             /\ (InFlight # {} \/ \E l \in Listings : resolving[l] # None)))
  /\ UNCHANGED <<tag, usage, resolving, refs, unchecked, forced>>

\* POST /admin/audience-tags/{tag_key}/approve, /reject and /merge; a tag is not merged into
\* itself.
Approve(d, t, key, expected) == Open(d, "approve", t, None, key, expected)
Reject(d, t, key, expected) == Open(d, "reject", t, None, key, expected)
Merge(d, t, target, key, expected) == t # target /\ Open(d, "merge", t, target, key, expected)

Refused(c) ==
  \/ tag[c.tag] = None
  \/ c.action = "merge" /\ tag[c.target] # "approved"
  \/ c.expected # None /\ tag[c.tag] # c.expected

Read(d) ==
  LET c == call[d]
  IN  /\ c.at = "read"
      /\ call' = IF Refused(c) THEN [call EXCEPT ![d] = NoCall]
                 ELSE [call EXCEPT ![d].at = IF c.action = "merge" THEN "remap" ELSE "write"]
      /\ UNCHANGED <<tag, usage, resolving, refs, unchecked, audit, crossed, forced>>

\* Mutant: the references are left where they point.
RemapNothing(c) == refs

\* remap_references: one transaction over listings and filters.
Remap(c) == [x \in Referring |-> IF refs[x] = c.tag THEN c.target ELSE refs[x]]

\* What refers to a tag that is approved now, or is merged into one, is put right.
PutRight(t) == unchecked \ {x \in Referring : refs[x] = t}

RemapReferences(d) ==
  /\ call[d].at = "remap"
  /\ refs' = Remap(call[d])
  /\ unchecked' = PutRight(call[d].tag)
  /\ usage' = UsageIncremented(call[d].target)
  /\ call' = [call EXCEPT ![d].at = "write"]
  /\ UNCHANGED <<tag, resolving, audit, crossed, forced>>

\* set_status of the repository
Written(t, status) == [tag EXCEPT ![t] = status]

SetStatus(d) ==
  LET c == call[d]
  IN  /\ c.at = "write"
      /\ tag' = Written(c.tag, IF c.action = "approve" THEN "approved" ELSE "rejected")
      /\ forced' = IF c.action = "reject" /\ tag[c.tag] = "approved"
                   THEN forced \cup {c.tag} ELSE forced
      /\ unchecked' = IF c.action = "approve" THEN PutRight(c.tag) ELSE unchecked
      /\ call' = [call EXCEPT ![d] = NoCall]
      /\ UNCHANGED <<usage, resolving, refs, audit, crossed>>

Abort(d) ==
  /\ call[d] # NoCall
  /\ call' = [call EXCEPT ![d] = NoCall]
  /\ crossed' = TRUE
  /\ UNCHANGED <<tag, usage, resolving, refs, unchecked, audit, forced>>

Next ==
  \/ \E l \in Listings : Save(l) \/ \E t \in Tags : Resolve(l, t) \/ ResolveSeed(l, t)
  \/ \E f \in Filters, t \in Tags \cup {None} : SaveFilter(f, t)
  \/ \E d \in Decisions :
       \/ \E t \in Tags, key \in Keys, expected \in {"pending", "approved", None} :
            \/ Approve(d, t, key, expected) \/ Reject(d, t, key, expected)
            \/ \E target \in Tags : Merge(d, t, target, key, expected)
       \/ Read(d) \/ RemapReferences(d) \/ SetStatus(d) \/ Abort(d)

Spec == Init /\ [][Next]_vars

----------------------------------------------------------------------------

\* A saved listing or filter refers only to approved tags, through any sequence of approvals,
\* merges and rejections, with three exceptions: a tag an admin rejected outright while it was
\* approved; a listing or filter whose writer does not look at the status and gave it a tag that
\* was not approved, until that tag is approved or merged; and anything after a writer or a
\* decision overlapped a decision: the resolved tag of a listing on its way through the queues is
\* not rewritten by the merge it misses.
RefsApproved ==
  crossed \/ \A x \in Referring :
               refs[x] # None => \/ tag[refs[x]] = "approved" \/ refs[x] \in forced
                                \/ x \in unchecked
=============================================================================
