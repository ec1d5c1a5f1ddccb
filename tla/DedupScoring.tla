---------------------------- MODULE DedupScoring ----------------------------
(***************************************************************************)
(* The weighted duplicate decision of the post-AI stage                    *)
(* (services/post_ai_dedup.py, WeightedDeduplicationEngine) and the SQL    *)
(* query that hands it its candidates (repositories/post_ai_dedup.py).     *)
(*                                                                         *)
(* A candidate is described by how each of its fields compares with the    *)
(* incoming announcement's: as finely as the matchers and the query tell   *)
(* the comparison apart, and no finer.                                     *)
(***************************************************************************)
EXTENDS Naturals, Sequences, FiniteSets

CONSTANTS
    Paired,     \* comparisons tried as two candidates of one announcement; every
                \* comparison is tried as an only candidate
    Limits      \* values of dedup_candidate_limit

ExactThreshold == 100
HighConfidenceThreshold == 80
PossibleThreshold == 60

\* "near" is a perceptual hash at distance 1..8, "edge" an area exactly at the
\* tolerance, "rim" a price within 5% of the larger but not of the incoming one,
\* "period" one normalised from another period, "case" a district that is equal
\* but for letter case or blanks.
Comparison ==
    [sibling: BOOLEAN, url: BOOLEAN, origin: BOOLEAN,
     image: {"equal", "near", "far"}, district: {"same", "case", "other"},
     rooms: BOOLEAN, area: {"within", "edge", "beyond"},
     price: {"within", "rim", "period", "incomparable", "off"},
     floor: BOOLEAN, address: BOOLEAN, description: BOOLEAN, phone: BOOLEAN]

\* The pairs tried are of such comparisons.
Constants == Paired \subseteq Comparison /\ Limits \subseteq Nat \ {0}

VARIABLES
    repository,     \* "sql", or "memory" where the environment is "test"
    limit,          \* dedup_candidate_limit
    stored,         \* the active parents of the last 90 days, newest first
    candidates,     \* the query's answer, as positions in that order
    position,       \* where the last candidate scored stands, 0 for none
    best,           \* where the best one so far stands, 0 for none
    decision        \* "unread", then "none" until decided

vars == <<repository, limit, stored, candidates, position, best, decision>>

-----------------------------------------------------------------------------
(* Matchers: each signal and when it matches. *)

\* _are_fanout_sibling_announcements: two candidates split from one message share
\* its url, origin and images, which then prove nothing.
Siblings(c) == c.sibling

SourceUrlMatches(c) == c.url /\ ~Siblings(c)

ForwardOriginMatches(c) == c.origin /\ ~Siblings(c)

ImageMatches(c) == c.image # "far" /\ ~Siblings(c)

DistrictMatches(c) == c.district # "other"

RoomsMatch(c) == c.rooms

AreaMatches(c) == c.area = "within"

PriceMatches(c) == c.price \in {"within", "rim", "period"}

FloorMatches(c) == c.floor

AddressMatches(c) == c.address

DescriptionMatches(c) == c.description

PhoneMatches(c) == c.phone

Signal == {"source_url", "forward_origin", "same_image_phash", "district", "rooms",
           "area", "price", "floor", "similar_address", "similar_description", "phone"}

Matches(c, s) ==
    CASE s = "source_url" -> SourceUrlMatches(c)
      [] s = "forward_origin" -> ForwardOriginMatches(c)
      [] s = "same_image_phash" -> ImageMatches(c)
      [] s = "district" -> DistrictMatches(c)
      [] s = "rooms" -> RoomsMatch(c)
      [] s = "area" -> AreaMatches(c)
      [] s = "price" -> PriceMatches(c)
      [] s = "floor" -> FloorMatches(c)
      [] s = "similar_address" -> AddressMatches(c)
      [] s = "similar_description" -> DescriptionMatches(c)
      [] s = "phone" -> PhoneMatches(c)

Matched(c) == {s \in Signal : Matches(c, s)}

Weight ==
    [s \in Signal |->
        CASE s \in {"source_url", "forward_origin"} -> 100
          [] s = "same_image_phash" -> 70
          [] s \in {"district", "rooms", "area", "price"} -> 10
          [] s = "floor" -> 5
          [] s \in {"similar_address", "phone"} -> 15
          [] s = "similar_description" -> 30]

Points(m, s) == IF s \in m THEN Weight[s] ELSE 0

Total(m) ==
    Points(m, "source_url") + Points(m, "forward_origin") + Points(m, "same_image_phash")
        + Points(m, "district") + Points(m, "rooms") + Points(m, "area")
        + Points(m, "price") + Points(m, "floor") + Points(m, "similar_address")
        + Points(m, "similar_description") + Points(m, "phone")

\* _score_candidate: every matcher in turn, its weight when it matches.
Score(c) == Total(Matched(c))

-----------------------------------------------------------------------------
(* From the matched signals and their score to a decision. *)

StructuredIdentitySignals == {"district", "rooms", "area", "price", "floor"}

HasStructuredIdentity(m) == "phone" \in m /\ StructuredIdentitySignals \subseteq m

Provenance == {"source_url", "forward_origin", "same_image_phash"}

\* Mutant: a shared phone number, taken for an agent's, voids the other anchors.
HasStrongAnchorNoPhone(m) == "phone" \notin m /\ m \cap Provenance # {}

HasStrongAnchor(m) ==
    \/ m \cap Provenance # {}
    \/ HasStructuredIdentity(m)
    \/ {"phone", "similar_address", "similar_description"} \subseteq m

HasManualReviewAnchor(m) ==
    \/ m \cap Provenance # {}
    \/ /\ ~HasStructuredIdentity(m)
       /\ \/ {"similar_address", "similar_description"} \subseteq m
          \/ /\ {"phone", "similar_description"} \subseteq m
             /\ Cardinality(m \cap StructuredIdentitySignals) >= 2

DecisionFromScore(m, score) ==
    CASE m \cap {"source_url", "forward_origin"} # {} -> "exact_duplicate"
      [] m \cap {"source_url", "forward_origin"} = {} /\ HasStructuredIdentity(m)
            -> "high_confidence_duplicate"
      [] OTHER ->
            IF score >= ExactThreshold /\ HasStrongAnchor(m) THEN "exact_duplicate"
            ELSE IF score >= HighConfidenceThreshold /\ HasStrongAnchor(m)
                 THEN "high_confidence_duplicate"
            ELSE IF score >= PossibleThreshold /\ HasManualReviewAnchor(m)
                 THEN "possible_duplicate"
            ELSE "new"

Decide(c) == DecisionFromScore(Matched(c), Score(c))

-----------------------------------------------------------------------------
(* The candidate query: which active parents are scored at all. *)

PriceInQuery(c) == c.price = "within"

\* Mutant: the query looks at the listing's fields and forgets the hashes.
InCandidateQueryFieldsOnly(c) ==
    \/ c.url
    \/ c.origin
    \/ c.district = "same"
    \/ c.rooms

InCandidateQuery(c) ==
    \/ c.url
    \/ c.origin
    \/ c.district = "same"
    \/ c.rooms
    \/ c.area \in {"within", "edge"}
    \/ PriceInQuery(c)
    \/ c.image = "equal"

\* The in-memory repository's filter.
CheapCandidateMatch(c) ==
    \/ c.url /\ ~Siblings(c)
    \/ c.origin /\ ~Siblings(c)
    \/ c.phone
    \/ c.district = "same"
    \/ c.rooms
    \/ c.image # "far" /\ ~Siblings(c)

Matching ==
    {i \in DOMAIN stored : IF repository = "sql" THEN InCandidateQuery(stored[i])
                           ELSE CheapCandidateMatch(stored[i])}

Newer(i) == {j \in Matching : j < i}

\* order by occurred_at desc, created_at desc limit n; in memory, a slice of the
\* sorted list.
Newest == {i \in Matching : Cardinality(Newer(i)) < limit}

-----------------------------------------------------------------------------
(* evaluate: one pass over the candidates, keeping the first best score. *)

Init ==
    /\ repository \in {"sql", "memory"}
    /\ limit \in Limits
    /\ stored \in {<<c>> : c \in Comparison} \cup {<<c, d>> : c, d \in Paired}
    /\ candidates = {}
    /\ position = 0
    /\ best = 0
    /\ decision = "unread"

ListCandidates ==
    /\ decision = "unread"
    /\ candidates' = Newest
    /\ decision' = "none"
    /\ UNCHANGED <<repository, limit, stored, position, best>>

Remaining == {i \in candidates : i > position}

Better(i) == best = 0 \/ Score(stored[i]) > Score(stored[best])

ScoreCandidate ==
    /\ decision = "none"
    /\ \E i \in Remaining :
        /\ \A j \in Remaining : i <= j
        /\ position' = i
        /\ best' = IF Better(i) THEN i ELSE best
    /\ UNCHANGED <<repository, limit, stored, candidates, decision>>

Conclude ==
    /\ decision = "none"
    /\ Remaining = {}
    /\ decision' = IF best = 0 THEN "new" ELSE Decide(stored[best])
    /\ UNCHANGED <<repository, limit, stored, candidates, position, best>>

Next == ListCandidates \/ ScoreCandidate \/ Conclude

Spec == Init /\ [][Next]_vars

-----------------------------------------------------------------------------
(* Properties. *)

\* How far a decision goes: nothing, an admin's question, a merge.
Effect(d) ==
    CASE d \in {"exact_duplicate", "high_confidence_duplicate"} -> 2
      [] d = "possible_duplicate" -> 1
      [] OTHER -> 0

Decided == decision \notin {"unread", "none"}

\* More matching evidence never makes the engine do less: for each signal that
\* did not match, the decision with that signal added goes at least as far.
EvidenceNeverHurts ==
    Decided /\ best # 0 =>
        LET m == Matched(stored[best])
        IN  \A s \in Signal \ m :
                Effect(DecisionFromScore(m \cup {s}, Total(m \cup {s}))) >= Effect(decision)

\* The candidate query hides from the engine no announcement that it would merge
\* or ask about, but for these gaps: an image hash that is near and not equal, a
\* district equal up to case, a price the query compares otherwise, evidence made
\* of the texts, the phone number and the floor alone, and an announcement behind
\* as many newer ones as the query returns, however little those have in common
\* with the incoming one.
QueryGapsKnown ==
    repository = "sql" /\ decision # "unread" =>
        \A i \in DOMAIN stored \ candidates :
            Effect(Decide(stored[i])) > 0 =>
                \/ stored[i].image = "near"
                \/ stored[i].district = "case"
                \/ stored[i].price \in {"rim", "period"}
                \/ Matched(stored[i]) \subseteq
                        {"similar_address", "similar_description", "phone", "floor"}
                \/ Cardinality(Newer(i)) >= limit

=============================================================================
