-------------------------- MODULE Decisions_proofs --------------------------
(***************************************************************************)
(* Proofs about what decides the fate of a listing: the model fallback     *)
(* with the worker's gate, and the post-AI workers and admins.             *)
(***************************************************************************)
EXTENDS Decisions, Sequences, FiniteSetTheorems, TLAPS

-----------------------------------------------------------------------------
(* Extraction                                                              *)

Ranks == [1..5 -> Int]

\* The quality ranks are totally ordered, as Python orders its tuples.
LEMMA RanksCompare ==
  ASSUME NEW a \in Ranks, NEW b \in Ranks PROVE Below(a, b) \/ Below(b, a) \/ a = b
<1> SUFFICES ASSUME ~Below(a, b), ~Below(b, a) PROVE a = b
  OBVIOUS
<1>0. \A i \in 1..5 : a[i] \in Int /\ b[i] \in Int
  BY DEF Ranks
<1>1. ASSUME NEW i \in 1..5, \A j \in 1..(i - 1) : a[j] = b[j] PROVE a[i] = b[i]
  BY <1>0, <1>1 DEF Below
<1>2. a[1] = b[1]
  BY <1>1
<1>3. a[2] = b[2]
  <2>1. \A j \in 1..(2 - 1) : a[j] = b[j]
    BY <1>2
  <2> QED
    BY <1>1, <2>1
<1>4. a[3] = b[3]
  <2>1. \A j \in 1..(3 - 1) : a[j] = b[j]
    BY <1>2, <1>3
  <2> QED
    BY <1>1, <2>1
<1>5. a[4] = b[4]
  <2>1. \A j \in 1..(4 - 1) : a[j] = b[j]
    BY <1>2, <1>3, <1>4
  <2> QED
    BY <1>1, <2>1
<1>6. a[5] = b[5]
  <2>1. \A j \in 1..(5 - 1) : a[j] = b[j]
    BY <1>2, <1>3, <1>4, <1>5
  <2> QED
    BY <1>1, <2>1
<1>7. \A i \in 1..5 : a[i] = b[i]
  BY <1>2, <1>3, <1>4, <1>5, <1>6
<1> QED
  BY <1>7 DEF Ranks

\* A quality rank has its five places.
LEMMA RankIsRank ==
  ASSUME request \in Requests, NEW r \in Answers PROVE QualityRank(r) \in Ranks
<1>1. request.required \in Nat /\ r.missing \in Nat /\ r.core \in Int /\ r.conf \in Int
  BY ExtractionAssumption DEF Responses
<1>2. RentalRank(r) \in Int
  BY DEF RentalRank
<1> QED
  BY <1>1, <1>2 DEF QualityRank, Ranks

\* While models are called, the candidates are the usable ones of the responses received.
ExtractionInv ==
  /\ request \in Requests /\ stage \in Nat \ {0}
  /\ outcome \in {"calling", "response", "all_models_failed"}
  /\ answered \subseteq Received
  /\ outcome = "calling" => candidates = {d \in answered : Usable(d.response)}
  /\ outcome = "response" => selected \in Answers
  /\ BestResponseReturned

\* The fallback loop keeps its invariant.
LEMMA ExtractionInvariant == Spec => []ExtractionInv
<1>1. Init => ExtractionInv
  BY DEF Init, ExtractionInv, BestResponseReturned
<1>2. ExtractionInv /\ [Next]_vars => ExtractionInv'
  <2> SUFFICES ASSUME ExtractionInv, [Next]_vars PROVE ExtractionInv'
    OBVIOUS
  <2>1. ASSUME NEW r \in Answers, Accept(r) PROVE ExtractionInv'
    <3>1. [response |-> r, stage |-> stage] \in Received
      BY <2>1, ExtractionAssumption DEF Accept, ExtractionInv, Received
    <3>2. stage' <= NumModels /\ outcome' = "response"
      BY <2>1 DEF Accept
    <3>3. BestResponseReturned'
      BY <2>1, <3>2, ExtractionAssumption DEF Accept, ExtractionInv, BestResponseReturned
    <3> QED
      BY <2>1, <3>1, <3>3 DEF Accept, ExtractionInv
  <2>2. ASSUME NEW r \in Answers, TryNext(r) PROVE ExtractionInv'
    <3>1. PICK d : d = [response |-> r, stage |-> stage]
      OBVIOUS
    <3>2. d \in Received /\ d.response = r
      BY <2>2, <3>1, ExtractionAssumption DEF TryNext, ExtractionInv, Received
    <3>3. /\ outcome = "calling" /\ outcome' = "calling" /\ request' = request
          /\ stage' \in Nat \ {0} /\ answered' = answered \cup {d}
          /\ candidates' = IF Returnable(r) THEN candidates \cup {d} ELSE candidates
      BY <2>2, <3>1 DEF TryNext, ExtractionInv
    <3>4. Returnable(r) <=> Usable(r)
      BY DEF Returnable, Usable
    <3>5. candidates' = {e \in answered' : Usable(e.response)}
      BY <3>2, <3>3, <3>4 DEF ExtractionInv
    <3>6. candidates' = {e \in answered' : Usable(e.response)'}
      BY <3>3, <3>5 DEF Usable, ListingPolicy
    <3> QED
      BY <3>2, <3>3, <3>6 DEF ExtractionInv, BestResponseReturned
  <2>3. CASE ModelFails \/ TransportRefuses
    <3>1. /\ outcome = "calling" /\ stage' \in Nat \ {0}
          /\ UNCHANGED <<request, candidates, outcome, selected, answered>>
      BY <2>3, ExtractionAssumption DEF ModelFails, TransportRefuses, ExtractionInv
    <3> QED
      BY <3>1 DEF ExtractionInv, BestResponseReturned, Usable, ListingPolicy
  <2>4. CASE ReturnBest
    <3>1. PICK c \in candidates : Best(c) /\ selected' = c.response
      BY <2>4 DEF ReturnBest
    <3>2. /\ outcome = "calling" /\ outcome' = "response"
          /\ UNCHANGED <<request, stage, candidates, answered>>
      BY <2>4 DEF ReturnBest
    <3>3. c \in answered /\ c.response \in Answers
      BY <3>1, <3>2 DEF ExtractionInv, Received
    <3>4. ASSUME NEW d \in answered
          PROVE  \/ ~Usable(d.response)
                 \/ Below(QualityRank(d.response), QualityRank(c.response))
                 \/ QualityRank(d.response) = QualityRank(c.response) /\ c.stage <= d.stage
      <4>1. d.response \in Answers
        BY DEF ExtractionInv, Received
      <4>2. QualityRank(c.response) \in Ranks /\ QualityRank(d.response) \in Ranks
        BY <3>3, <4>1, RankIsRank DEF ExtractionInv
      <4>3. Usable(d.response) => d \in candidates
        BY <3>2 DEF ExtractionInv
      <4> QED
        BY <3>1, <4>2, <4>3, RanksCompare DEF Best
    <3>5. PICK s : s = c.response
      OBVIOUS
    <3>6. BestResponseReturned'
      <4>1. ASSUME NEW d \in answered
            PROVE  /\ Usable(d.response)' <=> Usable(d.response)
                   /\ QualityRank(d.response)' = QualityRank(d.response)
        BY <3>2 DEF Usable, ListingPolicy, QualityRank, RentalRank
      <4>2. QualityRank(s)' = QualityRank(s)
        BY <3>2 DEF QualityRank, RentalRank
      <4> QED
        BY <3>1, <3>2, <3>3, <3>4, <3>5, <4>1, <4>2 DEF BestResponseReturned
    <3> QED
      BY <3>1, <3>2, <3>3, <3>6 DEF ExtractionInv
  <2>5. CASE AllModelsFailed
    <3>1. /\ outcome = "calling" /\ candidates = {} /\ outcome' = "all_models_failed"
          /\ UNCHANGED <<request, stage, candidates, selected, answered>>
      BY <2>5 DEF AllModelsFailed
    <3>2. \A d \in answered : ~Usable(d.response)
      BY <3>1 DEF ExtractionInv
    <3> QED
      BY <3>1, <3>2 DEF ExtractionInv, BestResponseReturned, Usable, ListingPolicy
  <2>6. CASE UNCHANGED vars
    BY <2>6 DEF vars, ExtractionInv, BestResponseReturned, Usable, ListingPolicy, QualityRank,
                RentalRank
  <2> QED
    BY <2>1, <2>2, <2>3, <2>4, <2>5, <2>6 DEF Next
<1> QED
  BY <1>1, <1>2, PTL DEF Spec

\* Whatever fails and in whatever order, the fallback loop returns the best usable response that
\* any model gave, the earliest model's of equally good ones, and gives up only without one
\* (ai_client.py, complete_json).
THEOREM BestReturned == Spec => []BestResponseReturned
BY ExtractionInvariant, PTL DEF ExtractionInv

\* What is persisted or put before an admin is a rental by both classification fields, with
\* rental confidence above the threshold, whichever model's response was selected
\* (ai_worker.py, the rental gate).
THEOREM RentalsOnly == Spec => []OnlyRentalsLeave
<1>1. ExtractionInv => OnlyRentalsLeave
  <2> SUFFICES ASSUME ExtractionInv, outcome = "response",
                      Status(selected) \in {"succeeded", "manual_review"}
               PROVE  /\ selected.rental # "no" /\ selected.type # "sale"
                      /\ selected.rentalConf > RentalMinConfidence
    BY DEF OnlyRentalsLeave
  <2>1. selected.rental \in {"yes", "no", "null"} /\ selected.type \in {"rent", "sale", "null"}
    BY ExtractionAssumption DEF ExtractionInv, Responses
  <2>2. RentalGate(selected)
    BY DEF Status
  <2> QED
    BY <2>1, <2>2 DEF RentalGate, IsRental, Conflict
<1> QED
  BY <1>1, ExtractionInvariant, PTL

-----------------------------------------------------------------------------
(* Duplicate scoring                                                       *)

\* One more signal never lowers the score.
LEMMA TotalGrows ==
  ASSUME NEW m, NEW n, m \subseteq n
  PROVE  D!Total(m) \in Nat /\ D!Total(n) \in Nat /\ D!Total(n) >= D!Total(m)
<1>1. \A s \in D!Signal : D!Weight[s] \in Nat
  BY DEF D!Weight, D!Signal
<1>2. ASSUME NEW s \in D!Signal
      PROVE  /\ D!Points(m, s) \in Nat /\ D!Points(n, s) \in Nat
             /\ D!Points(n, s) >= D!Points(m, s)
  BY <1>1 DEF D!Points
<1>3. {"source_url", "forward_origin", "same_image_phash", "district", "rooms", "area", "price",
       "floor", "similar_address", "similar_description", "phone"} \subseteq D!Signal
  BY DEF D!Signal
<1> QED
  BY <1>2, <1>3 DEF D!Total

\* The scoring module's cardinality is the library's.
LEMMA SameCardinality == ASSUME NEW S PROVE D!Cardinality(S) = Cardinality(S)
BY DEF D!Cardinality, Cardinality

\* Two structured signals stay two with more evidence.
LEMMA StructuredCount ==
  ASSUME NEW m, NEW n, m \subseteq n, Cardinality(m \cap D!StructuredIdentitySignals) >= 2
  PROVE  Cardinality(n \cap D!StructuredIdentitySignals) >= 2
<1>1. IsFiniteSet(D!StructuredIdentitySignals)
  <2>1. /\ IsFiniteSet({"district"}) /\ IsFiniteSet({"rooms"}) /\ IsFiniteSet({"area"})
        /\ IsFiniteSet({"price"}) /\ IsFiniteSet({"floor"})
    BY FS_Singleton
  <2>2. IsFiniteSet({"district"} \cup {"rooms"}) /\ IsFiniteSet({"area"} \cup {"price"})
    BY <2>1, FS_Union
  <2>3. IsFiniteSet(({"district"} \cup {"rooms"}) \cup ({"area"} \cup {"price"}))
    BY <2>2, FS_Union
  <2>4. IsFiniteSet((({"district"} \cup {"rooms"}) \cup ({"area"} \cup {"price"})) \cup {"floor"})
    BY <2>1, <2>3, FS_Union
  <2>5. D!StructuredIdentitySignals =
          (({"district"} \cup {"rooms"}) \cup ({"area"} \cup {"price"})) \cup {"floor"}
    BY DEF D!StructuredIdentitySignals
  <2> QED
    BY <2>4, <2>5
<1>2. PICK T : T = n \cap D!StructuredIdentitySignals
  OBVIOUS
<1>3. PICK S : S = m \cap D!StructuredIdentitySignals
  OBVIOUS
<1>4. IsFiniteSet(T) /\ S \subseteq T
  BY <1>1, <1>2, <1>3, FS_Subset
<1>5. IsFiniteSet(S) /\ Cardinality(S) <= Cardinality(T)
  BY <1>4, FS_Subset
<1>6. Cardinality(S) \in Nat /\ Cardinality(T) \in Nat
  BY <1>4, <1>5, FS_CardinalityType
<1> QED
  BY <1>2, <1>3, <1>5, <1>6

\* A decision goes at least as far with more signals.
LEMMA DecisionGrows ==
  ASSUME NEW m, NEW n, m \subseteq n
  PROVE  D!Effect(D!DecisionFromScore(n, D!Total(n))) >=
           D!Effect(D!DecisionFromScore(m, D!Total(m)))
<1>1. PICK x \in Nat, y \in Nat : x = D!Total(m) /\ y = D!Total(n) /\ y >= x
  BY TotalGrows
<1>2. D!HasStructuredIdentity(m) => D!HasStructuredIdentity(n)
  BY DEF D!HasStructuredIdentity
<1>3. D!HasStrongAnchor(m) => D!HasStrongAnchor(n)
  BY <1>2 DEF D!HasStrongAnchor
<1>4. D!HasManualReviewAnchor(m) => D!HasManualReviewAnchor(n) \/ D!HasStructuredIdentity(n)
  BY StructuredCount, SameCardinality DEF D!HasManualReviewAnchor
<1>5. m \cap {"source_url", "forward_origin"} # {} => n \cap {"source_url", "forward_origin"} # {}
  OBVIOUS
<1>6. D!DecisionFromScore(m, x) \in {"exact_duplicate", "high_confidence_duplicate"} =>
        D!DecisionFromScore(n, y) \in {"exact_duplicate", "high_confidence_duplicate"}
  BY <1>1, <1>2, <1>3, <1>5
     DEF D!DecisionFromScore, D!ExactThreshold, D!HighConfidenceThreshold, D!PossibleThreshold
<1>7. D!DecisionFromScore(m, x) = "possible_duplicate" =>
        D!DecisionFromScore(n, y) \in
          {"exact_duplicate", "high_confidence_duplicate", "possible_duplicate"}
  BY <1>1, <1>4
     DEF D!DecisionFromScore, D!ExactThreshold, D!HighConfidenceThreshold, D!PossibleThreshold
<1> QED
  BY <1>1, <1>6, <1>7 DEF D!Effect

\* What the engine concludes is the decision of its best candidate.
Concluded == D!Decided => decision = IF best = 0 THEN "new" ELSE D!Decide(stored[best])

\* Whatever the candidates and their order, and whichever signals matched, no further matching
\* signal makes the engine merge less or ask less (post_ai_dedup.py, _decision_from_score).
THEOREM EvidenceHelps == D!Spec => []EvidenceNeverHurts
<1>1. D!Init => Concluded
  BY DEF D!Init, Concluded, D!Decided
<1>2. Concluded /\ [D!Next]_(D!vars) => Concluded'
  <2> SUFFICES ASSUME Concluded, [D!Next]_(D!vars) PROVE Concluded'
    OBVIOUS
  <2>1. CASE D!ListCandidates \/ D!ScoreCandidate
    BY <2>1 DEF D!ListCandidates, D!ScoreCandidate, Concluded, D!Decided
  <2>2. CASE D!Conclude
    <3>1. PICK c : c = stored[best]
      OBVIOUS
    <3>2. stored' = stored /\ best' = best /\ decision' = IF best = 0 THEN "new" ELSE D!Decide(c)
      BY <2>2, <3>1 DEF D!Conclude
    <3> QED
      BY <3>1, <3>2 DEF Concluded
  <2>3. CASE UNCHANGED D!vars
    BY <2>3 DEF D!vars, Concluded, D!Decided
  <2> QED
    BY <2>1, <2>2, <2>3 DEF D!Next
<1>3. Concluded => D!EvidenceNeverHurts
  <2> SUFFICES ASSUME Concluded, D!Decided, best # 0,
                      NEW s \in D!Signal \ D!Matched(stored[best])
               PROVE  D!Effect(D!DecisionFromScore(D!Matched(stored[best]) \cup {s},
                                                   D!Total(D!Matched(stored[best]) \cup {s})))
                        >= D!Effect(decision)
    BY DEF D!EvidenceNeverHurts
  <2>1. PICK m : m = D!Matched(stored[best])
    OBVIOUS
  <2>2. decision = D!DecisionFromScore(m, D!Total(m))
    BY <2>1 DEF Concluded, D!Decide, D!Score
  <2>3. PICK n : n = m \cup {s}
    OBVIOUS
  <2>4. D!Effect(D!DecisionFromScore(n, D!Total(n))) >=
          D!Effect(D!DecisionFromScore(m, D!Total(m)))
    BY <2>3, DecisionGrows
  <2> QED
    BY <2>1, <2>2, <2>3, <2>4
<1> QED
  BY <1>1, <1>2, <1>3, PTL DEF D!Spec, EvidenceNeverHurts

\* What was read is the newest of what matches.
Read ==
  /\ stored \in Seq(D!Comparison) /\ limit \in Nat
  /\ decision # "unread" => found = D!Newest

\* The gaps between the SQL candidate query and the matchers are those the property names:
\* everything else that the engine would merge or ask about is read, of any number of stored
\* announcements and under any limit (list_candidates against the matchers).
THEOREM GapsKnown ==
  ASSUME D!Constants PROVE D!Spec => []QueryGapsKnown
<1>1. D!Init => Read
  <2>1. ASSUME NEW c \in D!Comparison PROVE <<c>> \in Seq(D!Comparison)
    OBVIOUS
  <2>2. ASSUME NEW c \in Paired, NEW d \in Paired PROVE <<c, d>> \in Seq(D!Comparison)
    BY DEF D!Constants
  <2>3. D!Init => \/ \E c \in D!Comparison : stored = <<c>>
                  \/ \E c, d \in Paired : stored = <<c, d>>
    BY DEF D!Init
  <2>4. D!Init => limit \in Nat /\ decision = "unread"
    BY DEF D!Init, D!Constants
  <2> QED
    BY <2>1, <2>2, <2>3, <2>4 DEF Read
<1>2. Read /\ [D!Next]_(D!vars) => Read'
  <2> SUFFICES ASSUME Read, [D!Next]_(D!vars) PROVE Read'
    OBVIOUS
  <2>1. repository' = repository /\ limit' = limit /\ stored' = stored
    BY DEF D!Next, D!ListCandidates, D!ScoreCandidate, D!Conclude, D!vars
  <2>2. D!Newest' = D!Newest
    BY <2>1 DEF D!Newest, D!Newer, D!Matching
  <2>3. decision' # "unread" => found' = D!Newest
    BY DEF D!Next, D!ListCandidates, D!ScoreCandidate, D!Conclude, D!vars, Read
  <2> QED
    BY <2>1, <2>2, <2>3 DEF Read
<1>3. ASSUME NEW c \in D!Comparison, ~D!InCandidateQuery(c), c.image # "near",
             c.district # "case", c.price \notin {"rim", "period"}
      PROVE  D!Matched(c) \subseteq {"similar_address", "similar_description", "phone", "floor"}
  <2>1. /\ ~c.url /\ ~c.origin /\ ~c.rooms /\ c.image = "far" /\ c.district = "other"
        /\ c.area = "beyond" /\ c.price \in {"incomparable", "off"}
    BY <1>3 DEF D!Comparison, D!InCandidateQuery, D!PriceInQuery
  <2>2. \A s \in {"source_url", "forward_origin", "same_image_phash", "district", "rooms", "area",
                  "price"} : ~D!Matches(c, s)
    BY <2>1 DEF D!Matches, D!SourceUrlMatches, D!ForwardOriginMatches, D!ImageMatches,
                D!DistrictMatches, D!RoomsMatch, D!AreaMatches, D!PriceMatches
  <2> QED
    BY <2>2 DEF D!Matched, D!Signal
<1>4. Read => D!QueryGapsKnown
  <2> SUFFICES ASSUME Read, repository = "sql", decision # "unread",
                      NEW i \in DOMAIN stored \ found,
                      ~(D!Cardinality(D!Newer(i)) >= limit)
               PROVE  \/ stored[i].image = "near"
                      \/ stored[i].district = "case"
                      \/ stored[i].price \in {"rim", "period"}
                      \/ D!Matched(stored[i]) \subseteq
                            {"similar_address", "similar_description", "phone", "floor"}
    BY DEF D!QueryGapsKnown
  <2>1. PICK N : N = D!Newer(i)
    OBVIOUS
  <2>2. Cardinality(N) \in Nat
    <3>1. IsFiniteSet(1..Len(stored)) /\ Len(stored) \in Nat
      BY FS_Interval DEF Read
    <3>2. N \subseteq 1..Len(stored)
      BY <2>1 DEF D!Newer, D!Matching, Read
    <3> QED
      BY <3>1, <3>2, FS_Subset, FS_CardinalityType
  <2>3. D!Cardinality(N) < limit
    BY <2>1, <2>2, SameCardinality DEF Read
  <2>4. i \notin D!Matching
    BY <2>1, <2>3 DEF Read, D!Newest
  <2>5. stored[i] \in D!Comparison /\ ~D!InCandidateQuery(stored[i])
    BY <2>4 DEF Read, D!Matching
  <2> QED
    BY <2>5, <1>3
<1> QED
  BY <1>1, <1>2, <1>4, PTL DEF D!Spec, QueryGapsKnown

-----------------------------------------------------------------------------
(* Post-AI stage.  The predicates below take the tables they speak of as   *)
(* parameters, to be used of a state and of its successor.                 *)

Rows == [Announcements -> P!Row \cup {P!Absent}]
Reviews == [Announcements -> [P!ReviewReason -> P!Item \cup {P!NoItem}]]

Holding == [at : {"flagged", "evaluate", "new", "publish", "decided"}, of : Announcements]
Weighing == [at : {"merge", "review", "new", "publish", "decided"}, of : Announcements,
             candidate : Announcements]
Linking == [at : {"saveparent", "publishlink", "link"}, of : Announcements, child : Announcements,
            parent : Announcements, fields : SUBSET Fields]
Opening == [at : {"enqueue"}, of : Announcements, reason : P!ReviewReason,
            related : Announcements \cup {P!NoOne}]
Works == {P!Idle} \cup Holding \cup Weighing \cup Linking \cup Opening

Storing == [at : {"store"}, of : Announcements, reason : P!ReviewReason,
            status : {"approved", "merged", "rejected"}]

\* Times are numbers; a worker that outlived its connection is remembered.
Timed == clock \in Nat /\ since \in [Workers -> Nat]
TimePasses == Timed' /\ (outlived => outlived')

PostType ==
  /\ input \in Inputs /\ queue \subseteq Announcements /\ published \subseteq Announcements
  /\ handled \subseteq Announcements /\ interrupted \subseteq Announcements
  /\ row \in Rows /\ review \in Reviews
  /\ worker \in [Workers -> Works] /\ admin \in {P!NoAction} \cup Storing
  /\ crossed \in BOOLEAN /\ Timed

Has(rw, a) == rw[a] # P!Absent
IsTop(rw, a) == Has(rw, a) /\ rw[a].parent = P!NoOne
HasCase(rv, a) == \E r \in P!ReviewReason : rv[a][r] # P!NoItem

\* A visible parent was announced, or comes from a review.
Announced(rw, rv, pub, a) ==
  rw[a].parent = P!NoOne /\ rw[a].status = "active" => a \in pub \/ HasCase(rv, a)

\* What holds of an announcement that the stage is done with.
Done(a, rw, rv, pub, int, fl) ==
  /\ Has(rw, a) /\ Announced(rw, rv, pub, a)
  /\ a \notin int /\ rw[a].status = "manual_review" => HasCase(rv, a)
  /\ a \in fl => rv[a]["low_confidence"] # P!NoItem

\* The worker saved its announcement itself, in this attempt.
SavedAt(x) ==
  x.at \in {"publish", "publishlink", "enqueue", "decided"} \/ (x.at = "link" /\ x.parent = x.of)

\* What a worker that holds x relies on, and leaves for its next step.
Sound(x, rw, rv, pub, int, fl) ==
  x.at # "idle" =>
    /\ x.of \in fl => /\ x.at \in {"flagged", "enqueue", "decided"}
                      /\ x.at = "enqueue" => x.reason = "low_confidence"
    /\ x.at \in {"merge", "review"} => x.candidate # x.of /\ Has(rw, x.candidate)
    /\ x.at \in {"saveparent", "publishlink", "link"} =>
         /\ x.child # x.parent
         /\ x.parent # x.of => x.child = x.of /\ x.at = "link" /\ Has(rw, x.parent)
         /\ x.child # x.of => Has(rw, x.child)
    /\ x.at = "enqueue" => (x.related = P!NoOne \/ (x.related # x.of /\ Has(rw, x.related)))
    /\ SavedAt(x) => Has(rw, x.of)
    /\ x.at = "link" /\ x.parent = x.of => Announced(rw, rv, pub, x.of)
    /\ x.at = "decided" => Done(x.of, rw, rv, pub, int, fl)
    /\ x.of \notin int =>
         /\ ~SavedAt(x) => ~Has(rw, x.of)
         /\ SavedAt(x) /\ x.at \notin {"enqueue", "decided"} => rw[x.of].status = "active"

\* A message is ready or with one worker, unless a worker went on with a message the broker
\* had back: that one may be in several places.
Single(a) == ~outlived \/ a \notin interrupted

OnePlace ==
  /\ \A w \in Workers :
       worker[w].at # "idle" /\ Single(worker[w].of) => worker[w].of \notin queue
  /\ \A v, w \in Workers :
       worker[v].at # "idle" /\ worker[w].at # "idle" /\ v # w /\ Single(worker[v].of) =>
         worker[v].of # worker[w].of

\* A message that never failed has no row before it is taken.
Untouched == \A a \in queue \ interrupted : ~Has(row, a)

\* Parents and the subjects of cases have rows.
References(rw, rv) ==
  /\ \A a \in Announcements : Has(rw, a) /\ rw[a].parent # P!NoOne => Has(rw, rw[a].parent)
  /\ \A a \in Announcements, r \in P!ReviewReason :
       rv[a][r] # P!NoItem =>
         /\ Has(rw, a)
         /\ (rv[a][r].related = P!NoOne \/ (rv[a][r].related # a /\ Has(rw, rv[a][r].related)))

AllSound ==
  \A w \in Workers : Sound(worker[w], row, review, published, interrupted, input.flagged)
AllDone ==
  \A a \in handled : Done(a, row, review, published, interrupted, input.flagged)

\* An admin action that was begun is about a case.
Stores(ad, rv) == ad.at = "store" => rv[ad.of][ad.reason] # P!NoItem

PostInv ==
  PostType /\ OnePlace /\ Untouched /\ References(row, review) /\ AllSound /\ AllDone
    /\ Stores(admin, review)

\* What every step does to the rows: none goes, nothing becomes a parent again or goes back to
\* review, and a parent becomes visible only through its case.
Grows(rw, rv, rw2) ==
  \A a \in Announcements : Has(rw, a) =>
    /\ Has(rw2, a)
    /\ rw[a].status = "active" => rw2[a].status = "active"
    /\ rw[a].parent # P!NoOne => rw2[a].parent # P!NoOne
    /\ rw2[a].status = "active" =>
         \/ rw[a].status = "active" \/ rw2[a].parent # P!NoOne \/ HasCase(rv, a)

CasesStay(rv, rv2) ==
  \A a \in Announcements, r \in P!ReviewReason : rv[a][r] # P!NoItem => rv2[a][r] # P!NoItem

\* A row has a status that tells it from none.
LEMMA RowFacts ==
  ASSUME NEW rw \in Rows, NEW a \in Announcements
  PROVE  /\ Has(rw, a) <=> rw[a] \in P!Row
         /\ Has(rw, a) <=> rw[a].status # "absent"
         /\ Has(rw, a) => /\ rw[a].status \in {"active", "manual_review"}
                          /\ rw[a].parent \in Announcements \cup {P!NoOne}
                          /\ rw[a].fields \in SUBSET Fields /\ rw[a].created \in Nat
BY DEF Rows, Has, P!Row, P!Absent, P!Status

\* What holds of a finished announcement survives the steps that follow.
LEMMA DoneStays ==
  ASSUME NEW rw \in Rows, NEW rw2 \in Rows, NEW rv, NEW rv2, NEW pub, NEW pub2, NEW int, NEW int2,
         NEW fl, Grows(rw, rv, rw2), CasesStay(rv, rv2), pub \subseteq pub2, int \subseteq int2,
         NEW a \in Announcements, Done(a, rw, rv, pub, int, fl)
  PROVE  Done(a, rw2, rv2, pub2, int2, fl)
<1>1. HasCase(rv, a) => HasCase(rv2, a)
  BY DEF HasCase, CasesStay
<1>2. Has(rw, a) /\ Has(rw2, a)
  BY DEF Done, Grows
<1>3. Announced(rw2, rv2, pub2, a)
  BY <1>1, <1>2 DEF Done, Grows, Announced
<1>4. a \notin int2 /\ rw2[a].status = "manual_review" => HasCase(rv2, a)
  BY <1>1, <1>2, RowFacts DEF Done, Grows
<1>5. a \in fl => rv2[a]["low_confidence"] # P!NoItem
  BY DEF Done, CasesStay, P!ReviewReason
<1> QED
  BY <1>2, <1>3, <1>4, <1>5 DEF Done

\* What a worker relies on survives the steps of the others.
LEMMA SoundStays ==
  ASSUME NEW rw \in Rows, NEW rw2 \in Rows, NEW rv, NEW rv2, NEW pub, NEW pub2, NEW int, NEW int2,
         NEW fl, Grows(rw, rv, rw2), CasesStay(rv, rv2), pub \subseteq pub2, int \subseteq int2,
         NEW x \in Works,
         x.at # "idle" /\ x.of \notin int2 /\ Has(rw2, x.of) => Has(rw, x.of),
         Sound(x, rw, rv, pub, int, fl)
  PROVE  Sound(x, rw2, rv2, pub2, int2, fl)
<1> SUFFICES ASSUME x.at # "idle" PROVE Sound(x, rw2, rv2, pub2, int2, fl)
  BY DEF Sound
<1>1. \A a \in Announcements : Has(rw, a) => Has(rw2, a)
  BY DEF Grows
<1>2. x.of \in Announcements
  BY DEF Works, Holding, Weighing, Linking, Opening, P!Idle
<1>3. x.at \in {"merge", "review"} => x.candidate \in Announcements
  BY DEF Works, Holding, Weighing, Linking, Opening, P!Idle
<1>4. x.at \in {"saveparent", "publishlink", "link"} =>
        x.child \in Announcements /\ x.parent \in Announcements
  BY DEF Works, Holding, Weighing, Linking, Opening, P!Idle
<1>5. x.at = "enqueue" => x.related \in Announcements \cup {P!NoOne}
  BY DEF Works, Holding, Weighing, Linking, Opening, P!Idle
<1>6. x.at \in {"merge", "review"} => x.candidate # x.of /\ Has(rw2, x.candidate)
  BY <1>1, <1>3 DEF Sound
<1>7. x.at \in {"saveparent", "publishlink", "link"} =>
        /\ x.child # x.parent
        /\ x.parent # x.of => x.child = x.of /\ x.at = "link" /\ Has(rw2, x.parent)
        /\ x.child # x.of => Has(rw2, x.child)
  BY <1>1, <1>4 DEF Sound
<1>8. x.at = "enqueue" => (x.related = P!NoOne \/ (x.related # x.of /\ Has(rw2, x.related)))
  BY <1>1, <1>5 DEF Sound
<1>9. SavedAt(x) => Has(rw2, x.of)
  BY <1>1, <1>2 DEF Sound
<1>10. x.at = "link" /\ x.parent = x.of => Announced(rw2, rv2, pub2, x.of)
  <2>1. HasCase(rv, x.of) => HasCase(rv2, x.of)
    BY <1>2 DEF HasCase, CasesStay
  <2>2. x.at = "link" /\ x.parent = x.of => Has(rw, x.of) /\ Announced(rw, rv, pub, x.of)
    BY DEF Sound, SavedAt
  <2> QED
    BY <1>2, <2>1, <2>2 DEF Announced, Grows
<1>11. x.at = "decided" => Done(x.of, rw2, rv2, pub2, int2, fl)
  BY <1>2, DoneStays DEF Sound
<1>12. x.of \notin int2 =>
         /\ ~SavedAt(x) => ~Has(rw2, x.of)
         /\ SavedAt(x) /\ x.at \notin {"enqueue", "decided"} => rw2[x.of].status = "active"
  BY <1>2 DEF Sound, Grows
<1>13. x.of \in fl => /\ x.at \in {"flagged", "enqueue", "decided"}
                      /\ x.at = "enqueue" => x.reason = "low_confidence"
  BY DEF Sound
<1> QED
  BY <1>6, <1>7, <1>8, <1>9, <1>10, <1>11, <1>12, <1>13 DEF Sound

\* What a step of one worker has to keep.
LEMMA WorkerStep ==
  ASSUME PostInv, TimePasses, NEW w \in Workers, NEW x \in Works, worker' = [worker EXCEPT ![w] = x],
         input' = input, admin' = admin, crossed' \in BOOLEAN,
         row' \in Rows, review' \in Reviews, References(row', review'),
         published \subseteq published', interrupted \subseteq interrupted',
         published' \subseteq Announcements, interrupted' \subseteq Announcements,
         handled' \subseteq Announcements, queue' \subseteq Announcements,
         Grows(row, review, row'), CasesStay(review, review'),
         \A a \in Announcements :
           Has(row', a) /\ ~Has(row, a) => worker[w].at # "idle" /\ a = worker[w].of,
         x.at # "idle" =>
           \/ worker[w].at # "idle" /\ x.of = worker[w].of /\ queue' = queue
           \/ x.of \in queue /\ queue' = queue \ {x.of}
           \/ /\ worker[w].at # "idle" /\ x.of = worker[w].of /\ queue' = queue \cup {x.of}
              /\ outlived' /\ x.of \in interrupted',
         x.at = "idle" =>
           worker[w].at # "idle" /\ queue' \subseteq queue \cup (interrupted' \cap {worker[w].of}),
         Sound(x, row', review', published', interrupted', input.flagged),
         \A a \in handled' \ handled :
           Done(a, row', review', published', interrupted', input.flagged)
  PROVE  PostInv'
<1>1. /\ PostType /\ OnePlace /\ Untouched /\ References(row, review) /\ AllSound /\ AllDone
      /\ Stores(admin, review)
  BY DEF PostInv
<1>2. /\ worker' \in [Workers -> Works] /\ worker'[w] = x
      /\ \A v \in Workers \ {w} : worker'[v] = worker[v]
  BY <1>1 DEF PostType
<1>3. PostType'
  BY <1>1, <1>2 DEF PostType, TimePasses
<1>4. OnePlace'
  <2>1. \A a : ~outlived' \/ a \notin interrupted' => Single(a)
    BY DEF TimePasses, Single
  <2>2. ASSUME NEW v \in Workers, worker'[v].at # "idle",
               ~outlived' \/ worker'[v].of \notin interrupted'
        PROVE  worker'[v].of \notin queue'
    <3>1. CASE v = w
      BY <1>1, <1>2, <2>1, <2>2, <3>1 DEF OnePlace
    <3>2. CASE v # w
      <4>1. worker[v].at # "idle" /\ worker[v].of \notin queue /\ worker'[v] = worker[v]
        BY <1>1, <1>2, <2>1, <2>2, <3>2 DEF OnePlace
      <4>2. worker[w].at # "idle" => worker[v].of # worker[w].of
        BY <1>1, <2>1, <2>2, <3>2, <4>1 DEF OnePlace
      <4> QED
        BY <4>1, <4>2
    <3> QED
      BY <3>1, <3>2
  <2>3. ASSUME NEW u \in Workers, NEW v \in Workers, worker'[v].at # "idle",
               worker'[u].at # "idle", v # u, ~outlived' \/ worker'[v].of \notin interrupted'
        PROVE  worker'[v].of # worker'[u].of
    <3>1. Single(worker'[v].of)
      BY <2>1, <2>3
    <3>2. CASE v = w
      BY <1>1, <1>2, <2>3, <3>1, <3>2 DEF OnePlace
    <3>3. CASE u = w
      BY <1>1, <1>2, <2>3, <3>1, <3>3 DEF OnePlace
    <3>4. CASE v # w /\ u # w
      BY <1>1, <1>2, <2>3, <3>1, <3>4 DEF OnePlace
    <3> QED
      BY <3>2, <3>3, <3>4
  <2> QED
    BY <2>2, <2>3 DEF OnePlace, Single
<1>5. Untouched'
  <2> SUFFICES ASSUME NEW a \in queue' \ interrupted' PROVE ~Has(row', a)
    BY DEF Untouched
  <2>1. a \in queue \ interrupted /\ a \in Announcements
    BY <1>1 DEF PostType
  <2>2. ~Has(row, a)
    BY <1>1, <2>1 DEF Untouched
  <2>3. Single(a)
    BY <2>1 DEF Single
  <2> QED
    BY <1>1, <2>1, <2>2, <2>3 DEF OnePlace
<1>6. AllSound'
  <2> SUFFICES ASSUME NEW v \in Workers
               PROVE  Sound(worker'[v], row', review', published', interrupted', input.flagged)
    BY DEF AllSound
  <2>1. CASE v = w
    BY <1>2, <2>1
  <2>2. CASE v # w
    <3>1. PICK y \in Works : y = worker[v]
      BY <1>1 DEF PostType
    <3>2. Sound(y, row, review, published, interrupted, input.flagged)
      BY <1>1, <3>1 DEF AllSound
    <3>3. y.at # "idle" => y.of \in Announcements
      BY DEF Works, Holding, Weighing, Linking, Opening, P!Idle
    <3>4. y.at # "idle" /\ y.of \notin interrupted' /\ Has(row', y.of) => Has(row, y.of)
      BY <1>1, <2>2, <3>1, <3>3 DEF OnePlace, Single
    <3>5. row \in Rows
      BY <1>1 DEF PostType
    <3> QED
      BY <1>2, <2>2, <3>1, <3>2, <3>4, <3>5, SoundStays
  <2> QED
    BY <2>1, <2>2
<1>7. AllDone'
  <2>1. ASSUME NEW a \in handled
        PROVE  Done(a, row', review', published', interrupted', input.flagged)
    <3>1. row \in Rows /\ a \in Announcements
      BY <1>1 DEF PostType
    <3>2. Done(a, row, review, published, interrupted, input.flagged)
      BY <1>1 DEF AllDone
    <3> QED
      BY <3>1, <3>2, DoneStays
  <2> QED
    BY <2>1 DEF AllDone
<1>8. Stores(admin', review')
  <2>1. admin.at = "store" => admin.of \in Announcements /\ admin.reason \in P!ReviewReason
    BY <1>1 DEF PostType, P!NoAction, Storing
  <2> QED
    BY <1>1, <2>1 DEF Stores, CasesStay
<1> QED
  BY <1>3, <1>4, <1>5, <1>6, <1>7, <1>8 DEF PostInv

\* What a step of the admin has to keep.
LEMMA AdminStep ==
  ASSUME PostInv, TimePasses, admin' \in {P!NoAction} \cup Storing, Stores(admin', review'), crossed' \in BOOLEAN,
         UNCHANGED <<input, queue, published, handled, worker>>,
         interrupted \subseteq interrupted', interrupted' \subseteq Announcements,
         row' \in Rows, review' \in Reviews, References(row', review'),
         Grows(row, review, row'), CasesStay(review, review'),
         \A a \in Announcements : Has(row', a) => Has(row, a)
  PROVE  PostInv'
<1>1. PostType /\ OnePlace /\ Untouched /\ References(row, review) /\ AllSound /\ AllDone
  BY DEF PostInv
<1>2. PostType' /\ OnePlace' /\ Untouched'
  <2>1. PostType' /\ Untouched'
    BY <1>1 DEF PostType, Untouched, TimePasses
  <2>2. OnePlace'
    BY <1>1 DEF OnePlace, Single, TimePasses
  <2> QED
    BY <2>1, <2>2
<1>3. AllSound'
  <2> SUFFICES ASSUME NEW v \in Workers
               PROVE  Sound(worker[v], row', review', published, interrupted', input.flagged)
    BY DEF AllSound
  <2>1. PICK y \in Works : y = worker[v]
    BY <1>1 DEF PostType
  <2>2. Sound(y, row, review, published, interrupted, input.flagged)
    BY <1>1, <2>1 DEF AllSound
  <2>3. y.at # "idle" => y.of \in Announcements
    BY DEF Works, Holding, Weighing, Linking, Opening, P!Idle
  <2>4. row \in Rows
    BY <1>1 DEF PostType
  <2> QED
    BY <2>1, <2>2, <2>3, <2>4, SoundStays
<1>4. AllDone'
  <2>1. ASSUME NEW a \in handled
        PROVE  Done(a, row', review', published, interrupted', input.flagged)
    <3>1. row \in Rows /\ a \in Announcements
      BY <1>1 DEF PostType
    <3>2. Done(a, row, review, published, interrupted, input.flagged)
      BY <1>1 DEF AllDone
    <3> QED
      BY <3>1, <3>2, DoneStays
  <2> QED
    BY <2>1 DEF AllDone
<1> QED
  BY <1>2, <1>3, <1>4 DEF PostInv

\* References hold of rows that grow, whatever becomes of the statuses of cases.
LEMMA ReferencesStay ==
  ASSUME NEW rw, NEW rw2, NEW rv, References(rw, rv),
         \A a \in Announcements : Has(rw, a) => Has(rw2, a),
         rv \in Reviews,
         \A a \in Announcements :
           Has(rw2, a) /\ rw2[a].parent # P!NoOne => Has(rw2, rw2[a].parent)
  PROVE  References(rw2, rv)
<1>1. ASSUME NEW a \in Announcements, NEW r \in P!ReviewReason, rv[a][r] # P!NoItem
      PROVE  rv[a][r].related \in Announcements \cup {P!NoOne}
  BY <1>1 DEF Reviews, P!Item
<1> QED
  BY <1>1 DEF References

SavedRows(a, st, t) == [row EXCEPT ![a] = P!Saved(a, st, t)]

\* save_parent
LEMMA SaveResult ==
  ASSUME PostInv, P!Constants, NEW a \in Announcements, NEW st \in P!Status, NEW t \in Nat,
         NEW rw, rw = SavedRows(a, st, t)
  PROVE  /\ rw \in Rows /\ Grows(row, review, rw) /\ References(rw, review)
         /\ Has(rw, a) /\ \A b \in Announcements \ {a} : rw[b] = row[b]
         /\ Has(row, a) => rw = row
         /\ ~Has(row, a) => /\ rw[a].status = st /\ rw[a].parent = P!NoOne
                            /\ rw[a].fields = input.fields[a] /\ rw[a].created = t
<1>1. row \in Rows /\ review \in Reviews /\ References(row, review) /\ input \in Inputs
  BY DEF PostInv, PostType
<1>2. CASE Has(row, a)
  <2>1. rw = row
    BY <1>1, <1>2 DEF SavedRows, P!Saved, P!Persisted, Has, Rows
  <2>2. Grows(row, review, row)
    BY DEF Grows
  <2> QED
    BY <1>1, <1>2, <2>1, <2>2
<1>3. CASE ~Has(row, a)
  <2>1. PICK n : n = [status |-> st, parent |-> P!NoOne, fields |-> input.fields[a],
                      created |-> t]
    OBVIOUS
  <2>2. /\ n \in P!Row /\ n.status = st /\ n.parent = P!NoOne
        /\ n.fields = input.fields[a] /\ n.created = t
    BY <1>1, <2>1 DEF P!Row, P!Constants
  <2>3. rw = [row EXCEPT ![a] = n]
    BY <1>3, <2>1 DEF SavedRows, P!Saved, P!Persisted, Has
  <2>4. rw \in Rows /\ rw[a] = n /\ \A b \in Announcements \ {a} : rw[b] = row[b]
    BY <1>1, <2>2, <2>3 DEF Rows
  <2>5. Has(rw, a)
    BY <2>2, <2>4, RowFacts
  <2>6. Grows(row, review, rw)
    BY <1>3, <2>4 DEF Grows, Has
  <2>7. \A b \in Announcements : Has(row, b) => Has(rw, b)
    BY <2>6 DEF Grows
  <2>8. \A b \in Announcements : Has(rw, b) /\ rw[b].parent # P!NoOne => Has(rw, rw[b].parent)
    <3> SUFFICES ASSUME NEW b \in Announcements, Has(rw, b), rw[b].parent # P!NoOne
                 PROVE  Has(rw, rw[b].parent)
      OBVIOUS
    <3>1. b # a /\ rw[b] = row[b] /\ Has(row, b)
      BY <2>2, <2>4 DEF Has
    <3>2. Has(row, row[b].parent) /\ row[b].parent \in Announcements
      BY <1>1, <3>1, RowFacts DEF References
    <3> QED
      BY <2>7, <3>1, <3>2
  <2>9. References(rw, review)
    BY <1>1, <2>7, <2>8, ReferencesStay
  <2> QED
    BY <1>3, <2>2, <2>4, <2>5, <2>6, <2>9
<1> QED
  BY <1>2, <1>3

\* What rw has of rw1 once c is linked below p.
Linked(rw1, rw, c, f, t, p) ==
  /\ Has(rw, c) /\ rw[c].parent = p /\ \A b \in Announcements \ {c, p} : rw[b] = rw1[b]
  /\ Has(rw, p) /\ rw[p].parent = rw1[p].parent /\ rw[p].status = rw1[p].status
  /\ rw[p].created = rw1[p].created
  /\ ~Has(rw1, c) => rw[c].status = "active" /\ rw[c].fields = f /\ rw[c].created = t
  /\ Has(rw1, c) => rw[c].fields = rw1[c].fields /\ rw[c].created = rw1[c].created
  /\ rw = rw1 \/ rw[p].fields = rw1[p].fields \cup f

\* link_child
LEMMA LinkResult ==
  ASSUME PostInv, P!Constants, NEW c \in Announcements, NEW p \in Announcements, c # p,
         Has(row, p), NEW f \in SUBSET Fields, NEW t \in Nat, NEW rw,
         rw = P!LinkChild(c, f, t, p)
  PROVE  /\ rw \in Rows /\ Grows(row, review, rw) /\ References(rw, review)
         /\ Linked(row, rw, c, f, t, p)
<1>1. row \in Rows /\ review \in Reviews /\ References(row, review) /\ P!NoOne \notin Announcements
  BY DEF PostInv, PostType, P!Constants
<1>2. CASE Has(row, c) /\ row[c].parent = p
  <2>1. rw = row
    BY <1>2 DEF P!LinkChild, P!Persisted, Has
  <2>2. Grows(row, review, row) /\ Linked(row, row, c, f, t, p)
    BY <1>2 DEF Grows, Linked
  <2> QED
    BY <1>1, <2>1, <2>2
<1>3. CASE ~(Has(row, c) /\ row[c].parent = p)
  <2>1. PICK n : n = P!UpsertedChild(c, f, t, p)
    OBVIOUS
  <2>2. PICK m : m = P!ParentAggregate(p, f)
    OBVIOUS
  <2>3. rw = [row EXCEPT ![c] = n, ![p] = m]
    BY <1>3, <2>1, <2>2 DEF P!LinkChild, P!Persisted, Has
  <2>4. /\ n \in P!Row /\ n.parent = p /\ n.status = "active"
        /\ ~Has(row, c) => n.fields = f /\ n.created = t
        /\ Has(row, c) => n.fields = row[c].fields /\ n.created = row[c].created
    <3>1. CASE Has(row, c)
      <4>1. row[c] \in P!Row
        BY <1>1, <3>1, RowFacts
      <4>2. n = [row[c] EXCEPT !.parent = p, !.status = "active"]
        BY <2>1, <3>1 DEF P!UpsertedChild, P!Persisted, Has
      <4> QED
        BY <3>1, <4>1, <4>2 DEF P!Row, P!Status
    <3>2. CASE ~Has(row, c)
      BY <2>1, <3>2 DEF P!UpsertedChild, P!Persisted, Has, P!Row, P!Status
    <3> QED
      BY <3>1, <3>2
  <2>5. /\ m \in P!Row /\ m.parent = row[p].parent /\ m.status = row[p].status
        /\ m.fields = row[p].fields \cup f /\ m.created = row[p].created
    <3>1. row[p] \in P!Row
      BY <1>1, RowFacts
    <3>2. m = [row[p] EXCEPT !.fields = row[p].fields \cup f]
      BY <2>2 DEF P!ParentAggregate, P!MergeParentFields
    <3> QED
      BY <3>1, <3>2 DEF P!Row
  <2>6. /\ rw \in Rows /\ rw[c] = n /\ rw[p] = m
        /\ \A b \in Announcements \ {c, p} : rw[b] = row[b]
    BY <1>1, <2>3, <2>4, <2>5 DEF Rows
  <2>7. Has(rw, c) /\ Has(rw, p)
    BY <2>4, <2>5, <2>6, RowFacts
  <2>8. Grows(row, review, rw)
    BY <1>1, <2>4, <2>5, <2>6, <2>7 DEF Grows, Has
  <2>9. \A b \in Announcements : Has(row, b) => Has(rw, b)
    BY <2>8 DEF Grows
  <2>10. \A b \in Announcements : Has(rw, b) /\ rw[b].parent # P!NoOne => Has(rw, rw[b].parent)
    <3> SUFFICES ASSUME NEW b \in Announcements, Has(rw, b), rw[b].parent # P!NoOne
                 PROVE  Has(rw, rw[b].parent)
      OBVIOUS
    <3>1. CASE b = c
      BY <2>4, <2>6, <2>7, <3>1
    <3>2. CASE b # c
      <4>1. Has(row, b) /\ row[b].parent = rw[b].parent
        BY <2>5, <2>6, <3>2 DEF Has
      <4>2. Has(row, row[b].parent) /\ row[b].parent \in Announcements
        BY <1>1, <4>1, RowFacts DEF References
      <4> QED
        BY <2>9, <4>1, <4>2
    <3> QED
      BY <3>1, <3>2
  <2>11. References(rw, review)
    BY <1>1, <2>9, <2>10, ReferencesStay
  <2>12. Linked(row, rw, c, f, t, p)
    BY <2>4, <2>5, <2>6, <2>7 DEF Linked
  <2> QED
    BY <2>6, <2>8, <2>11, <2>12
<1> QED
  BY <1>2, <1>3

\* What a worker may hold at each point.
LEMMA WorkFacts ==
  ASSUME NEW x \in Works
  PROVE  /\ x.at # "idle" => x.of \in Announcements
         /\ x.at \in {"merge", "review"} => x.candidate \in Announcements
         /\ x.at \in {"saveparent", "publishlink", "link"} =>
              /\ x \in Linking /\ x.child \in Announcements /\ x.parent \in Announcements
              /\ x.fields \in SUBSET Fields
         /\ x.at = "enqueue" =>
              x.reason \in P!ReviewReason /\ x.related \in Announcements \cup {P!NoOne}
         /\ x.at = "new" => x \in Holding \cup Weighing
         /\ x.at = "publish" => x \in Holding \cup Weighing
BY DEF Works, Holding, Weighing, Linking, Opening, P!Idle

\* A step of a worker that writes no table.
LEMMA QuietStep ==
  ASSUME PostInv, TimePasses, NEW w \in Workers, NEW x \in Works, worker' = [worker EXCEPT ![w] = x],
         UNCHANGED <<input, admin, crossed, row, review>>,
         published \subseteq published', interrupted \subseteq interrupted',
         published' \subseteq Announcements, interrupted' \subseteq Announcements,
         handled' \subseteq Announcements, queue' \subseteq Announcements,
         x.at # "idle" =>
           \/ worker[w].at # "idle" /\ x.of = worker[w].of /\ queue' = queue
           \/ x.of \in queue /\ queue' = queue \ {x.of}
           \/ /\ worker[w].at # "idle" /\ x.of = worker[w].of /\ queue' = queue \cup {x.of}
              /\ outlived' /\ x.of \in interrupted',
         x.at = "idle" =>
           worker[w].at # "idle" /\ queue' \subseteq queue \cup (interrupted' \cap {worker[w].of}),
         Sound(x, row, review, published', interrupted', input.flagged),
         \A a \in handled' \ handled :
           Done(a, row, review, published', interrupted', input.flagged)
  PROVE  PostInv'
<1>1. row \in Rows /\ review \in Reviews /\ References(row, review) /\ crossed \in BOOLEAN
  BY DEF PostInv, PostType
<1>2. Grows(row, review, row) /\ CasesStay(review, review)
  BY DEF Grows, CasesStay
<1>3. row' = row /\ review' = review /\ crossed' = crossed /\ input' = input /\ admin' = admin
  OBVIOUS
<1>4. row' \in Rows /\ review' \in Reviews /\ References(row', review') /\ crossed' \in BOOLEAN
  BY <1>1, <1>3
<1>5. Grows(row, review, row') /\ CasesStay(review, review')
  BY <1>2, <1>3
<1>6. /\ Sound(x, row', review', published', interrupted', input.flagged)
      /\ \A a \in handled' \ handled :
           Done(a, row', review', published', interrupted', input.flagged)
  BY <1>3
<1>7. \A a \in Announcements : ~(Has(row', a) /\ ~Has(row, a))
  BY <1>3
<1> QED
  BY <1>3, <1>4, <1>5, <1>6, <1>7, WorkerStep

\* The invariant at the worker that steps.
LEMMA AtWorker ==
  ASSUME PostInv, NEW w \in Workers
  PROVE  /\ worker[w] \in Works
         /\ Sound(worker[w], row, review, published, interrupted, input.flagged)
         /\ PostType
BY DEF PostInv, AllSound, PostType

\* A message taken by an idle worker was nowhere else.
LEMMA TakeKeeps ==
  ASSUME PostInv, TimePasses, NEW w \in Workers, P!Take(w) PROVE PostInv'
<1>1. PICK a \in queue :
        /\ queue' = queue \ {a}
        /\ worker' = [worker EXCEPT ![w] =
                        [at |-> IF P!Flagged(a) THEN "flagged" ELSE "evaluate", of |-> a]]
  BY DEF P!Take
<1>2. PICK x : x = [at |-> IF P!Flagged(a) THEN "flagged" ELSE "evaluate", of |-> a]
  OBVIOUS
<1>3. a \in Announcements /\ PostType /\ Untouched
  BY DEF PostInv, PostType
<1>4. /\ x \in Holding /\ x.of = a /\ x.at \in {"flagged", "evaluate"}
      /\ a \in input.flagged => x.at = "flagged"
  BY <1>2, <1>3 DEF Holding, P!Flagged
<1>5. x \in Works /\ worker' = [worker EXCEPT ![w] = x]
  BY <1>1, <1>2, <1>4 DEF Works
<1>6. /\ UNCHANGED <<input, admin, crossed, row, review>>
      /\ published' = published /\ interrupted' = interrupted /\ handled' = handled
  BY DEF P!Take
<1>7. Sound(x, row, review, published, interrupted, input.flagged)
  <2>1. a \notin interrupted => ~Has(row, a)
    BY <1>1, <1>3 DEF Untouched
  <2> QED
    BY <1>4, <2>1 DEF Sound, SavedAt
<1> QED
  BY <1>1, <1>3, <1>4, <1>5, <1>6, <1>7, QuietStep DEF PostType

\* evaluate: the candidate has a row and is another announcement.
LEMMA EvaluateKeeps ==
  ASSUME PostInv, TimePasses, P!Constants, NEW w \in Workers, P!Evaluate(w) PROVE PostInv'
<1>1. PICK o : o = worker[w]
  OBVIOUS
<1>2. /\ o \in Works /\ o.at = "evaluate" /\ o.of \in Announcements /\ PostType
      /\ Sound(o, row, review, published, interrupted, input.flagged)
  BY <1>1, AtWorker, WorkFacts DEF P!Evaluate
<1>3. /\ UNCHANGED <<input, admin, crossed, row, review>> /\ queue' = queue
      /\ published' = published /\ interrupted' = interrupted /\ handled' = handled
  BY DEF P!Evaluate
<1>4. /\ o.of \notin input.flagged
      /\ o.of \notin interrupted => ~Has(row, o.of)
  BY <1>2 DEF Sound, SavedAt
<1>5. CASE worker' = [worker EXCEPT ![w] = [at |-> "new", of |-> o.of]]
  <2>1. PICK x : x = [at |-> "new", of |-> o.of]
    OBVIOUS
  <2>2. x \in Works /\ x.at = "new" /\ x.of = o.of
    BY <1>2, <2>1 DEF Works, Holding
  <2>3. Sound(x, row, review, published, interrupted, input.flagged)
    BY <1>4, <2>2 DEF Sound, SavedAt
  <2> QED
    BY <1>1, <1>2, <1>3, <1>5, <2>1, <2>2, <2>3, QuietStep DEF PostType
<1>6. ASSUME NEW c \in P!Candidates(o.of),
             worker' = [worker EXCEPT ![w] =
                          [at |-> P!Likeness(o.of, c), of |-> o.of, candidate |-> c]]
      PROVE  PostInv'
  <2>1. c \in Announcements /\ c # o.of /\ Has(row, c)
    BY <1>6 DEF P!Candidates, P!IsParent, P!Persisted, Has
  <2>2. P!Likeness(o.of, c) \in {"merge", "review", "new"}
    BY <1>2, <2>1 DEF P!Likeness, P!Constants, P!Verdict, PostType
  <2>3. PICK x : x = [at |-> P!Likeness(o.of, c), of |-> o.of, candidate |-> c]
    OBVIOUS
  <2>4. /\ x \in Works /\ x.at \in {"merge", "review", "new"} /\ x.of = o.of
        /\ x.candidate = c
    BY <1>2, <2>1, <2>2, <2>3 DEF Works, Weighing
  <2>5. Sound(x, row, review, published, interrupted, input.flagged)
    BY <1>4, <2>1, <2>4 DEF Sound, SavedAt
  <2> QED
    BY <1>1, <1>2, <1>3, <1>6, <2>3, <2>4, <2>5, QuietStep DEF PostType
<1> QED
  BY <1>1, <1>5, <1>6 DEF P!Evaluate

\* select_parent: both ends of the planned link are known.
LEMMA SelectParentKeeps ==
  ASSUME PostInv, TimePasses, P!Constants, NEW w \in Workers, P!SelectParent(w) PROVE PostInv'
<1>1. PICK o : o = worker[w]
  OBVIOUS
<1>2. /\ o \in Works /\ o.at = "merge" /\ o.of \in Announcements /\ PostType
      /\ Sound(o, row, review, published, interrupted, input.flagged)
      /\ o.candidate \in Announcements
  BY <1>1, AtWorker, WorkFacts DEF P!SelectParent
<1>3. /\ UNCHANGED <<input, admin, crossed, row, review>> /\ queue' = queue
      /\ published' = published /\ interrupted' = interrupted /\ handled' = handled
  BY DEF P!SelectParent
<1>4. /\ o.of \notin input.flagged /\ o.candidate # o.of /\ Has(row, o.candidate)
      /\ o.of \notin interrupted => ~Has(row, o.of)
  BY <1>2 DEF Sound, SavedAt
<1>5. PICK x : x = IF P!CandidateIsParent(o.of, since[w], o.candidate)
                   THEN [at |-> "link", of |-> o.of, child |-> o.of, parent |-> o.candidate,
                         fields |-> input.fields[o.of]]
                   ELSE [at |-> "saveparent", of |-> o.of, child |-> o.candidate,
                         parent |-> o.of, fields |-> row[o.candidate].fields]
  OBVIOUS
<1>6. worker' = [worker EXCEPT ![w] = x]
  BY <1>1, <1>5 DEF P!SelectParent
<1>7. /\ input.fields[o.of] \in SUBSET Fields
      /\ row[o.candidate].fields \in SUBSET Fields
  BY <1>2, <1>4, RowFacts DEF PostType, P!Constants
<1>8. /\ x \in Works /\ x.of = o.of
      /\ \/ x.at = "link" /\ x.child = o.of /\ x.parent = o.candidate
         \/ x.at = "saveparent" /\ x.child = o.candidate /\ x.parent = o.of
  BY <1>2, <1>5, <1>7 DEF Works, Linking
<1>9. Sound(x, row, review, published, interrupted, input.flagged)
  BY <1>4, <1>8 DEF Sound, SavedAt
<1> QED
  BY <1>1, <1>2, <1>3, <1>6, <1>8, <1>9, QuietStep DEF PostType

\* What is acknowledged was done.
LEMMA AcknowledgeKeeps ==
  ASSUME PostInv, TimePasses, NEW w \in Workers, P!Acknowledge(w) PROVE PostInv'
<1>1. PICK o : o = worker[w]
  OBVIOUS
<1>2. /\ o \in Works /\ o.at = "decided" /\ o.of \in Announcements /\ PostType
      /\ Sound(o, row, review, published, interrupted, input.flagged)
  BY <1>1, AtWorker, WorkFacts DEF P!Acknowledge
<1>3. /\ UNCHANGED <<input, admin, crossed, row, review>> /\ queue' = queue
      /\ published' = published /\ interrupted' = interrupted
      /\ handled' = handled \cup {o.of} /\ worker' = [worker EXCEPT ![w] = P!Idle]
  BY <1>1 DEF P!Acknowledge
<1>4. Done(o.of, row, review, published, interrupted, input.flagged)
  BY <1>2 DEF Sound
<1>5. /\ P!Idle \in Works /\ P!Idle.at = "idle"
      /\ Sound(P!Idle, row, review, published, interrupted, input.flagged)
  BY DEF Works, P!Idle, Sound
<1> QED
  BY <1>1, <1>2, <1>3, <1>4, <1>5, QuietStep DEF PostType

\* A failure may put the message back, and marks its announcement.
LEMMA FailKeeps ==
  ASSUME PostInv, TimePasses, NEW w \in Workers, P!Fail(w) PROVE PostInv'
<1>1. PICK o : o = worker[w]
  OBVIOUS
<1>2. o \in Works /\ o.at # "idle" /\ o.of \in Announcements /\ PostType
  BY <1>1, AtWorker, WorkFacts DEF P!Fail
<1>3. /\ UNCHANGED <<input, admin, crossed, row, review>>
      /\ queue' \in {queue, queue \cup {o.of}}
      /\ published' = published /\ interrupted' = interrupted \cup {o.of}
      /\ handled' = handled /\ worker' = [worker EXCEPT ![w] = P!Idle]
  BY <1>1 DEF P!Fail
<1>4. /\ P!Idle \in Works /\ P!Idle.at = "idle"
      /\ Sound(P!Idle, row, review, published', interrupted', input.flagged)
  BY DEF Works, P!Idle, Sound
<1> QED
  BY <1>1, <1>2, <1>3, <1>4, QuietStep DEF PostType

\* A worker that lost its connection goes on; its announcement counts as interrupted.
LEMMA LoseConnectionKeeps ==
  ASSUME PostInv, TimePasses, NEW w \in Workers, P!LoseConnection(w) PROVE PostInv'
<1>1. PICK o : o = worker[w]
  OBVIOUS
<1>2. /\ o \in Works /\ o.at # "idle" /\ o.of \in Announcements /\ PostType
      /\ Sound(o, row, review, published, interrupted, input.flagged)
  BY <1>1, AtWorker, WorkFacts DEF P!LoseConnection
<1>3. /\ UNCHANGED <<input, admin, crossed, row, review>> /\ queue' = queue \cup {o.of}
      /\ published' = published /\ interrupted' = interrupted \cup {o.of} /\ outlived'
      /\ handled' = handled /\ worker' = worker
  BY <1>1 DEF P!LoseConnection
<1>4. worker' = [worker EXCEPT ![w] = o]
  BY <1>1, <1>2, <1>3 DEF PostType
<1>5. Sound(o, row, review, published', interrupted', input.flagged)
  BY <1>2, <1>3 DEF Sound, Done
<1> QED
  BY <1>1, <1>2, <1>3, <1>4, <1>5, QuietStep DEF PostType

\* save_parent for a new announcement or one that takes over a stored one.
LEMMA SaveParentKeeps ==
  ASSUME PostInv, TimePasses, P!Constants, NEW w \in Workers, P!SaveParent(w) PROVE PostInv'
<1>1. PICK o : o = worker[w]
  OBVIOUS
<1>2. /\ o \in Works /\ o.at \in {"new", "saveparent"} /\ o.of \in Announcements /\ PostType
      /\ Sound(o, row, review, published, interrupted, input.flagged)
      /\ o \in Holding \cup Weighing \cup Linking
  BY <1>1, AtWorker, WorkFacts DEF P!SaveParent
<1>3. /\ UNCHANGED <<input, admin, crossed, review>> /\ queue' = queue
      /\ published' = published /\ interrupted' = interrupted /\ handled' = handled
      /\ row' = [row EXCEPT ![o.of] = P!Saved(o.of, "active", since[w])]
  BY <1>1 DEF P!SaveParent
<1>4. PICK x : x = [o EXCEPT !.at = IF o.at = "new" THEN "publish" ELSE "publishlink"]
  OBVIOUS
<1>5. worker' = [worker EXCEPT ![w] = x]
  BY <1>1, <1>4 DEF P!SaveParent
<1>6. /\ x \in Works /\ x.of = o.of
      /\ o.at = "new" => x.at = "publish"
      /\ o.at = "saveparent" => /\ x.at = "publishlink" /\ x.child = o.child
                                /\ x.parent = o.parent
  BY <1>2, <1>4 DEF Works, Holding, Weighing, Linking
<1>7. /\ row' \in Rows /\ Grows(row, review, row') /\ References(row', review)
      /\ Has(row', o.of) /\ \A b \in Announcements \ {o.of} : row'[b] = row[b]
      /\ ~Has(row, o.of) => row'[o.of].status = "active"
  <2>1. PICK t \in Nat : t = since[w]
    BY <1>2 DEF PostType, Timed
  <2>2. PICK rw : rw = SavedRows(o.of, "active", t)
    OBVIOUS
  <2>3. row' = rw /\ "active" \in P!Status
    BY <1>3, <2>1, <2>2 DEF P!Status, SavedRows
  <2> QED
    BY <1>2, <2>2, <2>3, SaveResult
<1>8. \A a \in Announcements : Has(row', a) /\ ~Has(row, a) => a = o.of
  BY <1>7 DEF Has
<1>9. Sound(x, row', review, published, interrupted, input.flagged)
  <2>1. /\ o.of \notin input.flagged
        /\ o.of \notin interrupted => ~Has(row, o.of)
    BY <1>2 DEF Sound, SavedAt
  <2>2. CASE o.at = "new"
    BY <1>6, <1>7, <2>1, <2>2 DEF Sound, SavedAt
  <2>3. CASE o.at = "saveparent"
    <3>1. o.child # o.parent /\ o.parent = o.of /\ Has(row, o.child) /\ o.child \in Announcements
      BY <1>2, <2>3, WorkFacts DEF Sound
    <3>2. Has(row', o.child)
      BY <1>7, <3>1 DEF Grows
    <3> QED
      BY <1>6, <1>7, <2>1, <2>3, <3>1, <3>2 DEF Sound, SavedAt
  <2> QED
    BY <1>2, <2>2, <2>3
<1>10. CasesStay(review, review')
  BY <1>3 DEF CasesStay
<1> QED
  <2>1. /\ review' \in Reviews /\ crossed' \in BOOLEAN /\ References(row', review')
        /\ Sound(x, row', review', published', interrupted', input.flagged)
    BY <1>2, <1>3, <1>7, <1>9 DEF PostType
  <2> QED
    BY <1>1, <1>2, <1>3, <1>5, <1>6, <1>7, <1>8, <1>10, <2>1, WorkerStep DEF PostType

\* _publish_persisted: a saved parent that is active is announced.
LEMMA PublishKeeps ==
  ASSUME PostInv, TimePasses, NEW w \in Workers, P!PublishPersisted(w) PROVE PostInv'
<1>1. PICK o : o = worker[w]
  OBVIOUS
<1>2. /\ o \in Works /\ o.at \in {"publish", "publishlink"} /\ o.of \in Announcements
      /\ PostType /\ Sound(o, row, review, published, interrupted, input.flagged)
      /\ o \in Holding \cup Weighing \cup Linking
  BY <1>1, AtWorker, WorkFacts DEF P!PublishPersisted
<1>3. /\ UNCHANGED <<input, admin, crossed, row, review>> /\ queue' = queue
      /\ interrupted' = interrupted /\ handled' = handled
      /\ published' = IF row[o.of].status = "active" THEN published \cup {o.of} ELSE published
  BY <1>1 DEF P!PublishPersisted
<1>4. PICK x : x = [o EXCEPT !.at = IF o.at = "publish" THEN "decided" ELSE "link"]
  OBVIOUS
<1>5. worker' = [worker EXCEPT ![w] = x]
  BY <1>1, <1>4 DEF P!PublishPersisted
<1>6. /\ x \in Works /\ x.of = o.of
      /\ o.at = "publish" => x.at = "decided"
      /\ o.at = "publishlink" => x.at = "link" /\ x.child = o.child /\ x.parent = o.parent
  BY <1>2, <1>4 DEF Works, Holding, Weighing, Linking
<1>7. /\ o.of \notin input.flagged /\ Has(row, o.of)
      /\ o.of \notin interrupted => row[o.of].status = "active"
  BY <1>2 DEF Sound, SavedAt
<1>8. Announced(row, review, published', o.of)
  BY <1>3 DEF Announced
<1>9. Sound(x, row, review, published', interrupted, input.flagged)
  <2>1. CASE o.at = "publish"
    <3>1. Done(o.of, row, review, published', interrupted, input.flagged)
      BY <1>7, <1>8 DEF Done
    <3> QED
      BY <1>6, <1>7, <2>1, <3>1 DEF Sound, SavedAt
  <2>2. CASE o.at = "publishlink"
    <3>1. o.child # o.parent /\ o.parent = o.of /\ Has(row, o.child)
      BY <1>2, <2>2 DEF Sound
    <3> QED
      BY <1>6, <1>7, <1>8, <2>2, <3>1 DEF Sound, SavedAt
  <2> QED
    BY <1>2, <2>1, <2>2
<1> QED
  <2>1. published \subseteq published' /\ published' \subseteq Announcements
    BY <1>2, <1>3 DEF PostType
  <2> QED
    BY <1>1, <1>2, <1>3, <1>5, <1>6, <1>9, <2>1, QuietStep DEF PostType

\* link_child: the announcement is a child, or a parent that was announced.
LEMMA LinkKeeps ==
  ASSUME PostInv, TimePasses, P!Constants, NEW w \in Workers, P!Link(w) PROVE PostInv'
<1>1. PICK o : o = worker[w]
  OBVIOUS
<1>2. /\ o \in Works /\ o.at = "link" /\ o.of \in Announcements /\ PostType
      /\ Sound(o, row, review, published, interrupted, input.flagged)
      /\ o.child \in Announcements /\ o.parent \in Announcements /\ o.fields \in SUBSET Fields
  BY <1>1, AtWorker, WorkFacts DEF P!Link
<1>3. /\ UNCHANGED <<input, admin, review>> /\ queue' = queue /\ crossed' \in BOOLEAN
      /\ published' = published /\ interrupted' = interrupted /\ handled' = handled
      /\ row' = P!LinkChild(o.child, o.fields, since[w], o.parent)
  BY <1>1 DEF P!Link
<1>4. PICK x : x = [at |-> "decided", of |-> o.of]
  OBVIOUS
<1>5. /\ worker' = [worker EXCEPT ![w] = x] /\ x \in Works /\ x.at = "decided" /\ x.of = o.of
  BY <1>1, <1>2, <1>4 DEF P!Link, Works, Holding
<1>6. /\ o.of \notin input.flagged /\ o.child # o.parent
      /\ o.parent # o.of => o.child = o.of /\ Has(row, o.parent)
      /\ o.child # o.of => Has(row, o.child)
      /\ o.parent = o.of => Has(row, o.of) /\ Announced(row, review, published, o.of)
      /\ o.parent = o.of /\ o.of \notin interrupted => row[o.of].status = "active"
      /\ o.parent # o.of /\ o.of \notin interrupted => ~Has(row, o.of)
  BY <1>2 DEF Sound, SavedAt
<1>7. Has(row, o.parent)
  BY <1>6
<1>8. /\ row' \in Rows /\ Grows(row, review, row') /\ References(row', review)
      /\ Has(row', o.child) /\ row'[o.child].parent = o.parent /\ Has(row', o.parent)
      /\ \A b \in Announcements \ {o.child, o.parent} : row'[b] = row[b]
      /\ row'[o.parent].parent = row[o.parent].parent
      /\ row'[o.parent].status = row[o.parent].status
      /\ ~Has(row, o.child) => row'[o.child].status = "active"
  <2>1. PICK t \in Nat : t = since[w]
    BY <1>2 DEF PostType, Timed
  <2>2. PICK rw : rw = P!LinkChild(o.child, o.fields, t, o.parent)
    OBVIOUS
  <2>3. row' = rw
    BY <1>3, <2>1, <2>2
  <2>4. PICK c \in Announcements, p \in Announcements, f \in SUBSET Fields :
          c = o.child /\ p = o.parent /\ f = o.fields
    BY <1>2
  <2>5. /\ rw \in Rows /\ Grows(row, review, rw) /\ References(rw, review)
        /\ Linked(row, rw, c, f, t, p)
    BY <1>6, <1>7, <2>2, <2>4, LinkResult
  <2> QED
    BY <2>3, <2>4, <2>5 DEF Linked
<1>9. \A a \in Announcements : Has(row', a) /\ ~Has(row, a) => a = o.of
  BY <1>6, <1>7, <1>8 DEF Has
<1>10. Done(o.of, row', review, published, interrupted, input.flagged)
  <2>1. CASE o.parent = o.of
    <3>1. Announced(row', review, published, o.of)
      BY <1>6, <1>8, <2>1 DEF Announced
    <3> QED
      BY <1>6, <1>8, <2>1, <3>1 DEF Done
  <2>2. CASE o.parent # o.of
    <3>1. o.child = o.of /\ o.parent # P!NoOne
      BY <1>2, <1>6, <2>2 DEF P!Constants
    <3>2. Announced(row', review, published, o.of)
      BY <1>8, <3>1 DEF Announced
    <3> QED
      BY <1>6, <1>8, <2>2, <3>1, <3>2 DEF Done
  <2> QED
    BY <2>1, <2>2
<1>11. Sound(x, row', review, published, interrupted, input.flagged)
  BY <1>5, <1>6, <1>10 DEF Sound, SavedAt, Done
<1> QED
  <2>1. /\ review' \in Reviews /\ References(row', review') /\ CasesStay(review, review')
        /\ Sound(x, row', review', published', interrupted', input.flagged)
    BY <1>2, <1>3, <1>8, <1>11 DEF PostType, CasesStay
  <2> QED
    BY <1>1, <1>2, <1>3, <1>5, <1>8, <1>9, <2>1, WorkerStep DEF PostType

\* Saving for review leaves the case to be opened next.
LEMMA SaveForReviewKeeps ==
  ASSUME PostInv, TimePasses, P!Constants, NEW w \in Workers, P!SaveForReview(w) PROVE PostInv'
<1>1. PICK o : o = worker[w]
  OBVIOUS
<1>2. /\ o \in Works /\ o.at \in {"review", "flagged"} /\ o.of \in Announcements /\ PostType
      /\ Sound(o, row, review, published, interrupted, input.flagged)
      /\ o.at = "review" => o.candidate \in Announcements
  BY <1>1, AtWorker, WorkFacts DEF P!SaveForReview
<1>3. /\ UNCHANGED <<input, admin, crossed, review>> /\ queue' = queue
      /\ published' = published /\ interrupted' = interrupted /\ handled' = handled
      /\ row' = [row EXCEPT ![o.of] = P!Saved(o.of, "manual_review", since[w])]
  BY <1>1 DEF P!SaveForReview
<1>4. PICK x : x = [at |-> "enqueue", of |-> o.of,
                    reason |-> IF o.at = "review" THEN "possible_duplicate" ELSE "low_confidence",
                    related |-> IF o.at = "review" THEN o.candidate ELSE P!NoOne]
  OBVIOUS
<1>5. worker' = [worker EXCEPT ![w] = x]
  BY <1>1, <1>4 DEF P!SaveForReview
<1>6. /\ x \in Works /\ x.of = o.of /\ x.at = "enqueue"
      /\ o.at = "flagged" => x.reason = "low_confidence" /\ x.related = P!NoOne
      /\ o.at = "review" => x.related = o.candidate
  BY <1>2, <1>4 DEF Works, Opening, P!ReviewReason
<1>7. /\ row' \in Rows /\ Grows(row, review, row') /\ References(row', review)
      /\ Has(row', o.of) /\ \A b \in Announcements \ {o.of} : row'[b] = row[b]
  <2>1. PICK t \in Nat : t = since[w]
    BY <1>2 DEF PostType, Timed
  <2>2. PICK rw : rw = SavedRows(o.of, "manual_review", t)
    OBVIOUS
  <2>3. row' = rw /\ "manual_review" \in P!Status
    BY <1>3, <2>1, <2>2 DEF P!Status, SavedRows
  <2> QED
    BY <1>2, <2>2, <2>3, SaveResult
<1>8. \A a \in Announcements : Has(row', a) /\ ~Has(row, a) => a = o.of
  BY <1>7 DEF Has
<1>9. Sound(x, row', review, published, interrupted, input.flagged)
  <2>1. CASE o.at = "flagged"
    BY <1>6, <1>7, <2>1 DEF Sound, SavedAt
  <2>2. CASE o.at = "review"
    <3>1. o.of \notin input.flagged /\ o.candidate # o.of /\ Has(row, o.candidate)
      BY <1>2, <2>2 DEF Sound
    <3>2. Has(row', o.candidate)
      BY <1>2, <1>7, <2>2, <3>1 DEF Grows
    <3> QED
      BY <1>6, <1>7, <2>2, <3>1, <3>2 DEF Sound, SavedAt
  <2> QED
    BY <1>2, <2>1, <2>2
<1> QED
  <2>1. /\ review' \in Reviews /\ crossed' \in BOOLEAN /\ References(row', review')
        /\ Sound(x, row', review', published', interrupted', input.flagged)
        /\ CasesStay(review, review')
    BY <1>2, <1>3, <1>7, <1>9 DEF PostType, CasesStay
  <2> QED
    BY <1>1, <1>2, <1>3, <1>5, <1>6, <1>7, <1>8, <2>1, WorkerStep DEF PostType

\* A case that is opened, or whose status changes, keeps every other.
LEMMA CaseWritten ==
  ASSUME PostInv, NEW a \in Announcements, NEW r \in P!ReviewReason, NEW i \in P!Item, NEW rv,
         rv = [review EXCEPT ![a][r] = i], Has(row, a),
         i.related = P!NoOne \/ (i.related # a /\ Has(row, i.related))
  PROVE  /\ rv \in Reviews /\ CasesStay(review, rv) /\ References(row, rv)
         /\ rv[a][r] # P!NoItem
<1>1. row \in Rows /\ review \in Reviews /\ References(row, review)
  BY DEF PostInv, PostType
<1>2. i # P!NoItem
  BY DEF P!Item, P!NoItem
<1>3. PICK m : m = [review[a] EXCEPT ![r] = i]
  OBVIOUS
<1>4. /\ m \in [P!ReviewReason -> P!Item \cup {P!NoItem}] /\ m[r] = i
      /\ \A q \in P!ReviewReason \ {r} : m[q] = review[a][q]
  BY <1>1, <1>3 DEF Reviews
<1>5. rv = [review EXCEPT ![a] = m]
  BY <1>3
<1>6. rv \in Reviews /\ rv[a] = m /\ \A b \in Announcements \ {a} : rv[b] = review[b]
  BY <1>1, <1>4, <1>5 DEF Reviews
<1>7. CasesStay(review, rv)
  BY <1>2, <1>4, <1>6 DEF CasesStay
<1>8. References(row, rv)
  <2>1. ASSUME NEW b \in Announcements, NEW q \in P!ReviewReason, rv[b][q] # P!NoItem
        PROVE  /\ Has(row, b)
               /\ (rv[b][q].related = P!NoOne
                     \/ (rv[b][q].related # b /\ Has(row, rv[b][q].related)))
    <3>1. CASE b = a /\ q = r
      BY <1>4, <1>6, <3>1
    <3>2. CASE ~(b = a /\ q = r)
      <4>1. rv[b][q] = review[b][q]
        BY <1>4, <1>6, <3>2
      <4> QED
        BY <1>1, <2>1, <4>1 DEF References
    <3> QED
      BY <3>1, <3>2
  <2> QED
    BY <1>1, <2>1 DEF References
<1> QED
  BY <1>2, <1>4, <1>6, <1>7, <1>8

\* enqueue_manual_review_item: the announcement has its case.
LEMMA EnqueueKeeps ==
  ASSUME PostInv, TimePasses, P!Constants, NEW w \in Workers, P!Enqueue(w) PROVE PostInv'
<1>1. PICK o : o = worker[w]
  OBVIOUS
<1>2. /\ o \in Works /\ o.at = "enqueue" /\ o.of \in Announcements /\ PostType
      /\ Sound(o, row, review, published, interrupted, input.flagged)
      /\ o.reason \in P!ReviewReason /\ o.related \in Announcements \cup {P!NoOne}
  BY <1>1, AtWorker, WorkFacts DEF P!Enqueue
<1>3. /\ UNCHANGED <<input, admin, crossed, row>> /\ queue' = queue
      /\ published' = published /\ interrupted' = interrupted /\ handled' = handled
      /\ review' = P!Enqueued(o.of, o.reason, o.related)
  BY <1>1 DEF P!Enqueue
<1>4. PICK x : x = [at |-> "decided", of |-> o.of]
  OBVIOUS
<1>5. /\ worker' = [worker EXCEPT ![w] = x] /\ x \in Works /\ x.at = "decided" /\ x.of = o.of
  BY <1>1, <1>2, <1>4 DEF P!Enqueue, Works, Holding
<1>6. /\ o.of \in input.flagged => o.reason = "low_confidence"
      /\ (o.related = P!NoOne \/ (o.related # o.of /\ Has(row, o.related))) /\ Has(row, o.of)
  BY <1>2 DEF Sound, SavedAt
<1>7. /\ review' \in Reviews /\ CasesStay(review, review') /\ References(row, review')
      /\ review'[o.of][o.reason] # P!NoItem
  <2>1. CASE review[o.of][o.reason] # P!NoItem
    <3>1. review' = review
      BY <1>3, <2>1 DEF P!Enqueued
    <3> QED
      BY <2>1, <3>1 DEF PostInv, PostType, CasesStay
  <2>2. CASE review[o.of][o.reason] = P!NoItem
    <3>1. PICK i : i = [status |-> "pending", related |-> o.related]
      OBVIOUS
    <3>2. i \in P!Item /\ i.related = o.related
      BY <1>2, <3>1 DEF P!Item, P!ReviewStatus
    <3>3. PICK rv : rv = [review EXCEPT ![o.of][o.reason] = i]
      OBVIOUS
    <3>4. review' = rv
      BY <1>3, <2>2, <3>1, <3>3 DEF P!Enqueued
    <3>5. PICK a \in Announcements, r \in P!ReviewReason : a = o.of /\ r = o.reason
      BY <1>2
    <3>6. rv = [review EXCEPT ![a][r] = i]
      BY <3>3, <3>5
    <3> QED
      BY <1>6, <3>2, <3>4, <3>5, <3>6, CaseWritten
  <2> QED
    BY <2>1, <2>2
<1>8. HasCase(review', o.of)
  BY <1>2, <1>7 DEF HasCase
<1>9. Done(o.of, row, review', published, interrupted, input.flagged)
  BY <1>6, <1>7, <1>8 DEF Done, Announced
<1>10. Sound(x, row, review', published, interrupted, input.flagged)
  BY <1>5, <1>6, <1>9 DEF Sound, SavedAt
<1> QED
  <2>1. /\ row' \in Rows /\ crossed' \in BOOLEAN /\ References(row', review')
        /\ Grows(row, review, row')
        /\ Sound(x, row', review', published', interrupted', input.flagged)
    BY <1>2, <1>3, <1>7, <1>10 DEF PostType, Grows
  <2> QED
    BY <1>1, <1>2, <1>3, <1>5, <1>7, <2>1, WorkerStep DEF PostType

\* What an admin may hold, and which cases may be acted on.
LEMMA CaseFacts ==
  ASSUME PostInv, NEW a \in Announcements, NEW r \in P!ReviewReason, review[a][r] # P!NoItem
  PROVE  /\ review[a][r] \in P!Item /\ Has(row, a)
         /\ (review[a][r].related = P!NoOne
              \/ (/\ review[a][r].related \in Announcements /\ review[a][r].related # a
                  /\ Has(row, review[a][r].related)))
<1>1. review \in Reviews /\ References(row, review)
  BY DEF PostInv, PostType
<1>2. review[a][r] \in P!Item
  BY <1>1 DEF Reviews
<1>3. review[a][r].related \in Announcements \cup {P!NoOne}
  BY <1>2 DEF P!Item
<1> QED
  BY <1>1, <1>2, <1>3 DEF References

\* mark_as_new makes visible what has a case, and relinks nothing.
LEMMA MarkAsNewKeeps ==
  ASSUME PostInv, TimePasses, P!Constants, NEW a \in Announcements, NEW r \in P!ReviewReason,
         NEW e \in P!ReviewStatus, P!MarkAsNew(a, r, e)
  PROVE  PostInv' /\ \A b \in Announcements :
                       /\ Has(row', b) <=> Has(row, b)
                       /\ row'[b].parent = row[b].parent /\ row'[b].fields = row[b].fields
                       /\ row'[b].created = row[b].created
<1>1. /\ UNCHANGED <<input, queue, review, published, handled, worker>>
      /\ interrupted' = interrupted /\ crossed' \in BOOLEAN /\ row' = P!Activated(a)
      /\ review[a][r] # P!NoItem
  BY DEF P!MarkAsNew, P!MayAct
<1>2. admin' \in Storing /\ Stores(admin', review')
  BY DEF P!MarkAsNew, P!MayAct, Storing, Stores
<1>3. PostType /\ References(row, review)
  BY DEF PostInv
<1>4. HasCase(review, a)
  BY <1>1 DEF HasCase
<1>5. /\ row' \in Rows /\ Grows(row, review, row')
      /\ \A b \in Announcements :
           /\ Has(row', b) <=> Has(row, b)
           /\ row'[b].parent = row[b].parent /\ row'[b].fields = row[b].fields
           /\ row'[b].created = row[b].created
  <2>1. CASE Has(row, a) /\ row[a].status = "manual_review"
    <3>1. PICK m : m = [row[a] EXCEPT !.status = "active"]
      OBVIOUS
    <3>2. row[a] \in P!Row
      BY <1>3, <2>1, RowFacts DEF PostType
    <3>3. /\ m \in P!Row /\ m.parent = row[a].parent /\ m.fields = row[a].fields
          /\ m.created = row[a].created
      BY <3>1, <3>2 DEF P!Row, P!Status
    <3>4. row' = [row EXCEPT ![a] = m]
      BY <1>1, <2>1, <3>1 DEF P!Activated, P!Persisted, Has
    <3>5. /\ row' \in Rows /\ row'[a] = m /\ \A b \in Announcements \ {a} : row'[b] = row[b]
      BY <1>3, <3>3, <3>4 DEF PostType, Rows
    <3>6. Has(row', a)
      <4>1. PICK rw : rw = row'
        OBVIOUS
      <4> QED
        BY <3>3, <3>5, <4>1, RowFacts
    <3>7. \A b \in Announcements : Has(row', b) <=> Has(row, b)
      BY <2>1, <3>5, <3>6 DEF Has
    <3>8. Grows(row, review, row')
      BY <1>4, <2>1, <3>3, <3>5, <3>7 DEF Grows
    <3> QED
      BY <3>3, <3>5, <3>7, <3>8
  <2>2. CASE ~(Has(row, a) /\ row[a].status = "manual_review")
    <3>1. row' = row
      BY <1>1, <2>2 DEF P!Activated, P!Persisted, Has
    <3> QED
      BY <1>3, <3>1 DEF PostType, Grows
  <2> QED
    BY <2>1, <2>2
<1>6. References(row', review)
  <2>1. PICK rw : rw = row'
    OBVIOUS
  <2>2. \A b \in Announcements : Has(row, b) /\ row[b].parent # P!NoOne =>
          row[b].parent \in Announcements /\ Has(row, row[b].parent)
    BY <1>3, RowFacts DEF PostType, References
  <2>3. \A b \in Announcements : Has(rw, b) /\ rw[b].parent # P!NoOne => Has(rw, rw[b].parent)
    BY <1>5, <2>1, <2>2
  <2>4. References(rw, review)
    BY <1>3, <1>5, <2>1, <2>3, ReferencesStay DEF PostType
  <2> QED
    BY <2>1, <2>4
<1>7. PostInv'
  <2>1. review' \in Reviews /\ References(row', review') /\ CasesStay(review, review')
    BY <1>1, <1>3, <1>6 DEF PostType, CasesStay
  <2>2. interrupted' \subseteq Announcements
    BY <1>1, <1>3 DEF PostType
  <2> QED
    BY <1>1, <1>2, <1>5, <2>1, <2>2, AdminStep
<1> QED
  BY <1>5, <1>7

\* merge_related_duplicate links two announcements that have rows.
LEMMA MergeRelatedKeeps ==
  ASSUME PostInv, TimePasses, P!Constants, NEW a \in Announcements, NEW r \in P!ReviewReason,
         NEW e \in P!ReviewStatus, P!MergeRelated(a, r, e)
  PROVE  PostInv'
<1>1. PICK p : p = review[a][r].related
  OBVIOUS
<1>2. /\ UNCHANGED <<input, queue, review, published, handled, worker>>
      /\ interrupted' = interrupted /\ crossed' \in BOOLEAN
      /\ row' = P!LinkChild(a, row[a].fields, row[a].created, p) /\ p # P!NoOne
      /\ review[a][r] # P!NoItem
  BY <1>1 DEF P!MergeRelated, P!MayAct
<1>3. admin' \in Storing /\ Stores(admin', review')
  BY DEF P!MergeRelated, P!MayAct, Storing, Stores
<1>4. PostType
  BY DEF PostInv
<1>5. Has(row, a) /\ p \in Announcements /\ p # a /\ Has(row, p)
  BY <1>1, <1>2, CaseFacts
<1>6. row[a].fields \in SUBSET Fields /\ row[a].created \in Nat
  BY <1>4, <1>5, RowFacts DEF PostType
<1>7. /\ row' \in Rows /\ Grows(row, review, row') /\ References(row', review)
      /\ \A b \in Announcements \ {a, p} : row'[b] = row[b]
  <2>1. PICK f \in SUBSET Fields, t \in Nat : f = row[a].fields /\ t = row[a].created
    BY <1>6
  <2>2. PICK rw : rw = P!LinkChild(a, f, t, p)
    OBVIOUS
  <2>3. row' = rw
    BY <1>2, <2>1, <2>2
  <2>4. /\ rw \in Rows /\ Grows(row, review, rw) /\ References(rw, review)
        /\ Linked(row, rw, a, f, t, p)
    BY <1>5, <2>2, LinkResult
  <2> QED
    BY <2>3, <2>4 DEF Linked
<1>8. \A b \in Announcements : Has(row', b) => Has(row, b)
  BY <1>5, <1>7 DEF Has
<1> QED
  <2>1. review' \in Reviews /\ References(row', review') /\ CasesStay(review, review')
    BY <1>2, <1>4, <1>7 DEF PostType, CasesStay
  <2>2. interrupted' \subseteq Announcements
    BY <1>2, <1>4 DEF PostType
  <2> QED
    BY <1>2, <1>3, <1>7, <1>8, <2>1, <2>2, AdminStep

\* An admin step that writes no row.
LEMMA AdminQuiet ==
  ASSUME PostInv, TimePasses, admin' \in {P!NoAction} \cup Storing, Stores(admin', review'),
         crossed' = crossed,
         UNCHANGED <<input, queue, published, handled, worker, row>>,
         interrupted \subseteq interrupted', interrupted' \subseteq Announcements,
         review' \in Reviews, References(row, review'), CasesStay(review, review')
  PROVE  PostInv'
<1>1. PostType
  BY DEF PostInv
<1>2. row' = row /\ crossed' \in BOOLEAN
  BY <1>1 DEF PostType
<1>3. row' \in Rows /\ References(row', review') /\ Grows(row, review, row')
  BY <1>1, <1>2 DEF PostType, Grows
<1>4. \A a \in Announcements : Has(row', a) => Has(row, a)
  BY <1>2
<1> QED
  BY <1>2, <1>3, <1>4, AdminStep

\* reject writes no row.
LEMMA RejectKeeps ==
  ASSUME PostInv, TimePasses, NEW a \in Announcements, NEW r \in P!ReviewReason,
         NEW e \in P!ReviewStatus, P!Reject(a, r, e)
  PROVE  PostInv'
<1>1. /\ UNCHANGED <<input, queue, published, handled, worker, row>> /\ review' = review
      /\ interrupted' = interrupted /\ crossed' = crossed
      /\ admin' \in Storing /\ Stores(admin', review')
  BY DEF P!Reject, P!MayAct, Storing, Stores
<1>2. interrupted' \subseteq Announcements
  BY <1>1 DEF PostInv, PostType
<1>3. review' \in Reviews /\ References(row, review') /\ CasesStay(review, review')
  BY <1>1 DEF PostInv, PostType, CasesStay
<1> QED
  BY <1>1, <1>2, <1>3, AdminQuiet

\* The second write of an admin action finds its case.
LEMMA StoreItemKeeps ==
  ASSUME PostInv, TimePasses, P!StoreItem PROVE PostInv'
<1>1. /\ admin.at = "store" /\ PostType
      /\ UNCHANGED <<input, queue, published, handled, worker, row>>
      /\ interrupted' = interrupted /\ crossed' = crossed /\ admin' = P!NoAction
      /\ review' = P!Updated(admin.of, admin.reason, admin.status)
  BY DEF P!StoreItem, PostInv
<1>2. PICK a \in Announcements, r \in P!ReviewReason, st \in P!ReviewStatus :
        a = admin.of /\ r = admin.reason /\ st = admin.status
  BY <1>1 DEF PostType, P!NoAction, Storing, P!ReviewStatus
<1>3. review[a][r] # P!NoItem
  BY <1>1, <1>2 DEF PostInv, Stores
<1>4. PICK i : i = [review[a][r] EXCEPT !.status = st]
  OBVIOUS
<1>5. /\ review[a][r] \in P!Item /\ Has(row, a)
      /\ (review[a][r].related = P!NoOne
           \/ (review[a][r].related # a /\ Has(row, review[a][r].related)))
  BY <1>3, CaseFacts
<1>6. i \in P!Item /\ i.related = review[a][r].related
  BY <1>4, <1>5 DEF P!Item
<1>7. PICK rv : rv = [review EXCEPT ![a][r] = i]
  OBVIOUS
<1>8. review' = rv
  BY <1>1, <1>2, <1>4, <1>7 DEF P!Updated
<1>9. rv \in Reviews /\ CasesStay(review, rv) /\ References(row, rv)
  BY <1>5, <1>6, <1>7, CaseWritten
<1>10. Stores(admin', review')
  BY <1>1 DEF Stores, P!NoAction
<1>11. interrupted' \subseteq Announcements
  BY <1>1 DEF PostType
<1> QED
  BY <1>1, <1>8, <1>9, <1>10, <1>11, AdminQuiet

\* A restart between the two writes leaves the case as it was.
LEMMA AdminRestartKeeps ==
  ASSUME PostInv, TimePasses, P!AdminRestart PROVE PostInv'
<1>1. /\ admin.at # "idle" /\ PostType
      /\ UNCHANGED <<input, queue, published, handled, worker, row>>
      /\ interrupted' = interrupted \cup {admin.of} /\ crossed' = crossed
      /\ admin' = P!NoAction /\ review' = review
  BY DEF P!AdminRestart, PostInv
<1>2. admin.of \in Announcements
  BY <1>1 DEF PostType, P!NoAction, Storing
<1>3. interrupted \subseteq interrupted' /\ interrupted' \subseteq Announcements
  BY <1>1, <1>2 DEF PostType
<1>4. Stores(admin', review')
  BY <1>1 DEF Stores, P!NoAction
<1>5. review' \in Reviews /\ References(row, review') /\ CasesStay(review, review')
  BY <1>1 DEF PostInv, PostType, CasesStay
<1> QED
  BY <1>1, <1>3, <1>4, <1>5, AdminQuiet

\* Initially nothing has a row, a case or a worker.
LEMMA PostInitInv ==
  ASSUME P!Init PROVE PostInv
<1>1. /\ input \in Inputs /\ queue = Announcements
      /\ row = [a \in Announcements |-> P!Absent]
      /\ review = [a \in Announcements |-> [r \in P!ReviewReason |-> P!NoItem]]
      /\ published = {} /\ handled = {} /\ worker = [w \in Workers |-> P!Idle]
      /\ admin = P!NoAction /\ interrupted = {} /\ crossed = FALSE
      /\ clock = 1 /\ since = [w \in Workers |-> 0]
  BY DEF P!Init
<1>2. /\ row \in Rows /\ \A a \in Announcements : ~Has(row, a)
  BY <1>1 DEF Rows, Has
<1>3. /\ review \in Reviews
      /\ \A a \in Announcements, r \in P!ReviewReason : review[a][r] = P!NoItem
  BY <1>1 DEF Reviews
<1>4. /\ worker \in [Workers -> Works] /\ \A w \in Workers : worker[w].at = "idle"
  BY <1>1 DEF Works, P!Idle
<1>5. PostType
  BY <1>1, <1>2, <1>3, <1>4 DEF PostType, Timed
<1>6. OnePlace /\ Untouched
  BY <1>1, <1>2, <1>4 DEF OnePlace, Untouched
<1>7. References(row, review)
  BY <1>2, <1>3 DEF References
<1>8. AllSound /\ AllDone /\ Stores(admin, review)
  BY <1>1, <1>4 DEF AllSound, AllDone, Sound, Stores, P!NoAction
<1> QED
  BY <1>5, <1>6, <1>7, <1>8 DEF PostInv

\* Time goes on with every message read.
LEMMA TimeStep ==
  ASSUME Timed, [P!Next]_(P!vars) PROVE TimePasses
<1>1. ASSUME NEW w \in Workers, P!Process(w) PROVE TimePasses
  <2>1. CASE P!Take(w)
    BY <2>1 DEF P!Take, P!TimeOf, Timed, TimePasses
  <2>2. CASE P!Acknowledge(w) \/ P!Fail(w) \/ P!LoseConnection(w)
    BY <2>2 DEF P!Acknowledge, P!Fail, P!LoseConnection, Timed, TimePasses
  <2>3. CASE P!Evaluate(w) \/ P!SelectParent(w) \/ P!SaveParent(w) \/ P!PublishPersisted(w)
    BY <2>3 DEF P!Evaluate, P!SelectParent, P!SaveParent, P!PublishPersisted, P!deliveries,
                Timed, TimePasses
  <2>4. CASE P!Link(w) \/ P!SaveForReview(w) \/ P!Enqueue(w)
    BY <2>4 DEF P!Link, P!SaveForReview, P!Enqueue, P!deliveries, Timed, TimePasses
  <2> QED
    BY <1>1, <2>1, <2>2, <2>3, <2>4 DEF P!Process
<1>2. ASSUME NEW a \in Announcements, NEW r \in P!ReviewReason, NEW e \in P!ReviewStatus,
             P!MarkAsNew(a, r, e) \/ P!MergeRelated(a, r, e) \/ P!Reject(a, r, e)
      PROVE  TimePasses
  BY <1>2 DEF P!MarkAsNew, P!MergeRelated, P!Reject, P!deliveries, Timed, TimePasses
<1>3. CASE P!StoreItem \/ P!AdminRestart \/ UNCHANGED P!vars
  BY <1>3 DEF P!StoreItem, P!AdminRestart, P!vars, P!deliveries, Timed, TimePasses
<1> QED
  BY <1>1, <1>2, <1>3 DEF P!Next, P!AdminActs

\* Every step of workers and admins keeps the invariant.
LEMMA PostStep ==
  ASSUME P!Constants, PostInv, [P!Next]_(P!vars) PROVE PostInv'
<1>0. TimePasses
  BY TimeStep DEF PostInv, PostType
<1>1. ASSUME NEW w \in Workers, P!Process(w) PROVE PostInv'
  BY <1>0, <1>1, TakeKeeps, EvaluateKeeps, SelectParentKeeps, SaveParentKeeps, PublishKeeps, LinkKeeps,
     SaveForReviewKeeps, EnqueueKeeps, AcknowledgeKeeps, FailKeeps,
     LoseConnectionKeeps DEF P!Process
<1>2. CASE P!AdminActs
  <2>1. PICK a \in Announcements, r \in P!ReviewReason, e \in P!ReviewStatus :
          P!MarkAsNew(a, r, e) \/ P!MergeRelated(a, r, e) \/ P!Reject(a, r, e)
    BY <1>2 DEF P!AdminActs
  <2> QED
    BY <1>0, <2>1, MarkAsNewKeeps, MergeRelatedKeeps, RejectKeeps
<1>3. CASE UNCHANGED P!vars
  <2>1. /\ UNCHANGED <<input, queue, published, handled, worker, row>> /\ review' = review
        /\ interrupted' = interrupted /\ crossed' = crossed /\ admin' = admin
    BY <1>3 DEF P!vars
  <2>2. /\ admin' \in {P!NoAction} \cup Storing /\ Stores(admin', review')
        /\ interrupted' \subseteq Announcements
    BY <2>1 DEF PostInv, PostType
  <2>3. review' \in Reviews /\ References(row, review') /\ CasesStay(review, review')
    BY <2>1 DEF PostInv, PostType, CasesStay
  <2> QED
    BY <1>0, <2>1, <2>2, <2>3, AdminQuiet
<1> QED
  BY <1>0, <1>1, <1>2, <1>3, StoreItemKeeps, AdminRestartKeeps DEF P!Next

\* The post-AI stage keeps its invariant.
LEMMA PostInvariant ==
  ASSUME P!Constants PROVE P!Spec => []PostInv
BY PostInitInv, PostStep, PTL DEF P!Spec

\* Whatever fails or is redelivered, and whatever admins do in between, an announcement whose
\* message was acknowledged has a row, and one left in manual review has a case an admin can see,
\* unless its own processing failed part way (post_ai_dedup.py, process).
THEOREM HandledReachable ==
  ASSUME P!Constants PROVE P!Spec => []HandledIsReachable
<1>1. PostInv => P!HandledIsReachable
  BY DEF PostInv, AllDone, Done, HasCase, Has, P!HandledIsReachable, P!Persisted
<1> QED
  BY <1>1, PostInvariant, PTL DEF HandledIsReachable

\* Whatever fails, an announcement the AI stage flagged has its review case by the time its
\* message is acknowledged.
THEOREM FlaggedReviewed ==
  ASSUME P!Constants PROVE P!Spec => []FlaggedIsReviewed
<1>1. PostInv => P!FlaggedIsReviewed
  BY DEF PostInv, AllDone, Done, P!FlaggedIsReviewed, P!Flagged
<1> QED
  BY <1>1, PostInvariant, PTL DEF FlaggedIsReviewed

\* An acknowledged announcement that is a visible parent was announced to the subscribers, or
\* became visible through its review case.
THEOREM VisiblePublished ==
  ASSUME P!Constants PROVE P!Spec => []VisibleIsPublished
<1>1. PostInv => P!VisibleIsPublished
  BY DEF PostInv, AllDone, Done, Announced, HasCase, Has, P!VisibleIsPublished, P!IsParent,
         P!Persisted
<1> QED
  BY <1>1, PostInvariant, PTL DEF VisibleIsPublished

-----------------------------------------------------------------------------
(* Post-AI stage, as long as nothing failed and no write crossed another   *)
(* process's decision: what a worker decided still fits the rows.          *)

Undone == {"merge", "saveparent", "publishlink", "link"}

CalmOk(x, rw, flds) ==
  /\ x.at = "merge" => IsTop(rw, x.candidate)
  /\ x.at \in {"saveparent", "publishlink", "link"} =>
       /\ x.parent = x.of => /\ IsTop(rw, x.child) /\ x.fields = rw[x.child].fields
                             /\ x.at # "saveparent" => IsTop(rw, x.of)
       /\ x.parent # x.of => IsTop(rw, x.parent) /\ x.fields = flds[x.of]

Covered(rw) ==
  \A a \in Announcements :
    Has(rw, a) /\ rw[a].parent # P!NoOne => rw[a].fields \subseteq rw[rw[a].parent].fields

CalmInv ==
  ~crossed /\ interrupted = {} =>
    Covered(row) /\ \A w \in Workers : CalmOk(worker[w], row, input.fields)

\* Rows are added as parents, and none is relinked or refilled.
RowsStay(rw, rw2) ==
  \A b \in Announcements :
    /\ Has(rw, b) => /\ Has(rw2, b) /\ rw2[b].parent = rw[b].parent
                     /\ rw2[b].fields = rw[b].fields /\ rw2[b].created = rw[b].created
    /\ ~Has(rw, b) /\ Has(rw2, b) => rw2[b].parent = P!NoOne

\* A decision fits rows that were not relinked.
LEMMA CalmStays ==
  ASSUME NEW rw, NEW rw2, NEW flds, NEW x \in Works, RowsStay(rw, rw2), CalmOk(x, rw, flds)
  PROVE  CalmOk(x, rw2, flds)
<1>1. /\ x.at = "merge" => x.candidate \in Announcements
      /\ x.at \in {"saveparent", "publishlink", "link"} =>
           x.of \in Announcements /\ x.child \in Announcements /\ x.parent \in Announcements
  BY WorkFacts
<1>2. \A b \in Announcements : IsTop(rw, b) => IsTop(rw2, b) /\ rw2[b].fields = rw[b].fields
  BY DEF IsTop, RowsStay
<1> QED
  BY <1>1, <1>2 DEF CalmOk

\* Parents keep covering their children when rows are only added.
LEMMA CoveredStays ==
  ASSUME NEW rw \in Rows, NEW rw2, NEW rv, References(rw, rv), RowsStay(rw, rw2), Covered(rw)
  PROVE  Covered(rw2)
<1> SUFFICES ASSUME NEW a \in Announcements, Has(rw2, a), rw2[a].parent # P!NoOne
             PROVE  rw2[a].fields \subseteq rw2[rw2[a].parent].fields
  BY DEF Covered
<1>1. Has(rw, a) /\ rw2[a].parent = rw[a].parent /\ rw2[a].fields = rw[a].fields
  BY DEF RowsStay
<1>2. rw[a].parent \in Announcements /\ Has(rw, rw[a].parent)
  BY <1>1, RowFacts DEF References
<1>3. rw2[rw[a].parent].fields = rw[rw[a].parent].fields
  BY <1>2 DEF RowsStay
<1> QED
  BY <1>1, <1>3 DEF Covered

\* save_parent relinks nothing.
LEMMA SavedRowsStay ==
  ASSUME PostInv, P!Constants, NEW a \in Announcements, NEW st \in P!Status, NEW t \in Nat
  PROVE  RowsStay(row, SavedRows(a, st, t))
<1>1. PICK rw : rw = SavedRows(a, st, t)
  OBVIOUS
<1>2. /\ \A b \in Announcements \ {a} : rw[b] = row[b]
      /\ Has(row, a) => rw = row
      /\ ~Has(row, a) => rw[a].parent = P!NoOne
  BY <1>1, SaveResult
<1> QED
  BY <1>1, <1>2 DEF RowsStay, Has

\* What a worker's step that links nothing has to show.
LEMMA CalmWorker ==
  ASSUME PostInv, CalmInv, NEW w \in Workers, NEW x \in Works, worker' = [worker EXCEPT ![w] = x],
         RowsStay(row, row'), input' = input, crossed' = crossed, interrupted \subseteq interrupted',
         ~crossed /\ interrupted = {} => CalmOk(x, row', input.fields)
  PROVE  CalmInv'
<1> SUFFICES ASSUME ~crossed', interrupted' = {}
             PROVE  /\ Covered(row')
                    /\ \A v \in Workers : CalmOk(worker'[v], row', input'.fields)
  BY DEF CalmInv
<1>1. ~crossed /\ interrupted = {}
  OBVIOUS
<1>2. Covered(row) /\ \A v \in Workers : CalmOk(worker[v], row, input.fields)
  BY <1>1 DEF CalmInv
<1>3. PICK rw : rw = row'
  OBVIOUS
<1>4. row \in Rows /\ References(row, review) /\ worker \in [Workers -> Works]
  BY DEF PostInv, PostType
<1>5. Covered(rw)
  BY <1>2, <1>3, <1>4, CoveredStays
<1>6. ASSUME NEW v \in Workers PROVE CalmOk(worker'[v], rw, input.fields)
  <2>1. CASE v = w
    BY <1>1, <1>3, <1>4, <2>1
  <2>2. CASE v # w
    <3>1. PICK y \in Works : y = worker[v]
      BY <1>4
    <3>2. CalmOk(y, rw, input.fields)
      BY <1>2, <1>3, <3>1, CalmStays
    <3>3. worker'[v] = y
      BY <1>4, <2>2, <3>1
    <3> QED
      BY <3>2, <3>3
  <2> QED
    BY <2>1, <2>2
<1> QED
  BY <1>3, <1>5, <1>6

\* A step of the others that relinks nothing.
LEMMA CalmOther ==
  ASSUME PostInv, CalmInv, worker' = worker, input' = input, RowsStay(row, row'),
         ~crossed' => ~crossed, interrupted \subseteq interrupted'
  PROVE  CalmInv'
<1> SUFFICES ASSUME ~crossed', interrupted' = {}
             PROVE  /\ Covered(row')
                    /\ \A v \in Workers : CalmOk(worker'[v], row', input'.fields)
  BY DEF CalmInv
<1>1. ~crossed /\ interrupted = {}
  OBVIOUS
<1>2. Covered(row) /\ \A v \in Workers : CalmOk(worker[v], row, input.fields)
  BY <1>1 DEF CalmInv
<1>3. PICK rw : rw = row'
  OBVIOUS
<1>4. row \in Rows /\ References(row, review) /\ worker \in [Workers -> Works]
  BY DEF PostInv, PostType
<1>5. Covered(rw)
  BY <1>2, <1>3, <1>4, CoveredStays
<1>6. ASSUME NEW v \in Workers PROVE CalmOk(worker[v], rw, input.fields)
  <2>1. PICK y \in Works : y = worker[v]
    BY <1>4
  <2>2. CalmOk(y, rw, input.fields)
    BY <1>2, <1>3, <2>1, CalmStays
  <2> QED
    BY <2>1, <2>2
<1> QED
  BY <1>3, <1>5, <1>6

\* A parent of parents gathers what its new child has.
LEMMA CoveredLinked ==
  ASSUME PostInv, P!Constants, NEW c \in Announcements, NEW p \in Announcements, c # p,
         NEW f \in SUBSET Fields, NEW t \in Nat, NEW rw, rw = P!LinkChild(c, f, t, p),
         IsTop(row, p), Has(row, c) => f = row[c].fields, Covered(row)
  PROVE  Covered(rw)
<1>1. row \in Rows /\ References(row, review) /\ Has(row, p)
  BY DEF PostInv, PostType, IsTop
<1>2. /\ rw[c].parent = p /\ \A b \in Announcements \ {c, p} : rw[b] = row[b]
      /\ rw[p].parent = row[p].parent
      /\ ~Has(row, c) => rw[c].fields = f
      /\ Has(row, c) => rw[c].fields = row[c].fields
      /\ rw = row \/ rw[p].fields = row[p].fields \cup f
  <2>1. Linked(row, rw, c, f, t, p)
    BY <1>1, LinkResult
  <2> QED
    BY <2>1 DEF Linked
<1>3. CASE rw = row
  BY <1>3
<1>4. CASE rw[p].fields = row[p].fields \cup f
  <2> SUFFICES ASSUME NEW a \in Announcements, Has(rw, a), rw[a].parent # P!NoOne
               PROVE  rw[a].fields \subseteq rw[rw[a].parent].fields
    BY DEF Covered
  <2>1. CASE a = c
    BY <1>2, <1>4, <2>1
  <2>2. CASE a = p
    BY <1>2, <2>2 DEF IsTop
  <2>3. CASE a \notin {c, p}
    <3>1. rw[a] = row[a] /\ Has(row, a)
      BY <1>2, <2>3 DEF Has
    <3>2. PICK q : q = row[a].parent
      OBVIOUS
    <3>3. q \in Announcements /\ Has(row, q) /\ row[a].fields \subseteq row[q].fields
      BY <1>1, <3>1, <3>2, RowFacts DEF References, Covered
    <3>4. row[q].fields \subseteq rw[q].fields
      BY <1>2, <1>4, <3>3
    <3> QED
      BY <3>1, <3>2, <3>3, <3>4
  <2> QED
    BY <2>1, <2>2, <2>3
<1> QED
  BY <1>2, <1>3, <1>4

\* Steps after which the worker has no decision to carry out.
LEMMA CalmQuiet ==
  ASSUME PostInv, CalmInv, NEW w \in Workers, NEW x, worker' = [worker EXCEPT ![w] = x],
         x \in Works, x.at \notin Undone, RowsStay(row, row'), input' = input, crossed' = crossed,
         interrupted \subseteq interrupted'
  PROVE  CalmInv'
<1>1. CalmOk(x, row', input.fields)
  BY DEF CalmOk, Undone
<1> QED
  BY <1>1, CalmWorker

\* Taking, reviewing, acknowledging and failing leave the worker no link to make.
LEMMA CalmSimple ==
  ASSUME P!Constants, PostInv, CalmInv, NEW w \in Workers,
         \/ P!Take(w) \/ P!Acknowledge(w) \/ P!Fail(w) \/ P!Enqueue(w) \/ P!SaveForReview(w)
         \/ P!LoseConnection(w)
  PROVE  CalmInv'
<1>1. PICK o : o = worker[w]
  OBVIOUS
<1>2. /\ o \in Works /\ PostType
      /\ o.at # "idle" => o.of \in Announcements
      /\ o.at = "review" => o.candidate \in Announcements
  BY <1>1, AtWorker, WorkFacts
<1>3. RowsStay(row, row)
  BY DEF RowsStay
<1>4. CASE P!Take(w)
  <2>1. PICK a \in queue : worker' = [worker EXCEPT ![w] =
                        [at |-> IF P!Flagged(a) THEN "flagged" ELSE "evaluate", of |-> a]]
    BY <1>4 DEF P!Take
  <2>2. PICK x : x = [at |-> IF P!Flagged(a) THEN "flagged" ELSE "evaluate", of |-> a]
    OBVIOUS
  <2>3. x \in Works /\ x.at \notin Undone /\ worker' = [worker EXCEPT ![w] = x]
    BY <1>2, <2>1, <2>2 DEF Works, Holding, Undone, PostType
  <2>4. row' = row /\ input' = input /\ crossed' = crossed /\ interrupted' = interrupted
    BY <1>4 DEF P!Take
  <2> QED
    BY <1>3, <2>3, <2>4, CalmQuiet
<1>5. CASE P!Acknowledge(w) \/ P!Fail(w)
  <2>1. worker' = [worker EXCEPT ![w] = P!Idle] /\ P!Idle \in Works /\ P!Idle.at \notin Undone
    BY <1>5 DEF P!Acknowledge, P!Fail, Works, P!Idle, Undone
  <2>2. /\ row' = row /\ input' = input /\ crossed' = crossed
        /\ interrupted \subseteq interrupted'
    BY <1>5 DEF P!Acknowledge, P!Fail
  <2> QED
    BY <1>3, <2>1, <2>2, CalmQuiet
<1>6. CASE P!Enqueue(w)
  <2>1. PICK x : x = [at |-> "decided", of |-> o.of]
    OBVIOUS
  <2>2. x \in Works /\ x.at \notin Undone /\ worker' = [worker EXCEPT ![w] = x]
    BY <1>1, <1>2, <1>6, <2>1 DEF P!Enqueue, Works, Holding, Undone
  <2>3. row' = row /\ input' = input /\ crossed' = crossed /\ interrupted' = interrupted
    BY <1>6 DEF P!Enqueue
  <2> QED
    BY <1>3, <2>2, <2>3, CalmQuiet
<1>7. CASE P!SaveForReview(w)
  <2>1. PICK x : x = [at |-> "enqueue", of |-> o.of,
                      reason |-> IF o.at = "review" THEN "possible_duplicate"
                                 ELSE "low_confidence",
                      related |-> IF o.at = "review" THEN o.candidate ELSE P!NoOne]
    OBVIOUS
  <2>2. x \in Works /\ x.at \notin Undone /\ worker' = [worker EXCEPT ![w] = x]
    BY <1>1, <1>2, <1>7, <2>1 DEF P!SaveForReview, Works, Opening, Undone, P!ReviewReason
  <2>3. /\ input' = input /\ crossed' = crossed /\ interrupted' = interrupted
        /\ row' = SavedRows(o.of, "manual_review", since[w]) /\ o.of \in Announcements
    BY <1>1, <1>2, <1>7 DEF P!SaveForReview, SavedRows
  <2>4. RowsStay(row, row')
    BY <1>2, <2>3, SavedRowsStay DEF P!Status, PostType, Timed
  <2> QED
    BY <2>2, <2>3, <2>4, CalmQuiet
<1>8. CASE P!LoseConnection(w)
  <2>1. /\ row' = row /\ worker' = worker /\ input' = input /\ crossed' = crossed
        /\ interrupted \subseteq interrupted'
    BY <1>8 DEF P!LoseConnection
  <2> QED
    BY <1>3, <2>1, CalmOther
<1> QED
  BY <1>4, <1>5, <1>6, <1>7, <1>8

\* The candidate of a merge is a parent when it is read.
LEMMA CalmEvaluate ==
  ASSUME P!Constants, PostInv, CalmInv, NEW w \in Workers, P!Evaluate(w) PROVE CalmInv'
<1>1. PICK o : o = worker[w]
  OBVIOUS
<1>2. o \in Works /\ o.of \in Announcements /\ PostType
  BY <1>1, AtWorker, WorkFacts DEF P!Evaluate
<1>3. row' = row /\ input' = input /\ crossed' = crossed /\ interrupted' = interrupted
  BY DEF P!Evaluate
<1>4. RowsStay(row, row')
  BY <1>3 DEF RowsStay
<1>5. CASE worker' = [worker EXCEPT ![w] = [at |-> "new", of |-> o.of]]
  <2>1. PICK x : x = [at |-> "new", of |-> o.of]
    OBVIOUS
  <2>2. x \in Works /\ x.at \notin Undone /\ worker' = [worker EXCEPT ![w] = x]
    BY <1>2, <1>5, <2>1 DEF Works, Holding, Undone
  <2> QED
    BY <1>3, <1>4, <2>2, CalmQuiet
<1>6. ASSUME NEW c \in P!Candidates(o.of),
             worker' = [worker EXCEPT ![w] =
                          [at |-> P!Likeness(o.of, c), of |-> o.of, candidate |-> c]]
      PROVE  CalmInv'
  <2>1. c \in Announcements /\ c # o.of /\ IsTop(row, c)
    BY <1>6 DEF P!Candidates, P!IsParent, P!Persisted, Has, IsTop
  <2>2. P!Likeness(o.of, c) \in {"merge", "review", "new"}
    BY <1>2, <2>1 DEF P!Likeness, P!Constants, P!Verdict, PostType
  <2>3. PICK x : x = [at |-> P!Likeness(o.of, c), of |-> o.of, candidate |-> c]
    OBVIOUS
  <2>4. /\ x \in Works /\ x.at \in {"merge", "review", "new"} /\ x.candidate = c
        /\ worker' = [worker EXCEPT ![w] = x]
    BY <1>2, <1>6, <2>1, <2>2, <2>3 DEF Works, Weighing
  <2>5. CalmOk(x, row', input.fields)
    BY <1>3, <2>1, <2>4 DEF CalmOk
  <2> QED
    BY <1>3, <1>4, <2>4, <2>5, CalmWorker
<1> QED
  BY <1>1, <1>5, <1>6 DEF P!Evaluate

\* The planned link goes to a parent, with the fields of the child.
LEMMA CalmSelectParent ==
  ASSUME P!Constants, PostInv, CalmInv, NEW w \in Workers, P!SelectParent(w) PROVE CalmInv'
<1>1. PICK o : o = worker[w]
  OBVIOUS
<1>2. /\ o \in Works /\ o.at = "merge" /\ o.of \in Announcements /\ PostType
      /\ Sound(o, row, review, published, interrupted, input.flagged)
      /\ o.candidate \in Announcements
  BY <1>1, AtWorker, WorkFacts DEF P!SelectParent
<1>3. row' = row /\ input' = input /\ crossed' = crossed /\ interrupted' = interrupted
  BY DEF P!SelectParent
<1>4. RowsStay(row, row')
  BY <1>3 DEF RowsStay
<1>5. PICK x : x = IF P!CandidateIsParent(o.of, since[w], o.candidate)
                   THEN [at |-> "link", of |-> o.of, child |-> o.of, parent |-> o.candidate,
                         fields |-> input.fields[o.of]]
                   ELSE [at |-> "saveparent", of |-> o.of, child |-> o.candidate,
                         parent |-> o.of, fields |-> row[o.candidate].fields]
  OBVIOUS
<1>6. worker' = [worker EXCEPT ![w] = x]
  BY <1>1, <1>5 DEF P!SelectParent
<1>7. /\ input.fields[o.of] \in SUBSET Fields /\ o.candidate # o.of
      /\ row[o.candidate].fields \in SUBSET Fields
  BY <1>2, RowFacts DEF PostType, P!Constants, Sound
<1>8. /\ x \in Works /\ x.of = o.of
      /\ \/ /\ x.at = "link" /\ x.parent = o.candidate /\ x.fields = input.fields[o.of]
         \/ /\ x.at = "saveparent" /\ x.child = o.candidate /\ x.parent = o.of
            /\ x.fields = row[o.candidate].fields
  BY <1>2, <1>5, <1>7 DEF Works, Linking
<1>9. ~crossed /\ interrupted = {} => CalmOk(x, row', input.fields)
  <2>1. ~crossed /\ interrupted = {} => IsTop(row, o.candidate)
    BY <1>1, <1>2 DEF CalmInv, CalmOk
  <2> QED
    BY <1>3, <1>7, <1>8, <2>1 DEF CalmOk
<1> QED
  BY <1>3, <1>4, <1>6, <1>8, <1>9, CalmWorker

\* An announcement that takes over a stored one is saved as a parent.
LEMMA CalmSaveParent ==
  ASSUME P!Constants, PostInv, CalmInv, NEW w \in Workers, P!SaveParent(w) PROVE CalmInv'
<1>1. PICK o : o = worker[w]
  OBVIOUS
<1>2. /\ o \in Works /\ o.at \in {"new", "saveparent"} /\ o.of \in Announcements /\ PostType
      /\ Sound(o, row, review, published, interrupted, input.flagged)
      /\ o \in Holding \cup Weighing \cup Linking
  BY <1>1, AtWorker, WorkFacts DEF P!SaveParent
<1>3. /\ input' = input /\ crossed' = crossed /\ interrupted' = interrupted
      /\ row' = SavedRows(o.of, "active", since[w])
  BY <1>1 DEF P!SaveParent, SavedRows
<1>4. RowsStay(row, row')
  BY <1>2, <1>3, SavedRowsStay DEF P!Status, PostType, Timed
<1>5. PICK x : x = [o EXCEPT !.at = IF o.at = "new" THEN "publish" ELSE "publishlink"]
  OBVIOUS
<1>6. worker' = [worker EXCEPT ![w] = x]
  BY <1>1, <1>5 DEF P!SaveParent
<1>7. /\ x \in Works /\ x.of = o.of
      /\ o.at = "new" => x.at = "publish"
      /\ o.at = "saveparent" => /\ x.at = "publishlink" /\ x.child = o.child
                                /\ x.parent = o.parent /\ x.fields = o.fields
  BY <1>2, <1>5 DEF Works, Holding, Weighing, Linking
<1>8. CASE o.at = "new"
  BY <1>3, <1>4, <1>6, <1>7, <1>8, CalmQuiet DEF Undone
<1>9. CASE o.at = "saveparent"
  <2> SUFFICES ASSUME ~crossed, interrupted = {} PROVE CalmOk(x, row', input.fields)
    BY <1>3, <1>4, <1>6, <1>7, CalmWorker
  <2>1. CalmOk(o, row, input.fields)
    BY <1>1 DEF CalmInv
  <2>2. o.parent = o.of /\ ~Has(row, o.of)
    BY <1>2, <1>9 DEF Sound, SavedAt
  <2>3. PICK rw : rw = row'
    OBVIOUS
  <2>4. CalmOk(o, rw, input.fields)
    BY <1>2, <1>4, <2>1, <2>3, CalmStays
  <2>5. IsTop(rw, o.of)
    <3>1. Has(rw, o.of)
      <4>1. PICK n : n = P!Saved(o.of, "active", since[w])
        OBVIOUS
      <4>2. n # P!Absent
        BY <2>2, <4>1 DEF P!Saved, P!Persisted, Has, P!Absent
      <4> QED
        BY <1>2, <1>3, <2>3, <4>1, <4>2 DEF SavedRows, PostType, Rows, Has
    <3> QED
      BY <1>2, <1>4, <2>2, <2>3, <3>1 DEF RowsStay, IsTop
  <2> QED
    BY <1>7, <1>9, <2>2, <2>3, <2>4, <2>5 DEF CalmOk
<1> QED
  BY <1>2, <1>8, <1>9

\* Announcing a parent does not touch the planned link.
LEMMA CalmPublish ==
  ASSUME P!Constants, PostInv, CalmInv, NEW w \in Workers, P!PublishPersisted(w) PROVE CalmInv'
<1>1. PICK o : o = worker[w]
  OBVIOUS
<1>2. /\ o \in Works /\ o.at \in {"publish", "publishlink"} /\ o.of \in Announcements
      /\ PostType /\ o \in Holding \cup Weighing \cup Linking
  BY <1>1, AtWorker, WorkFacts DEF P!PublishPersisted
<1>3. row' = row /\ input' = input /\ crossed' = crossed /\ interrupted' = interrupted
  BY DEF P!PublishPersisted
<1>4. RowsStay(row, row')
  BY <1>3 DEF RowsStay
<1>5. PICK x : x = [o EXCEPT !.at = IF o.at = "publish" THEN "decided" ELSE "link"]
  OBVIOUS
<1>6. worker' = [worker EXCEPT ![w] = x]
  BY <1>1, <1>5 DEF P!PublishPersisted
<1>7. /\ x \in Works /\ x.of = o.of
      /\ o.at = "publish" => x.at = "decided"
      /\ o.at = "publishlink" => /\ x.at = "link" /\ x.child = o.child /\ x.parent = o.parent
                                 /\ x.fields = o.fields
  BY <1>2, <1>5 DEF Works, Holding, Weighing, Linking
<1>8. ~crossed /\ interrupted = {} => CalmOk(x, row', input.fields)
  <2>1. ~crossed /\ interrupted = {} => CalmOk(o, row, input.fields)
    BY <1>1 DEF CalmInv
  <2> QED
    BY <1>2, <1>3, <1>7, <2>1 DEF CalmOk
<1> QED
  BY <1>3, <1>4, <1>6, <1>7, <1>8, CalmWorker

\* A link no decision crosses leaves the parent covering its children.
LEMMA CalmLink ==
  ASSUME P!Constants, PostInv, CalmInv, NEW w \in Workers, P!Link(w) PROVE CalmInv'
<1> SUFFICES ASSUME ~crossed', interrupted' = {}
             PROVE  /\ Covered(row')
                    /\ \A v \in Workers : CalmOk(worker'[v], row', input'.fields)
  BY DEF CalmInv
<1>1. PICK o : o = worker[w]
  OBVIOUS
<1>2. /\ o \in Works /\ o.at = "link" /\ o.of \in Announcements /\ PostType
      /\ Sound(o, row, review, published, interrupted, input.flagged)
      /\ o.child \in Announcements /\ o.parent \in Announcements /\ o.fields \in SUBSET Fields
  BY <1>1, AtWorker, WorkFacts DEF P!Link
<1>3. /\ ~crossed /\ interrupted = {} /\ P!Deciding = {w}
      /\ row' = P!LinkChild(o.child, o.fields, since[w], o.parent)
      /\ worker' = [worker EXCEPT ![w] = [at |-> "decided", of |-> o.of]]
  BY <1>1 DEF P!Link
<1>4. Covered(row) /\ CalmOk(o, row, input.fields)
  BY <1>1, <1>3 DEF CalmInv
<1>5. /\ o.child # o.parent /\ IsTop(row, o.parent)
      /\ Has(row, o.child) => o.fields = row[o.child].fields
  BY <1>2, <1>3, <1>4 DEF Sound, SavedAt, CalmOk
<1>6. Covered(row')
  <2>1. PICK t \in Nat : t = since[w]
    BY <1>2 DEF PostType, Timed
  <2>2. PICK rw : rw = P!LinkChild(o.child, o.fields, t, o.parent)
    OBVIOUS
  <2>3. Covered(rw)
    BY <1>2, <1>4, <1>5, <2>2, CoveredLinked
  <2> QED
    BY <1>3, <2>1, <2>2, <2>3
<1>7. ASSUME NEW v \in Workers PROVE worker'[v].at \notin Undone
  <2>1. CASE v = w
    BY <1>2, <1>3, <2>1 DEF PostType, Undone
  <2>2. CASE v # w
    BY <1>2, <1>3, <2>2 DEF PostType, Undone, P!Deciding
  <2> QED
    BY <2>1, <2>2
<1> QED
  BY <1>6, <1>7 DEF CalmOk, Undone

\* So does an admin's merge into a parent.
LEMMA CalmMergeRelated ==
  ASSUME P!Constants, PostInv, CalmInv, NEW a \in Announcements, NEW r \in P!ReviewReason,
         NEW e \in P!ReviewStatus, P!MergeRelated(a, r, e)
  PROVE  CalmInv'
<1> SUFFICES ASSUME ~crossed', interrupted' = {}
             PROVE  /\ Covered(row')
                    /\ \A v \in Workers : CalmOk(worker'[v], row', input'.fields)
  BY DEF CalmInv
<1>1. PICK p : p = review[a][r].related
  OBVIOUS
<1>2. /\ row' = P!LinkChild(a, row[a].fields, row[a].created, p) /\ p # P!NoOne /\ review[a][r] # P!NoItem
      /\ worker' = worker /\ ~crossed /\ interrupted = {} /\ P!Deciding = {} /\ P!IsParent(p)
  BY <1>1 DEF P!MergeRelated, P!MayAct
<1>3. Has(row, a) /\ p \in Announcements /\ p # a /\ IsTop(row, p)
  BY <1>1, <1>2, CaseFacts DEF IsTop, P!IsParent, P!Persisted, Has
<1>4. PICK f \in SUBSET Fields, t \in Nat : f = row[a].fields /\ t = row[a].created
  BY <1>3, RowFacts DEF PostInv, PostType
<1>5. Covered(row')
  <2>1. PICK rw : rw = P!LinkChild(a, f, t, p)
    OBVIOUS
  <2>2. Covered(row)
    BY <1>2 DEF CalmInv
  <2>3. Covered(rw)
    BY <1>3, <1>4, <2>1, <2>2, CoveredLinked
  <2> QED
    BY <1>2, <1>4, <2>1, <2>3
<1>6. \A v \in Workers : worker'[v].at \notin Undone
  BY <1>2 DEF Undone, P!Deciding
<1> QED
  BY <1>5, <1>6 DEF CalmOk, Undone

\* Activating an announcement relinks nothing.
LEMMA CalmMarkAsNew ==
  ASSUME P!Constants, PostInv, TimePasses, CalmInv, NEW a \in Announcements, NEW r \in P!ReviewReason,
         NEW e \in P!ReviewStatus, P!MarkAsNew(a, r, e)
  PROVE  CalmInv'
<1>1. \A b \in Announcements :
        /\ Has(row', b) <=> Has(row, b)
        /\ row'[b].parent = row[b].parent /\ row'[b].fields = row[b].fields
        /\ row'[b].created = row[b].created
  BY MarkAsNewKeeps
<1>2. RowsStay(row, row')
  BY <1>1 DEF RowsStay
<1>3. worker' = worker /\ input' = input /\ interrupted' = interrupted
  BY DEF P!MarkAsNew
<1>4. ~crossed' => ~crossed
  BY DEF P!MarkAsNew
<1> QED
  BY <1>2, <1>3, <1>4, CalmOther

\* Every step keeps the decisions fitting, or is recorded as crossing one.
LEMMA CalmStep ==
  ASSUME P!Constants, PostInv, CalmInv, [P!Next]_(P!vars) PROVE CalmInv'
<1>0. TimePasses
  BY TimeStep DEF PostInv, PostType
<1>1. ASSUME NEW w \in Workers, P!Process(w) PROVE CalmInv'
  BY <1>1, CalmSimple, CalmEvaluate, CalmSelectParent, CalmSaveParent, CalmPublish, CalmLink
     DEF P!Process
<1>2. ASSUME NEW a \in Announcements, NEW r \in P!ReviewReason, NEW e \in P!ReviewStatus,
             P!MarkAsNew(a, r, e) \/ P!MergeRelated(a, r, e)
      PROVE  CalmInv'
  BY <1>0, <1>2, CalmMarkAsNew, CalmMergeRelated
<1>3. ASSUME row' = row, worker' = worker, input' = input, crossed' = crossed,
             interrupted \subseteq interrupted'
      PROVE  CalmInv'
  <2>1. RowsStay(row, row')
    BY <1>3 DEF RowsStay
  <2> QED
    BY <1>3, <2>1, CalmOther
<1>4. ASSUME NEW a \in Announcements, NEW r \in P!ReviewReason, NEW e \in P!ReviewStatus,
             P!Reject(a, r, e)
      PROVE  CalmInv'
  BY <1>3, <1>4 DEF P!Reject
<1>5. CASE P!StoreItem \/ P!AdminRestart
  BY <1>3, <1>5 DEF P!StoreItem, P!AdminRestart
<1>6. CASE UNCHANGED P!vars
  BY <1>3, <1>6 DEF P!vars
<1> QED
  BY <1>1, <1>2, <1>4, <1>5, <1>6 DEF P!Next, P!AdminActs

\* As long as nothing failed, no link or activation was written under another process's
\* decision and no admin merged into what is no parent any more, a parent has every field its
\* children's rows have, along chains of any length (link_child and merge_parent_fields).
THEOREM ParentsCover ==
  ASSUME P!Constants PROVE P!Spec => []ParentCoversChild
<1>1. P!Init => CalmInv
  <2> SUFFICES ASSUME P!Init PROVE CalmInv
    OBVIOUS
  <2>1. Covered(row)
    BY DEF P!Init, Covered, Has
  <2>2. \A w \in Workers : CalmOk(worker[w], row, input.fields)
    BY DEF P!Init, P!Idle, CalmOk
  <2> QED
    BY <2>1, <2>2 DEF CalmInv
<1>2. CalmInv => P!ParentCoversChild
  BY DEF CalmInv, Covered, Has, P!ParentCoversChild, P!Child, P!Persisted
<1>3. PostInv /\ CalmInv /\ [P!Next]_(P!vars) => CalmInv'
  BY CalmStep
<1> QED
  BY <1>1, <1>2, <1>3, PostInvariant, PTL DEF P!Spec, ParentCoversChild

-----------------------------------------------------------------------------
(* Post-AI stage without an admin, when at most one announcement's         *)
(* processing failed and no worker went on with a message the broker had   *)
(* back: no ring of parents.  A redelivered announcement may be a child    *)
(* when it takes over another, so the argument needs what it filled itself *)
(* to be filled all the way up from it, and the times of the announcements *)
(* that fill no more than it does.                                         *)

\* The post-AI module's finite sets are the library's.
LEMMA FiniteSetsOfP ==
  \A S : (P!IsFiniteSet(S) <=> IsFiniteSet(S)) /\ P!Cardinality(S) = Cardinality(S)
BY Zenon DEF IsFiniteSet, P!IsFiniteSet, Cardinality, P!Cardinality

AtMostOne(int) == \A a, b \in int : a = b

NoRing(rw) ==
  \A S \in SUBSET Announcements : S # {} => \E a \in S : ~(Has(rw, a) /\ rw[a].parent \in S)

\* q fills something f does not, or was created by t.
Above(rw, q, f, t) == rw[q].fields \subseteq f => rw[q].created <= t

\* A row fills what its message fills, and so does its parent; only a redelivered announcement
\* may have gathered more than its parent.  A parent that fills no more is the older one.
Gathered(rw, flds, int) ==
  \A a \in Announcements : Has(rw, a) =>
    /\ flds[a] \subseteq rw[a].fields
    /\ rw[a].parent # P!NoOne =>
         /\ flds[a] \subseteq rw[rw[a].parent].fields
         /\ a \notin int => /\ rw[a].fields \subseteq rw[rw[a].parent].fields
                            /\ Above(rw, rw[a].parent, rw[a].fields, rw[a].created)

\* Whatever was read or created was so before now.
Dated(rw, snc, clk) ==
  /\ \A w \in Workers : snc[w] < clk
  /\ \A a \in Announcements : Has(rw, a) => rw[a].created < clk

Open == Undone \cup {"evaluate"}

\* A worker that holds x since t: an earlier attempt's row is older, and as long as the worker
\* may still link it, its parent is older too or fills more than the message.
Aged(x, t, rw, flds) ==
  x.at # "idle" /\ Has(rw, x.of) =>
    /\ rw[x.of].created <= t
    /\ x.at \in Open /\ rw[x.of].parent # P!NoOne =>
         Above(rw, rw[x.of].parent, flds[x.of], t)

\* What a worker decided still fits the rows: it takes over only a parent that does not fill as
\* much, or fills the same and is younger.
AloneOk(x, t, rw, flds, int) ==
  /\ x.at = "merge" => IsTop(rw, x.candidate)
  /\ x.at \in {"saveparent", "publishlink", "link"} =>
       /\ x.parent = x.of =>
            /\ IsTop(rw, x.child) /\ x.fields = rw[x.child].fields
            /\ flds[x.of] \subseteq x.fields =>
                 x.fields \subseteq flds[x.of] /\ t < rw[x.child].created
            /\ x.at # "saveparent" /\ x.of \notin int => IsTop(rw, x.of)
       /\ x.parent # x.of => /\ IsTop(rw, x.parent) /\ x.fields = flds[x.of]
                             /\ Above(rw, x.parent, flds[x.of], t)

Alone == ~crossed /\ ~outlived /\ actions = 0 /\ AtMostOne(interrupted)

AloneInv ==
  /\ actions \in Nat /\ IsFiniteSet(interrupted)
  /\ Alone => /\ NoRing(row) /\ Gathered(row, input.fields, interrupted)
              /\ Dated(row, since, clock)
              /\ \A w \in Workers :
                   /\ Aged(worker[w], since[w], row, input.fields)
                   /\ AloneOk(worker[w], since[w], row, input.fields, interrupted)

\* A decision fits rows that were not relinked.
LEMMA AloneStays ==
  ASSUME NEW rw, NEW rw2, NEW flds, NEW int, NEW int2, NEW x \in Works, NEW t,
         RowsStay(rw, rw2), int \subseteq int2, AloneOk(x, t, rw, flds, int)
  PROVE  AloneOk(x, t, rw2, flds, int2)
<1>1. /\ x.at = "merge" => x.candidate \in Announcements
      /\ x.at \in {"saveparent", "publishlink", "link"} =>
           x.of \in Announcements /\ x.child \in Announcements /\ x.parent \in Announcements
  BY WorkFacts
<1>2. \A b \in Announcements : IsTop(rw, b) =>
        IsTop(rw2, b) /\ rw2[b].fields = rw[b].fields /\ rw2[b].created = rw[b].created
  BY DEF IsTop, RowsStay
<1> QED
  BY <1>1, <1>2 DEF AloneOk, Above

\* So do the times, when the announcement goes on being held.
LEMMA AgedStays ==
  ASSUME NEW rw \in Rows, NEW rw2, NEW rv, References(rw, rv), RowsStay(rw, rw2), NEW flds,
         NEW t, NEW x \in Works, NEW y, Aged(x, t, rw, flds), x.at # "idle", y.of = x.of,
         y.at \in Open => x.at \in Open,
         ~Has(rw, x.of) /\ Has(rw2, x.of) => rw2[x.of].created <= t
  PROVE  Aged(y, t, rw2, flds)
<1> SUFFICES ASSUME Has(rw2, x.of) PROVE Aged(y, t, rw2, flds)
  BY DEF Aged
<1>1. x.of \in Announcements
  BY WorkFacts
<1>2. CASE ~Has(rw, x.of)
  BY <1>1, <1>2 DEF Aged, RowsStay
<1>3. CASE Has(rw, x.of)
  <2>1. rw2[x.of].created = rw[x.of].created /\ rw2[x.of].parent = rw[x.of].parent
    BY <1>1, <1>3 DEF RowsStay
  <2>2. PICK q : q = rw[x.of].parent
    OBVIOUS
  <2>3. q # P!NoOne => q \in Announcements /\ Has(rw, q)
    BY <1>1, <1>3, <2>2, RowFacts DEF References
  <2>4. q # P!NoOne => rw2[q].fields = rw[q].fields /\ rw2[q].created = rw[q].created
    BY <2>3 DEF RowsStay
  <2> QED
    BY <1>3, <2>1, <2>2, <2>4 DEF Aged, Above
<1> QED
  BY <1>2, <1>3

\* Rows that are only added close no ring.
LEMMA NoRingStays ==
  ASSUME NEW rw, NEW rw2, RowsStay(rw, rw2), NoRing(rw), P!Constants
  PROVE  NoRing(rw2)
<1> SUFFICES ASSUME NEW S \in SUBSET Announcements, S # {},
                    \A a \in S : Has(rw2, a) /\ rw2[a].parent \in S
             PROVE  FALSE
  BY DEF NoRing
<1>1. ASSUME NEW a \in S PROVE Has(rw, a) /\ rw[a].parent \in S
  BY DEF RowsStay, P!Constants
<1> QED
  BY <1>1 DEF NoRing

\* Rows that are added with what their message fills leave the gathered fields in place.
LEMMA GatheredStays ==
  ASSUME NEW rw \in Rows, NEW rw2, NEW rv, References(rw, rv), RowsStay(rw, rw2),
         NEW flds, NEW int, NEW int2, int \subseteq int2, Gathered(rw, flds, int),
         \A b \in Announcements : ~Has(rw, b) /\ Has(rw2, b) => rw2[b].fields = flds[b]
  PROVE  Gathered(rw2, flds, int2)
<1> SUFFICES ASSUME NEW a \in Announcements, Has(rw2, a)
             PROVE  /\ flds[a] \subseteq rw2[a].fields
                    /\ rw2[a].parent # P!NoOne =>
                         /\ flds[a] \subseteq rw2[rw2[a].parent].fields
                         /\ a \notin int2 =>
                              /\ rw2[a].fields \subseteq rw2[rw2[a].parent].fields
                              /\ Above(rw2, rw2[a].parent, rw2[a].fields, rw2[a].created)
  BY DEF Gathered
<1>1. CASE ~Has(rw, a)
  BY <1>1 DEF RowsStay
<1>2. CASE Has(rw, a)
  <2>1. /\ rw2[a].parent = rw[a].parent /\ rw2[a].fields = rw[a].fields
        /\ rw2[a].created = rw[a].created
    BY <1>2 DEF RowsStay
  <2>2. CASE rw[a].parent = P!NoOne
    BY <1>2, <2>1, <2>2 DEF Gathered
  <2>3. CASE rw[a].parent # P!NoOne
    <3>1. PICK q : q = rw[a].parent
      OBVIOUS
    <3>2. q \in Announcements /\ Has(rw, q)
      BY <1>2, <2>3, <3>1, RowFacts DEF References
    <3>3. rw2[q].fields = rw[q].fields /\ rw2[q].created = rw[q].created
      BY <3>2 DEF RowsStay
    <3>4. /\ flds[a] \subseteq rw[a].fields /\ flds[a] \subseteq rw[q].fields
          /\ a \notin int => /\ rw[a].fields \subseteq rw[q].fields
                             /\ Above(rw, q, rw[a].fields, rw[a].created)
      BY <1>2, <2>3, <3>1 DEF Gathered
    <3> QED
      BY <2>1, <3>1, <3>3, <3>4 DEF Above
  <2> QED
    BY <2>2, <2>3
<1> QED
  BY <1>1, <1>2

\* Rows are added as parents, with what their message fills and the time it was read, and only
\* that of o; none is relinked or refilled.
OwnRows(rw, rw2, flds, o, t) ==
  /\ RowsStay(rw, rw2)
  /\ \A b \in Announcements : ~Has(rw, b) /\ Has(rw2, b) =>
       b = o /\ rw2[b].fields = flds[b] /\ rw2[b].created = t

\* save_parent
LEMMA SavedOwnRows ==
  ASSUME PostInv, P!Constants, NEW a \in Announcements, NEW st \in P!Status, NEW t \in Nat
  PROVE  OwnRows(row, SavedRows(a, st, t), input.fields, a, t)
<1>1. PICK rw : rw = SavedRows(a, st, t)
  OBVIOUS
<1>2. /\ \A b \in Announcements \ {a} : rw[b] = row[b]
      /\ Has(row, a) => rw = row
      /\ ~Has(row, a) => rw[a].fields = input.fields[a] /\ rw[a].created = t
  BY <1>1, SaveResult
<1>3. RowsStay(row, rw)
  BY <1>1, SavedRowsStay
<1> QED
  BY <1>1, <1>2, <1>3 DEF OwnRows, Has

\* What a step that links nothing has to show.
LEMMA AloneQuiet ==
  ASSUME PostInv, AloneInv, P!Constants, input' = input, crossed' = crossed,
         outlived => outlived', actions' \in Nat, actions' = 0 => actions = 0,
         interrupted \subseteq interrupted', IsFiniteSet(interrupted'), RowsStay(row, row'),
         \A b \in Announcements : ~Has(row, b) /\ Has(row', b) => row'[b].fields = input.fields[b],
         Alone => Dated(row', since', clock'),
         \A v \in Workers : Alone =>
           \/ /\ worker'[v] = worker[v] /\ since'[v] = since[v]
              /\ worker[v].at # "idle" /\ Has(row', worker[v].of) => Has(row, worker[v].of)
           \/ /\ Aged(worker'[v], since'[v], row', input.fields)
              /\ AloneOk(worker'[v], since'[v], row', input.fields, interrupted')
  PROVE  AloneInv'
<1> SUFFICES ASSUME Alone'
             PROVE  /\ NoRing(row') /\ Gathered(row', input'.fields, interrupted')
                    /\ Dated(row', since', clock')
                    /\ \A v \in Workers :
                         /\ Aged(worker'[v], since'[v], row', input'.fields)
                         /\ AloneOk(worker'[v], since'[v], row', input'.fields, interrupted')
  BY DEF AloneInv
<1>1. Alone
  BY DEF Alone, AtMostOne
<1>2. /\ NoRing(row) /\ Gathered(row, input.fields, interrupted)
      /\ \A v \in Workers :
           /\ Aged(worker[v], since[v], row, input.fields)
           /\ AloneOk(worker[v], since[v], row, input.fields, interrupted)
  BY <1>1 DEF AloneInv
<1>3. PICK rw : rw = row'
  OBVIOUS
<1>4. row \in Rows /\ References(row, review) /\ worker \in [Workers -> Works]
  BY DEF PostInv, PostType
<1>5. RowsStay(row, rw)
  BY <1>3
<1>6. NoRing(rw)
  BY <1>2, <1>5, NoRingStays
<1>7. \A b \in Announcements : ~Has(row, b) /\ Has(rw, b) => rw[b].fields = input.fields[b]
  BY <1>3
<1>8. PICK int : int = interrupted'
  OBVIOUS
<1>9. Gathered(rw, input.fields, int)
  BY <1>2, <1>4, <1>5, <1>7, <1>8, GatheredStays
<1>10. ASSUME NEW v \in Workers
       PROVE  /\ Aged(worker'[v], since'[v], rw, input.fields)
              /\ AloneOk(worker'[v], since'[v], rw, input.fields, int)
  <2>1. CASE /\ worker'[v] = worker[v] /\ since'[v] = since[v]
             /\ worker[v].at # "idle" /\ Has(row', worker[v].of) => Has(row, worker[v].of)
    <3>1. PICK y \in Works : y = worker[v]
      BY <1>4
    <3>2. PICK t : t = since[v]
      OBVIOUS
    <3>3. AloneOk(y, t, rw, input.fields, int)
      BY <1>2, <1>5, <1>8, <3>1, <3>2, AloneStays
    <3>4. Aged(y, t, rw, input.fields)
      <4>1. CASE y.at = "idle"
        BY <4>1 DEF Aged
      <4>2. CASE y.at # "idle"
        <5>1. ~(~Has(row, y.of) /\ Has(rw, y.of)) /\ Aged(y, t, row, input.fields)
          BY <1>2, <1>3, <2>1, <3>1, <3>2, <4>2
        <5> QED
          BY <1>4, <1>5, <4>2, <5>1, AgedStays
      <4> QED
        BY <4>1, <4>2
    <3> QED
      BY <2>1, <3>1, <3>2, <3>3, <3>4
  <2>2. CASE /\ Aged(worker'[v], since'[v], row', input.fields)
             /\ AloneOk(worker'[v], since'[v], row', input.fields, interrupted')
    BY <1>3, <1>8, <2>2
  <2> QED
    BY <1>1, <2>1, <2>2
<1> QED
  BY <1>1, <1>3, <1>6, <1>8, <1>9, <1>10

\* The same for a step of one worker that goes on with its message.
LEMMA AloneWorker ==
  ASSUME PostInv, AloneInv, P!Constants, NEW w \in Workers, NEW x,
         worker' = [worker EXCEPT ![w] = x], worker[w].at # "idle", x.of = worker[w].of,
         x.at \in Open => worker[w].at \in Open,
         OwnRows(row, row', input.fields, worker[w].of, since[w]), input' = input,
         crossed' = crossed, actions' = actions, interrupted' = interrupted,
         clock' = clock, since' = since, outlived' = outlived,
         Alone => AloneOk(x, since[w], row', input.fields, interrupted)
  PROVE  AloneInv'
<1>1. /\ actions \in Nat /\ IsFiniteSet(interrupted) /\ worker \in [Workers -> Works]
      /\ OnePlace /\ row \in Rows /\ References(row, review) /\ since \in [Workers -> Nat]
  BY DEF AloneInv, PostInv, PostType, Timed
<1>2. PICK o : o = worker[w]
  OBVIOUS
<1>3. o \in Works
  BY <1>1, <1>2
<1>4. PICK rw : rw = row'
  OBVIOUS
<1>5. PICK t : t = since[w]
  OBVIOUS
<1>6. /\ RowsStay(row, rw) /\ t \in Nat
      /\ \A b \in Announcements : ~Has(row, b) /\ Has(rw, b) =>
           b = o.of /\ rw[b].fields = input.fields[b] /\ rw[b].created = t
  BY <1>1, <1>2, <1>4, <1>5 DEF OwnRows
<1>7. ASSUME Alone PROVE Dated(rw, since, clock)
  <2>1. Dated(row, since, clock)
    BY <1>7 DEF AloneInv
  <2> SUFFICES ASSUME NEW b \in Announcements, Has(rw, b) PROVE rw[b].created < clock
    BY <2>1 DEF Dated
  <2>2. CASE Has(row, b)
    BY <1>6, <2>1, <2>2 DEF Dated, RowsStay
  <2>3. CASE ~Has(row, b)
    BY <1>5, <1>6, <2>1, <2>3 DEF Dated
  <2> QED
    BY <2>2, <2>3
<1>8. ASSUME Alone PROVE Aged(x, t, rw, input.fields)
  <2>1. Aged(o, t, row, input.fields)
    BY <1>2, <1>5, <1>8 DEF AloneInv
  <2>2. ~Has(row, o.of) /\ Has(rw, o.of) => rw[o.of].created <= t
    <3>1. o.of \in Announcements
      BY <1>2, <1>3, WorkFacts
    <3> QED
      BY <1>6, <3>1
  <2> QED
    BY <1>1, <1>2, <1>3, <1>6, <2>1, <2>2, AgedStays
<1>9. ASSUME Alone, NEW v \in Workers, v # w, worker[v].at # "idle", Has(rw, worker[v].of)
      PROVE  Has(row, worker[v].of)
  <2>1. worker[v].of # o.of
    BY <1>1, <1>2, <1>9 DEF Alone, OnePlace, Single
  <2>2. worker[v].of \in Announcements
    BY <1>1, <1>9, WorkFacts
  <2> QED
    BY <1>6, <1>9, <2>1, <2>2
<1>10. ASSUME NEW v \in Workers, Alone
       PROVE  \/ /\ worker'[v] = worker[v] /\ since'[v] = since[v]
                 /\ worker[v].at # "idle" /\ Has(row', worker[v].of) => Has(row, worker[v].of)
              \/ /\ Aged(worker'[v], since'[v], row', input.fields)
                 /\ AloneOk(worker'[v], since'[v], row', input.fields, interrupted')
  <2>1. CASE v = w
    <3>1. worker'[v] = x /\ since'[v] = t
      BY <1>1, <1>5, <2>1
    <3> QED
      BY <1>4, <1>5, <1>8, <1>10, <3>1
  <2>2. CASE v # w
    BY <1>1, <1>4, <1>9, <1>10, <2>2
  <2> QED
    BY <2>1, <2>2
<1>11. /\ RowsStay(row, row') /\ (Alone => Dated(row', since', clock'))
       /\ \A b \in Announcements : ~Has(row, b) /\ Has(row', b) =>
            row'[b].fields = input.fields[b]
  BY <1>4, <1>6, <1>7
<1> QED
  BY <1>1, <1>10, <1>11, AloneQuiet

\* Steps after which the worker has no decision to carry out.
LEMMA AloneDone ==
  ASSUME PostInv, AloneInv, P!Constants, NEW w \in Workers, NEW x,
         worker' = [worker EXCEPT ![w] = x], x.at \notin Open,
         worker[w].at # "idle", x.of = worker[w].of,
         OwnRows(row, row', input.fields, worker[w].of, since[w]), input' = input,
         crossed' = crossed, actions' = actions, interrupted' = interrupted,
         clock' = clock, since' = since, outlived' = outlived
  PROVE  AloneInv'
<1>1. AloneOk(x, since[w], row', input.fields, interrupted)
  BY DEF AloneOk, Undone, Open
<1> QED
  BY <1>1, AloneWorker

\* Steps that leave the workers as they are, or idle.
LEMMA AloneOther ==
  ASSUME PostInv, AloneInv, P!Constants, row' = row, input' = input, crossed' = crossed,
         actions' \in Nat, actions' = 0 => actions = 0, outlived => outlived', clock' = clock,
         interrupted' = interrupted \/ \E a : interrupted' = interrupted \cup {a},
         \A v \in Workers : \/ worker'[v] = worker[v] /\ since'[v] = since[v]
                            \/ worker'[v] = P!Idle /\ since'[v] = 0
  PROVE  AloneInv'
<1>1. /\ RowsStay(row, row')
      /\ \A b \in Announcements : ~Has(row, b) /\ Has(row', b) => row'[b].fields = input.fields[b]
  BY DEF RowsStay
<1>2. IsFiniteSet(interrupted') /\ interrupted \subseteq interrupted'
  BY FS_AddElement DEF AloneInv
<1>3. ASSUME NEW v \in Workers
      PROVE  /\ AloneOk(P!Idle, since'[v], row', input.fields, interrupted')
             /\ Aged(P!Idle, since'[v], row', input.fields)
  BY DEF AloneOk, Aged, P!Idle
<1>4. ASSUME NEW v \in Workers, Alone
      PROVE  \/ /\ worker'[v] = worker[v] /\ since'[v] = since[v]
                /\ worker[v].at # "idle" /\ Has(row', worker[v].of) => Has(row, worker[v].of)
             \/ /\ Aged(worker'[v], since'[v], row', input.fields)
                /\ AloneOk(worker'[v], since'[v], row', input.fields, interrupted')
  BY <1>3
<1>5. ASSUME Alone PROVE Dated(row', since', clock')
  <2>1. Dated(row, since, clock) /\ clock \in Nat /\ since \in [Workers -> Nat]
    BY <1>5 DEF AloneInv, PostInv, PostType, Timed
  <2>2. ASSUME NEW v \in Workers PROVE since'[v] < clock'
    BY <2>1 DEF Dated
  <2> QED
    BY <2>1, <2>2 DEF Dated
<1> QED
  BY <1>1, <1>2, <1>4, <1>5, AloneQuiet

\* A message is read after everything that has a row was.
LEMMA AloneTake ==
  ASSUME P!Constants, PostInv, AloneInv, NEW w \in Workers, P!Take(w) PROVE AloneInv'
<1>1. PICK a \in queue : worker' = [worker EXCEPT ![w] =
                        [at |-> IF P!Flagged(a) THEN "flagged" ELSE "evaluate", of |-> a]]
  BY DEF P!Take
<1>2. PICK x : x = [at |-> IF P!Flagged(a) THEN "flagged" ELSE "evaluate", of |-> a]
  OBVIOUS
<1>3. a \in Announcements /\ x.of = a /\ x.at \notin Undone
  BY <1>2 DEF Undone, PostInv, PostType
<1>4. /\ row' = row /\ input' = input /\ crossed' = crossed /\ interrupted' = interrupted
      /\ actions' = actions /\ outlived' = outlived /\ worker' = [worker EXCEPT ![w] = x]
      /\ clock' = clock + 1 /\ since' = [since EXCEPT ![w] = clock]
  BY <1>1, <1>2 DEF P!Take, P!TimeOf
<1>5. /\ actions \in Nat /\ IsFiniteSet(interrupted) /\ clock \in Nat
      /\ since \in [Workers -> Nat] /\ worker \in [Workers -> Works]
      /\ row \in Rows /\ References(row, review)
  BY DEF AloneInv, PostInv, PostType, Timed
<1>6. /\ RowsStay(row, row')
      /\ \A b \in Announcements : ~Has(row, b) /\ Has(row', b) => row'[b].fields = input.fields[b]
  BY <1>4 DEF RowsStay
<1>7. ASSUME Alone PROVE Dated(row', since', clock')
  <2>1. Dated(row, since, clock)
    BY <1>7 DEF AloneInv
  <2>2. ASSUME NEW v \in Workers PROVE since'[v] < clock'
    <3>1. since[v] \in Nat /\ since[v] < clock
      BY <1>5, <2>1 DEF Dated
    <3> QED
      BY <1>4, <1>5, <3>1
  <2>3. ASSUME NEW b \in Announcements, Has(row, b) PROVE row[b].created < clock + 1
    <3>1. row[b].created \in Nat /\ row[b].created < clock
      BY <1>5, <2>1, <2>3, RowFacts DEF Dated
    <3> QED
      BY <1>5, <3>1
  <2> QED
    BY <1>4, <2>2, <2>3 DEF Dated
<1>8. ASSUME Alone
      PROVE  /\ Aged(x, clock, row, input.fields)
             /\ AloneOk(x, clock, row, input.fields, interrupted)
  <2>1. ASSUME NEW b \in Announcements, Has(row, b) PROVE row[b].created <= clock
    <3>1. row[b].created \in Nat /\ row[b].created < clock
      BY <1>5, <1>8, <2>1, RowFacts DEF AloneInv, Dated
    <3> QED
      BY <1>5, <3>1
  <2>2. \A b \in Announcements : Has(row, b) /\ row[b].parent # P!NoOne =>
          row[b].parent \in Announcements /\ Has(row, row[b].parent)
    BY <1>5, RowFacts DEF References
  <2> QED
    BY <1>3, <2>1, <2>2 DEF Aged, Above, AloneOk, Undone
<1>9. ASSUME NEW v \in Workers, Alone
      PROVE  \/ /\ worker'[v] = worker[v] /\ since'[v] = since[v]
                /\ worker[v].at # "idle" /\ Has(row', worker[v].of) => Has(row, worker[v].of)
             \/ /\ Aged(worker'[v], since'[v], row', input.fields)
                /\ AloneOk(worker'[v], since'[v], row', input.fields, interrupted')
  <2>1. CASE v = w
    <3>1. worker'[v] = x /\ since'[v] = clock
      BY <1>4, <1>5, <2>1
    <3> QED
      BY <1>4, <1>8, <1>9, <3>1
  <2>2. CASE v # w
    BY <1>4, <1>5, <2>2
  <2> QED
    BY <2>1, <2>2
<1> QED
  BY <1>4, <1>5, <1>6, <1>7, <1>9, AloneQuiet

\* Reviewing, acknowledging and failing leave the worker no link to make; with a lost connection
\* the worker outlives it.
LEMMA AloneSimple ==
  ASSUME P!Constants, PostInv, AloneInv, NEW w \in Workers,
         \/ P!Acknowledge(w) \/ P!Fail(w) \/ P!Enqueue(w) \/ P!SaveForReview(w)
         \/ P!LoseConnection(w)
  PROVE  AloneInv'
<1>1. PICK o : o = worker[w]
  OBVIOUS
<1>2. /\ o \in Works /\ worker \in [Workers -> Works] /\ (o.at # "idle" => o.of \in Announcements)
      /\ since \in [Workers -> Nat] /\ actions \in Nat
  BY <1>1, AtWorker, WorkFacts DEF PostType, Timed, AloneInv
<1>3. CASE P!LoseConnection(w)
  <2>1. /\ interrupted' = interrupted \cup {o.of} /\ actions' = actions /\ outlived'
    BY <1>1, <1>3 DEF P!LoseConnection
  <2>2. IsFiniteSet(interrupted')
    BY <2>1, FS_AddElement DEF AloneInv
  <2> QED
    BY <1>2, <2>1, <2>2 DEF AloneInv, Alone
<1>4. CASE P!Acknowledge(w) \/ P!Fail(w)
  <2>1. worker' = [worker EXCEPT ![w] = P!Idle] /\ since' = [since EXCEPT ![w] = 0]
    BY <1>4 DEF P!Acknowledge, P!Fail
  <2>2. /\ row' = row /\ input' = input /\ crossed' = crossed /\ actions' = actions
        /\ clock' = clock /\ outlived' = outlived
        /\ interrupted' = interrupted \/ \E a : interrupted' = interrupted \cup {a}
    BY <1>4 DEF P!Acknowledge, P!Fail
  <2>3. \A v \in Workers : \/ worker'[v] = worker[v] /\ since'[v] = since[v]
                           \/ worker'[v] = P!Idle /\ since'[v] = 0
    BY <1>2, <2>1
  <2> QED
    BY <1>2, <2>2, <2>3, AloneOther
<1>5. CASE P!Enqueue(w)
  <2>1. PICK x : x = [at |-> "decided", of |-> o.of]
    OBVIOUS
  <2>2. /\ x.at \notin Open /\ worker' = [worker EXCEPT ![w] = x] /\ x.of = o.of
        /\ o.at # "idle"
    BY <1>1, <1>5, <2>1 DEF P!Enqueue, Undone, Open
  <2>3. /\ row' = row /\ input' = input /\ crossed' = crossed /\ interrupted' = interrupted
        /\ actions' = actions /\ clock' = clock /\ since' = since /\ outlived' = outlived
    BY <1>5 DEF P!Enqueue, P!deliveries
  <2>4. OwnRows(row, row', input.fields, o.of, since[w])
    BY <2>3 DEF OwnRows, RowsStay
  <2> QED
    BY <1>1, <2>2, <2>3, <2>4, AloneDone
<1>6. CASE P!SaveForReview(w)
  <2>1. PICK x : x = [at |-> "enqueue", of |-> o.of,
                      reason |-> IF o.at = "review" THEN "possible_duplicate"
                                 ELSE "low_confidence",
                      related |-> IF o.at = "review" THEN o.candidate ELSE P!NoOne]
    OBVIOUS
  <2>2. /\ x.at \notin Open /\ worker' = [worker EXCEPT ![w] = x] /\ x.of = o.of
        /\ o.at # "idle"
    BY <1>1, <1>6, <2>1 DEF P!SaveForReview, Undone, Open
  <2>3. /\ input' = input /\ crossed' = crossed /\ interrupted' = interrupted
        /\ row' = SavedRows(o.of, "manual_review", since[w]) /\ o.of \in Announcements
        /\ actions' = actions /\ clock' = clock /\ since' = since /\ outlived' = outlived
    BY <1>1, <1>2, <1>6, <2>2 DEF P!SaveForReview, SavedRows, P!deliveries
  <2>4. OwnRows(row, row', input.fields, o.of, since[w])
    BY <1>2, <2>3, SavedOwnRows DEF P!Status
  <2> QED
    BY <1>1, <2>2, <2>3, <2>4, AloneDone
<1> QED
  BY <1>3, <1>4, <1>5, <1>6

\* The candidate of a merge is a parent when it is read.
LEMMA AloneEvaluate ==
  ASSUME P!Constants, PostInv, AloneInv, NEW w \in Workers, P!Evaluate(w) PROVE AloneInv'
<1>1. PICK o : o = worker[w]
  OBVIOUS
<1>2. o \in Works /\ o.of \in Announcements /\ PostType /\ o.at = "evaluate"
  BY <1>1, AtWorker, WorkFacts DEF P!Evaluate
<1>3. /\ row' = row /\ input' = input /\ crossed' = crossed /\ interrupted' = interrupted
      /\ actions' = actions /\ clock' = clock /\ since' = since /\ outlived' = outlived
  BY DEF P!Evaluate, P!deliveries
<1>4. OwnRows(row, row', input.fields, o.of, since[w])
  BY <1>3 DEF OwnRows, RowsStay
<1>5. CASE worker' = [worker EXCEPT ![w] = [at |-> "new", of |-> o.of]]
  <2>1. PICK x : x = [at |-> "new", of |-> o.of]
    OBVIOUS
  <2>2. x.at \notin Open /\ worker' = [worker EXCEPT ![w] = x] /\ x.of = o.of
    BY <1>5, <2>1 DEF Undone, Open
  <2> QED
    BY <1>1, <1>2, <1>3, <1>4, <2>2, AloneDone
<1>6. ASSUME NEW c \in P!Candidates(o.of),
             worker' = [worker EXCEPT ![w] =
                          [at |-> P!Likeness(o.of, c), of |-> o.of, candidate |-> c]]
      PROVE  AloneInv'
  <2>1. c \in Announcements /\ c # o.of /\ IsTop(row, c)
    BY <1>6 DEF P!Candidates, P!IsParent, P!Persisted, Has, IsTop
  <2>2. P!Likeness(o.of, c) \in {"merge", "review", "new"}
    BY <1>2, <2>1 DEF P!Likeness, P!Constants, P!Verdict, PostType
  <2>3. PICK x : x = [at |-> P!Likeness(o.of, c), of |-> o.of, candidate |-> c]
    OBVIOUS
  <2>4. /\ x.at \in {"merge", "review", "new"} /\ x.candidate = c /\ x.of = o.of
        /\ worker' = [worker EXCEPT ![w] = x]
    BY <1>6, <2>2, <2>3
  <2>5. AloneOk(x, since[w], row', input.fields, interrupted)
    BY <1>3, <2>1, <2>4 DEF AloneOk
  <2>6. worker[w].at \in Open /\ worker[w].at # "idle"
    BY <1>1, <1>2 DEF Open
  <2> QED
    BY <1>1, <1>3, <1>4, <2>4, <2>5, <2>6, AloneWorker
<1> QED
  BY <1>1, <1>5, <1>6 DEF P!Evaluate

\* Of two listings the one that fills more is the parent, of equals the older one.
LEMMA ParentChosen ==
  ASSUME P!Constants, NEW a \in Announcements, NEW c \in Announcements, NEW t \in Nat,
         NEW f \in SUBSET Fields, f = input.fields[a], NEW g \in SUBSET Fields, g = row[c].fields,
         row[c].created \in Nat
  PROVE  /\ P!CandidateIsParent(a, t, c) => Above(row, c, f, t)
         /\ ~P!CandidateIsParent(a, t, c) /\ f \subseteq g => g \subseteq f /\ t < row[c].created
<1>1. IsFiniteSet(f) /\ IsFiniteSet(g)
  BY FiniteSetsOfP, FS_Subset DEF P!Constants
<1>2. Cardinality(f) \in Nat /\ Cardinality(g) \in Nat
  BY <1>1, FS_CardinalityType
<1>3. f \subseteq g => Cardinality(f) <= Cardinality(g) /\ (Cardinality(f) = Cardinality(g) => f = g)
  BY <1>1, FS_Subset
<1>4. g \subseteq f => Cardinality(g) <= Cardinality(f) /\ (Cardinality(f) = Cardinality(g) => f = g)
  BY <1>1, FS_Subset
<1>5. P!CandidateIsParent(a, t, c) <=>
        \/ Cardinality(g) > Cardinality(f)
        \/ Cardinality(g) = Cardinality(f) /\ row[c].created <= t
  BY FiniteSetsOfP DEF P!CandidateIsParent
<1>6. P!CandidateIsParent(a, t, c) /\ g \subseteq f => row[c].created <= t
  BY <1>2, <1>4, <1>5
<1>7. ASSUME ~P!CandidateIsParent(a, t, c), f \subseteq g PROVE g \subseteq f /\ t < row[c].created
  <2>1. Cardinality(f) = Cardinality(g)
    BY <1>2, <1>3, <1>5, <1>7
  <2>2. ~(row[c].created <= t)
    BY <1>5, <1>7, <2>1
  <2> QED
    BY <1>3, <1>7, <2>1, <2>2
<1> QED
  BY <1>6, <1>7 DEF Above

\* The planned link goes to a parent, or takes over one that does not fill as much or is younger.
LEMMA AloneSelectParent ==
  ASSUME P!Constants, PostInv, AloneInv, NEW w \in Workers, P!SelectParent(w) PROVE AloneInv'
<1>1. PICK o : o = worker[w]
  OBVIOUS
<1>2. /\ o \in Works /\ o.at = "merge" /\ o.of \in Announcements /\ PostType
      /\ Sound(o, row, review, published, interrupted, input.flagged)
      /\ o.candidate \in Announcements
  BY <1>1, AtWorker, WorkFacts DEF P!SelectParent
<1>3. /\ row' = row /\ input' = input /\ crossed' = crossed /\ interrupted' = interrupted
      /\ actions' = actions /\ clock' = clock /\ since' = since /\ outlived' = outlived
  BY DEF P!SelectParent, P!deliveries
<1>4. OwnRows(row, row', input.fields, o.of, since[w])
  BY <1>3 DEF OwnRows, RowsStay
<1>5. PICK t \in Nat : t = since[w]
  BY <1>2 DEF PostType, Timed
<1>6. PICK x : x = IF P!CandidateIsParent(o.of, t, o.candidate)
                   THEN [at |-> "link", of |-> o.of, child |-> o.of, parent |-> o.candidate,
                         fields |-> input.fields[o.of]]
                   ELSE [at |-> "saveparent", of |-> o.of, child |-> o.candidate,
                         parent |-> o.of, fields |-> row[o.candidate].fields]
  OBVIOUS
<1>7. worker' = [worker EXCEPT ![w] = x]
  BY <1>1, <1>5, <1>6 DEF P!SelectParent
<1>8. /\ input.fields[o.of] \in SUBSET Fields /\ o.candidate # o.of
      /\ row[o.candidate].fields \in SUBSET Fields /\ row[o.candidate].created \in Nat
  BY <1>2, RowFacts DEF PostType, P!Constants, Sound
<1>9. /\ P!CandidateIsParent(o.of, t, o.candidate) =>
           Above(row, o.candidate, input.fields[o.of], t)
      /\ ~P!CandidateIsParent(o.of, t, o.candidate)
           /\ input.fields[o.of] \subseteq row[o.candidate].fields =>
           row[o.candidate].fields \subseteq input.fields[o.of] /\ t < row[o.candidate].created
  <2>1. PICK a \in Announcements, c \in Announcements, f \in SUBSET Fields, g \in SUBSET Fields :
          a = o.of /\ c = o.candidate /\ f = input.fields[a] /\ g = row[c].fields
    BY <1>2, <1>8
  <2>2. row[c].created \in Nat
    BY <1>8, <2>1
  <2>3. /\ P!CandidateIsParent(a, t, c) => Above(row, c, f, t)
        /\ ~P!CandidateIsParent(a, t, c) /\ f \subseteq g => g \subseteq f /\ t < row[c].created
    BY <2>1, <2>2, ParentChosen
  <2> QED
    BY <2>1, <2>3
<1>10. /\ x.of = o.of
       /\ \/ /\ x.at = "link" /\ x.parent = o.candidate /\ x.fields = input.fields[o.of]
             /\ Above(row, o.candidate, input.fields[o.of], t)
          \/ /\ x.at = "saveparent" /\ x.child = o.candidate /\ x.parent = o.of
             /\ x.fields = row[o.candidate].fields
             /\ input.fields[o.of] \subseteq x.fields =>
                  x.fields \subseteq input.fields[o.of] /\ t < row[o.candidate].created
  BY <1>6, <1>9
<1>11. Alone => AloneOk(x, t, row, input.fields, interrupted)
  <2>1. Alone => IsTop(row, o.candidate)
    BY <1>1, <1>2 DEF AloneInv, AloneOk
  <2> QED
    BY <1>8, <1>10, <2>1 DEF AloneOk
<1>12. Alone => AloneOk(x, since[w], row', input.fields, interrupted)
  BY <1>3, <1>5, <1>11
<1>13. worker[w].at # "idle" /\ worker[w].at \in Open /\ x.of = worker[w].of
  BY <1>1, <1>2, <1>10 DEF Open, Undone
<1> QED
  BY <1>1, <1>3, <1>4, <1>7, <1>12, <1>13, AloneWorker

\* An announcement that takes over a stored one is saved as a parent, unless it has a row from an
\* earlier attempt.
LEMMA AloneSaveParent ==
  ASSUME P!Constants, PostInv, AloneInv, NEW w \in Workers, P!SaveParent(w) PROVE AloneInv'
<1>1. PICK o : o = worker[w]
  OBVIOUS
<1>2. /\ o \in Works /\ o.at \in {"new", "saveparent"} /\ o.of \in Announcements /\ PostType
      /\ Sound(o, row, review, published, interrupted, input.flagged)
      /\ o \in Holding \cup Weighing \cup Linking
  BY <1>1, AtWorker, WorkFacts DEF P!SaveParent
<1>3. PICK t \in Nat : t = since[w]
  BY <1>2 DEF PostType, Timed
<1>4. /\ input' = input /\ crossed' = crossed /\ interrupted' = interrupted
      /\ row' = SavedRows(o.of, "active", t) /\ actions' = actions
      /\ clock' = clock /\ since' = since /\ outlived' = outlived
  BY <1>1, <1>3 DEF P!SaveParent, SavedRows, P!deliveries
<1>5. OwnRows(row, row', input.fields, o.of, t)
  BY <1>2, <1>4, SavedOwnRows DEF P!Status
<1>6. PICK x : x = [o EXCEPT !.at = IF o.at = "new" THEN "publish" ELSE "publishlink"]
  OBVIOUS
<1>7. worker' = [worker EXCEPT ![w] = x]
  BY <1>1, <1>6 DEF P!SaveParent
<1>8. /\ x.of = o.of
      /\ o.at = "new" => x.at = "publish"
      /\ o.at = "saveparent" => /\ x.at = "publishlink" /\ x.child = o.child
                                /\ x.parent = o.parent /\ x.fields = o.fields
  BY <1>2, <1>6 DEF Holding, Weighing, Linking
<1>9. CASE o.at = "new"
  <2>1. x.at \notin Open
    BY <1>8, <1>9 DEF Undone, Open
  <2> QED
    BY <1>1, <1>3, <1>4, <1>5, <1>7, <1>8, <1>9, <2>1, AloneDone
<1>10. CASE o.at = "saveparent"
  <2>1. worker[w].at # "idle" /\ worker[w].at \in Open
    BY <1>1, <1>10 DEF Open, Undone
  <2> SUFFICES ASSUME Alone PROVE AloneOk(x, t, row', input.fields, interrupted)
    BY <1>1, <1>3, <1>4, <1>5, <1>7, <1>8, <2>1, AloneWorker
  <2>2. AloneOk(o, t, row, input.fields, interrupted)
    BY <1>1, <1>3 DEF AloneInv
  <2>3. o.parent = o.of /\ (o.of \notin interrupted => ~Has(row, o.of))
    BY <1>2, <1>10 DEF Sound, SavedAt
  <2>4. PICK rw : rw = row'
    OBVIOUS
  <2>5. AloneOk(o, t, rw, input.fields, interrupted)
    BY <1>2, <1>5, <2>2, <2>4, AloneStays DEF OwnRows
  <2>6. o.of \notin interrupted => IsTop(rw, o.of)
    <3>1. rw = SavedRows(o.of, "active", t) /\ "active" \in P!Status
      BY <1>4, <2>4 DEF P!Status
    <3>2. Has(rw, o.of) /\ (~Has(row, o.of) => rw[o.of].parent = P!NoOne)
      BY <1>2, <3>1, SaveResult
    <3> QED
      BY <2>3, <3>2 DEF IsTop
  <2> QED
    BY <1>8, <1>10, <2>3, <2>4, <2>5, <2>6 DEF AloneOk
<1> QED
  BY <1>2, <1>9, <1>10

\* Announcing a parent does not touch the planned link.
LEMMA AlonePublish ==
  ASSUME P!Constants, PostInv, AloneInv, NEW w \in Workers, P!PublishPersisted(w)
  PROVE  AloneInv'
<1>1. PICK o : o = worker[w]
  OBVIOUS
<1>2. /\ o \in Works /\ o.at \in {"publish", "publishlink"}
      /\ o \in Holding \cup Weighing \cup Linking
  BY <1>1, AtWorker, WorkFacts DEF P!PublishPersisted
<1>3. /\ row' = row /\ input' = input /\ crossed' = crossed /\ interrupted' = interrupted
      /\ actions' = actions /\ clock' = clock /\ since' = since /\ outlived' = outlived
  BY DEF P!PublishPersisted, P!deliveries
<1>4. OwnRows(row, row', input.fields, o.of, since[w])
  BY <1>3 DEF OwnRows, RowsStay
<1>5. PICK x : x = [o EXCEPT !.at = IF o.at = "publish" THEN "decided" ELSE "link"]
  OBVIOUS
<1>6. worker' = [worker EXCEPT ![w] = x]
  BY <1>1, <1>5 DEF P!PublishPersisted
<1>7. /\ x.of = o.of
      /\ o.at = "publish" => x.at = "decided"
      /\ o.at = "publishlink" => /\ x.at = "link" /\ x.child = o.child /\ x.parent = o.parent
                                 /\ x.fields = o.fields
  BY <1>2, <1>5 DEF Holding, Weighing, Linking
<1>8. Alone => AloneOk(x, since[w], row', input.fields, interrupted)
  <2>1. Alone => AloneOk(o, since[w], row, input.fields, interrupted)
    BY <1>1 DEF AloneInv
  <2> QED
    BY <1>2, <1>3, <1>7, <2>1 DEF AloneOk
<1>9. worker[w].at # "idle" /\ (x.at \in Open => worker[w].at \in Open)
  BY <1>1, <1>2, <1>7 DEF Open, Undone
<1> QED
  BY <1>1, <1>3, <1>4, <1>6, <1>7, <1>8, <1>9, AloneWorker

\* The new parent gathers what its child brings; a parent that is a child itself is a redelivered
\* announcement, which may have gathered more than its own parent.
LEMMA GatheredLinked ==
  ASSUME PostInv, P!Constants, NEW c \in Announcements, NEW p \in Announcements, c # p,
         Has(row, p), NEW f \in SUBSET Fields, NEW t \in Nat, NEW rw,
         Linked(row, rw, c, f, t, p), NEW flds, NEW int, Gathered(row, flds, int),
         flds[c] \subseteq f,
         Has(row, c) /\ c \notin int => f = row[c].fields,
         p \notin int => IsTop(row, p),
         c \notin int /\ rw # row => Above(rw, p, rw[c].fields, rw[c].created)
  PROVE  Gathered(rw, flds, int)
<1>1. row \in Rows /\ References(row, review) /\ P!NoOne \notin Announcements
  BY DEF PostInv, PostType, P!Constants
<1>2. /\ rw[c].parent = p /\ \A b \in Announcements \ {c, p} : rw[b] = row[b]
      /\ rw[p].parent = row[p].parent /\ rw[p].created = row[p].created
      /\ ~Has(row, c) => rw[c].fields = f
      /\ Has(row, c) => rw[c].fields = row[c].fields /\ rw[c].created = row[c].created
      /\ rw = row \/ rw[p].fields = row[p].fields \cup f
  BY DEF Linked
<1>3. CASE rw = row
  BY <1>3
<1>4. CASE rw # row
  <2>0. rw[p].fields = row[p].fields \cup f
    BY <1>2, <1>4
  <2>1. \A b \in Announcements : Has(row, b) =>
          row[b].fields \subseteq rw[b].fields /\ rw[b].created = row[b].created
    BY <1>2, <2>0
  <2> SUFFICES ASSUME NEW a \in Announcements, Has(rw, a)
               PROVE  /\ flds[a] \subseteq rw[a].fields
                      /\ rw[a].parent # P!NoOne =>
                           /\ flds[a] \subseteq rw[rw[a].parent].fields
                           /\ a \notin int =>
                                /\ rw[a].fields \subseteq rw[rw[a].parent].fields
                                /\ Above(rw, rw[a].parent, rw[a].fields, rw[a].created)
    BY DEF Gathered
  <2>2. CASE a = c
    <3>1. flds[c] \subseteq rw[c].fields
      BY <1>2 DEF Gathered
    <3>2. c \notin int => rw[c].fields \subseteq f
      BY <1>2
    <3> QED
      BY <1>2, <1>4, <2>0, <2>2, <3>1, <3>2
  <2>3. CASE a # c
    <3>1. Has(row, a) /\ rw[a].parent = row[a].parent
      BY <1>2, <2>3 DEF Has
    <3>2. flds[a] \subseteq rw[a].fields
      BY <2>1, <3>1 DEF Gathered
    <3>3. CASE row[a].parent = P!NoOne
      BY <3>1, <3>2, <3>3
    <3>4. CASE row[a].parent # P!NoOne
      <4>1. PICK q : q = row[a].parent
        OBVIOUS
      <4>2. q \in Announcements /\ Has(row, q)
        BY <1>1, <3>1, <3>4, <4>1, RowFacts DEF References
      <4>3. /\ flds[a] \subseteq row[q].fields
            /\ a \notin int => /\ row[a].fields \subseteq row[q].fields
                               /\ Above(row, q, row[a].fields, row[a].created)
        BY <3>1, <3>4, <4>1 DEF Gathered
      <4>4. row[q].fields \subseteq rw[q].fields /\ rw[q].created = row[q].created
        BY <2>1, <4>2
      <4>5. a \notin int => rw[a].fields = row[a].fields /\ rw[a].created = row[a].created
        BY <1>2, <2>3, <3>4 DEF IsTop
      <4>6. a \notin int => Above(rw, q, rw[a].fields, rw[a].created)
        BY <4>3, <4>4, <4>5 DEF Above
      <4> QED
        BY <3>1, <3>2, <4>1, <4>3, <4>4, <4>5, <4>6
    <3> QED
      BY <3>3, <3>4
  <2> QED
    BY <2>2, <2>3
<1> QED
  BY <1>3, <1>4

\* A link to a parent closes no ring: the parent is in none.
LEMMA NoRingBelow ==
  ASSUME P!Constants, NEW c \in Announcements, NEW p \in Announcements, c # p,
         NEW f, NEW t, NEW rw, Linked(row, rw, c, f, t, p), IsTop(row, p), NoRing(row)
  PROVE  NoRing(rw)
<1> SUFFICES ASSUME NEW S \in SUBSET Announcements, S # {},
                    \A a \in S : Has(rw, a) /\ rw[a].parent \in S
             PROVE  FALSE
  BY DEF NoRing
<1>1. /\ rw[c].parent = p /\ \A b \in Announcements \ {c, p} : rw[b] = row[b]
      /\ rw[p].parent = P!NoOne /\ P!NoOne \notin Announcements
  BY DEF IsTop, P!Constants, Linked
<1>2. p \notin S
  BY <1>1
<1>3. c \notin S
  BY <1>1, <1>2
<1>4. \A a \in S : Has(row, a) /\ row[a].parent \in S
  BY <1>1, <1>2, <1>3 DEF Has
<1> QED
  BY <1>4 DEF NoRing

\* Nor does a link of a parent below a redelivered announcement it does not fill as much as, or
\* fills the same as and is younger than: up from that announcement everything fills what it
\* fills, and what fills no more is older.
LEMMA NoRingAbove ==
  ASSUME P!Constants, NEW c \in Announcements, NEW p \in Announcements, c # p,
         row \in Rows, References(row, review),
         NEW f, NEW t \in Nat, NEW rw, Linked(row, rw, c, f, t, p),
         Has(row, p), p \in interrupted, AtMostOne(interrupted), IsTop(row, c),
         NEW flds, Gathered(row, flds, interrupted),
         flds[p] \subseteq row[c].fields => row[c].fields \subseteq flds[p] /\ t < row[c].created,
         row[p].created <= t,
         row[p].parent # P!NoOne => Above(row, row[p].parent, flds[p], t),
         NoRing(row)
  PROVE  NoRing(rw)
<1> SUFFICES ASSUME NEW S \in SUBSET Announcements, S # {},
                    \A a \in S : Has(rw, a) /\ rw[a].parent \in S
             PROVE  FALSE
  BY DEF NoRing
<1>1. /\ rw[c].parent = p /\ \A b \in Announcements \ {c, p} : rw[b] = row[b]
      /\ rw[p].parent = row[p].parent /\ P!NoOne \notin Announcements
  BY DEF P!Constants, Linked
<1>2. \A a \in S \ {c} : Has(row, a) /\ row[a].parent \in S
  BY <1>1 DEF Has
<1>3. c \in S
  BY <1>2 DEF NoRing
<1>4. p \in S
  BY <1>1, <1>3
<1>5. PICK T \in SUBSET Announcements :
        T = {a \in S : /\ flds[p] \subseteq row[a].fields
                       /\ row[a].fields \subseteq flds[p] => row[a].created <= t}
  OBVIOUS
<1>6. row[c].created \in Nat
  BY RowFacts DEF IsTop
<1>7. p \in T /\ c \notin T
  <2>1. p \in T
    BY <1>4, <1>5 DEF Gathered
  <2>2. c \notin T
    BY <1>5, <1>6
  <2> QED
    BY <2>1, <2>2
<1>8. ASSUME NEW a \in T PROVE Has(row, a) /\ row[a].parent \in T
  <2>1. PICK q : q = row[a].parent
    OBVIOUS
  <2>2. /\ a \in S /\ Has(row, a) /\ q \in S /\ flds[p] \subseteq row[a].fields
        /\ row[a].fields \subseteq flds[p] => row[a].created <= t
    BY <1>2, <1>5, <1>7, <2>1
  <2>3. q # P!NoOne /\ Has(row, q)
    BY <1>1, <2>1, <2>2 DEF References
  <2>4. row[q].created \in Nat /\ row[a].created \in Nat
    BY <2>2, <2>3, RowFacts
  <2>5. CASE a \notin interrupted
    <3>1. /\ row[a].fields \subseteq row[q].fields
          /\ row[q].fields \subseteq row[a].fields => row[q].created <= row[a].created
      BY <2>1, <2>2, <2>3, <2>5 DEF Gathered, Above
    <3>2. flds[p] \subseteq row[q].fields
      BY <2>2, <3>1
    <3>3. row[q].fields \subseteq flds[p] => row[q].created <= t
      <4> HAVE row[q].fields \subseteq flds[p]
      <4>1. row[q].created <= row[a].created /\ row[a].created <= t
        BY <2>2, <3>1
      <4> QED
        BY <2>4, <4>1
    <3> QED
      BY <1>5, <2>1, <2>2, <3>2, <3>3
  <2>6. CASE a \in interrupted
    <3>1. a = p
      BY <2>6 DEF AtMostOne
    <3>2. flds[p] \subseteq row[q].fields
      BY <2>1, <2>2, <2>3, <3>1 DEF Gathered
    <3>3. row[q].fields \subseteq flds[p] => row[q].created <= t
      BY <2>1, <2>3, <3>1 DEF Above
    <3> QED
      BY <1>5, <2>1, <2>2, <3>2, <3>3
  <2> QED
    BY <2>5, <2>6
<1> QED
  BY <1>7, <1>8 DEF NoRing

\* A link no decision crosses closes no ring, and leaves the times as they have to be.
LEMMA AloneLink ==
  ASSUME P!Constants, PostInv, AloneInv, NEW w \in Workers, P!Link(w) PROVE AloneInv'
<1>1. PICK o : o = worker[w]
  OBVIOUS
<1>2. /\ o \in Works /\ o.at = "link" /\ o.of \in Announcements /\ PostType
      /\ Sound(o, row, review, published, interrupted, input.flagged)
      /\ o.child \in Announcements /\ o.parent \in Announcements /\ o.fields \in SUBSET Fields
      /\ OnePlace /\ References(row, review) /\ row \in Rows
  BY <1>1, AtWorker, WorkFacts DEF P!Link, PostInv, PostType
<1>3. PICK t \in Nat : t = since[w]
  BY <1>2 DEF PostType, Timed
<1>4. PICK c \in Announcements, p \in Announcements, f \in SUBSET Fields :
        c = o.child /\ p = o.parent /\ f = o.fields
  BY <1>2
<1>5. PICK rw : rw = P!LinkChild(c, f, t, p)
  OBVIOUS
<1>6. PICK flds : flds = input.fields
  OBVIOUS
<1>7. /\ row' = rw /\ worker' = [worker EXCEPT ![w] = [at |-> "decided", of |-> o.of]]
      /\ actions' = actions /\ interrupted' = interrupted /\ input' = input
      /\ clock' = clock /\ since' = since /\ outlived' = outlived
      /\ crossed' = (crossed \/ P!Deciding # {w} \/ admin.at # "idle")
  BY <1>1, <1>3, <1>4, <1>5 DEF P!Link, P!deliveries
<1>8. actions \in Nat /\ IsFiniteSet(interrupted)
  BY DEF AloneInv
<1> SUFFICES ASSUME Alone'
             PROVE  /\ NoRing(rw) /\ Gathered(rw, flds, interrupted) /\ Dated(rw, since, clock)
                    /\ \A v \in Workers :
                         /\ Aged(worker'[v], since[v], rw, flds)
                         /\ AloneOk(worker'[v], since[v], rw, flds, interrupted)
  BY <1>6, <1>7, <1>8 DEF AloneInv
<1>9. Alone /\ P!Deciding = {w} /\ AtMostOne(interrupted)
  BY <1>7 DEF Alone
<1>10. /\ NoRing(row) /\ Gathered(row, flds, interrupted) /\ Dated(row, since, clock)
       /\ Aged(o, t, row, flds) /\ AloneOk(o, t, row, flds, interrupted)
       /\ \A v \in Workers : Aged(worker[v], since[v], row, flds)
  BY <1>1, <1>3, <1>6, <1>9 DEF AloneInv
<1>11. /\ c # p
       /\ c # o.of => Has(row, c)
       /\ p # o.of => /\ c = o.of /\ IsTop(row, p) /\ f = flds[c] /\ Above(row, p, flds[c], t)
                      /\ c \notin interrupted => ~Has(row, c)
       /\ p = o.of => Has(row, p) /\ IsTop(row, c) /\ f = row[c].fields
  BY <1>2, <1>4, <1>10 DEF Sound, SavedAt, AloneOk
<1>12. p = o.of =>
         /\ flds[p] \subseteq f => f \subseteq flds[p] /\ t < row[c].created
         /\ p \notin interrupted => IsTop(row, p)
         /\ row[p].created <= t
         /\ row[p].parent # P!NoOne => Above(row, row[p].parent, flds[p], t)
  <2>1. p = o.of => /\ flds[p] \subseteq f => f \subseteq flds[p] /\ t < row[c].created
                    /\ p \notin interrupted => IsTop(row, p)
    BY <1>2, <1>4, <1>10 DEF AloneOk
  <2>2. p = o.of => /\ row[p].created <= t
                    /\ row[p].parent # P!NoOne => Above(row, row[p].parent, flds[p], t)
    BY <1>2, <1>10, <1>11 DEF Aged, Open, Undone
  <2> QED
    BY <2>1, <2>2
<1>13. Has(row, p) /\ Linked(row, rw, c, f, t, p)
  <2>1. Has(row, p)
    BY <1>11 DEF IsTop
  <2> QED
    BY <1>5, <1>11, <2>1, LinkResult
<1>14. \A b \in Announcements : Has(row, b) =>
         /\ row[b].fields \subseteq rw[b].fields /\ rw[b].created = row[b].created
         /\ b # c => rw[b].parent = row[b].parent
  BY <1>13 DEF Linked
<1>15. \A b \in Announcements : ~Has(row, b) /\ Has(rw, b) =>
         b = c /\ c = o.of /\ rw[b].created = t
  BY <1>11, <1>13 DEF Linked, Has
<1>16. c \notin interrupted /\ rw # row => Above(rw, p, rw[c].fields, rw[c].created)
  <2> SUFFICES ASSUME c \notin interrupted, rw # row, rw[p].fields \subseteq rw[c].fields
               PROVE  rw[p].created <= rw[c].created
    BY DEF Above
  <2>1. /\ rw[p].fields = row[p].fields \cup f /\ rw[p].created = row[p].created
        /\ ~Has(row, c) => rw[c].fields = f /\ rw[c].created = t
        /\ Has(row, c) => rw[c].fields = row[c].fields /\ rw[c].created = row[c].created
    BY <1>13 DEF Linked
  <2>2. CASE p # o.of
    <3>1. ~Has(row, c) /\ f = flds[c] /\ Above(row, p, flds[c], t)
      BY <1>11, <2>2
    <3> QED
      BY <2>1, <3>1 DEF Above
  <2>3. CASE p = o.of
    <3>1. Has(row, c) /\ f = row[c].fields /\ flds[p] \subseteq row[p].fields
      BY <1>10, <1>11, <1>13, <2>3 DEF IsTop, Gathered
    <3>2. t < row[c].created /\ row[p].created <= t
      BY <1>12, <2>1, <2>3, <3>1
    <3>3. row[c].created \in Nat /\ row[p].created \in Nat
      BY <1>2, <1>13, <3>1, RowFacts
    <3> QED
      BY <2>1, <3>1, <3>2, <3>3
  <2> QED
    BY <2>2, <2>3
<1>17. Gathered(rw, flds, interrupted)
  <2>1. flds[c] \subseteq f
    BY <1>10, <1>11 DEF Gathered, IsTop
  <2>2. Has(row, c) /\ c \notin interrupted => f = row[c].fields
    BY <1>11
  <2>3. p \notin interrupted => IsTop(row, p)
    BY <1>11, <1>12
  <2> QED
    BY <1>10, <1>11, <1>13, <1>16, <2>1, <2>2, <2>3, GatheredLinked
<1>18. NoRing(rw)
  <2>1. CASE IsTop(row, p)
    BY <1>10, <1>11, <1>13, <2>1, NoRingBelow
  <2>2. CASE ~IsTop(row, p)
    <3>1. p = o.of /\ p \in interrupted
      BY <1>11, <1>12, <2>2
    <3>2. /\ flds[p] \subseteq row[c].fields =>
               row[c].fields \subseteq flds[p] /\ t < row[c].created
          /\ row[p].created <= t /\ IsTop(row, c)
          /\ row[p].parent # P!NoOne => Above(row, row[p].parent, flds[p], t)
      BY <1>11, <1>12, <3>1
    <3> QED
      BY <1>2, <1>9, <1>10, <1>11, <1>13, <3>1, <3>2, NoRingAbove
  <2> QED
    BY <2>1, <2>2
<1>19. Dated(rw, since, clock)
  <2> SUFFICES ASSUME NEW b \in Announcements, Has(rw, b) PROVE rw[b].created < clock
    BY <1>10 DEF Dated
  <2>1. CASE Has(row, b)
    BY <1>10, <1>14, <2>1 DEF Dated
  <2>2. CASE ~Has(row, b)
    BY <1>3, <1>10, <1>15, <2>2 DEF Dated
  <2> QED
    BY <2>1, <2>2
<1>20. ASSUME NEW v \in Workers
       PROVE  worker'[v].at \notin Undone /\ Aged(worker'[v], since[v], rw, flds)
  <2>1. CASE v = w
    <3>1. PICK x : x = [at |-> "decided", of |-> o.of]
      OBVIOUS
    <3>2. worker'[v] = x /\ since[v] = t /\ x.at \notin Open /\ x.at \notin Undone /\ x.of = o.of
      BY <1>2, <1>3, <1>7, <2>1, <3>1 DEF PostType, Open, Undone
    <3>3. Has(rw, o.of) => rw[o.of].created <= t
      <4>1. CASE Has(row, o.of)
        BY <1>2, <1>10, <1>14, <4>1 DEF Aged
      <4>2. CASE ~Has(row, o.of)
        BY <1>2, <1>15, <4>2
      <4> QED
        BY <4>1, <4>2
    <3> QED
      BY <3>2, <3>3 DEF Aged
  <2>2. CASE v # w
    <3>1. PICK y \in Works : y = worker[v]
      BY <1>2 DEF PostType
    <3>2. PICK s \in Nat : s = since[v]
      BY <1>2 DEF PostType, Timed
    <3>3. worker'[v] = y /\ y.at \notin Undone
      BY <1>2, <1>7, <1>9, <2>2, <3>1 DEF PostType, Undone, P!Deciding
    <3>4. Aged(y, s, row, flds)
      BY <1>10, <3>1, <3>2
    <3>5. ASSUME y.at # "idle", Has(rw, y.of)
          PROVE  /\ rw[y.of].created <= s
                 /\ y.at \in Open /\ rw[y.of].parent # P!NoOne =>
                      Above(rw, rw[y.of].parent, flds[y.of], s)
      <4>1. y.of \in Announcements /\ y.of # o.of
        BY <1>1, <1>2, <1>9, <2>2, <3>1, <3>5, WorkFacts DEF OnePlace, Single, Alone
      <4>2. Has(row, y.of)
        BY <1>15, <3>5, <4>1
      <4>3. rw[y.of].created = row[y.of].created /\ row[y.of].created <= s
        BY <1>14, <3>4, <3>5, <4>1, <4>2 DEF Aged
      <4>4. ASSUME y.at \in Open, rw[y.of].parent # P!NoOne, y.of # c
            PROVE  Above(rw, rw[y.of].parent, flds[y.of], s)
        <5>1. rw[y.of].parent = row[y.of].parent
          BY <1>14, <4>1, <4>2, <4>4
        <5>2. PICK q : q = row[y.of].parent
          OBVIOUS
        <5>3. q \in Announcements /\ Has(row, q)
          BY <1>2, <4>1, <4>2, <4>4, <5>1, <5>2, RowFacts DEF References
        <5>4. Above(row, q, flds[y.of], s)
          BY <3>4, <3>5, <4>2, <4>4, <5>1, <5>2 DEF Aged
        <5> QED
          BY <1>14, <5>1, <5>2, <5>3, <5>4 DEF Above
      <4>5. ASSUME y.at \in Open, y.of = c PROVE Above(rw, p, flds[c], s)
        <5>1. p = o.of /\ Has(row, c) /\ f = row[c].fields
          BY <1>11, <4>1, <4>2, <4>5
        <5>2. CASE rw = row
          <6>1. row[c].parent = p /\ p # P!NoOne
            BY <1>13, <5>2 DEF Linked, P!Constants
          <6> QED
            BY <3>4, <3>5, <4>2, <4>5, <5>2, <6>1 DEF Aged
        <5>3. CASE rw # row
          <6> SUFFICES ASSUME rw[p].fields \subseteq flds[c] PROVE rw[p].created <= s
            BY DEF Above
          <6>1. rw[p].fields = row[p].fields \cup f /\ rw[p].created = row[p].created
            BY <1>13, <5>3 DEF Linked
          <6>2. flds[p] \subseteq row[p].fields /\ flds[c] \subseteq row[c].fields
            BY <1>10, <1>13, <5>1 DEF Gathered
          <6>3. t < row[c].created /\ row[p].created <= t
            BY <1>12, <5>1, <6>1, <6>2
          <6>4. row[c].created \in Nat /\ row[p].created \in Nat
            BY <1>2, <1>13, <5>1, RowFacts
          <6>5. row[c].created <= s
            BY <4>3, <4>5
          <6> QED
            BY <6>1, <6>3, <6>4, <6>5
        <5> QED
          BY <5>2, <5>3
      <4>6. rw[c].parent = p
        BY <1>13 DEF Linked
      <4> QED
        BY <4>3, <4>4, <4>5, <4>6
    <3> QED
      BY <3>2, <3>3, <3>5 DEF Aged
  <2> QED
    BY <2>1, <2>2
<1>21. \A v \in Workers : AloneOk(worker'[v], since[v], rw, flds, interrupted)
  BY <1>20 DEF AloneOk, Undone
<1> QED
  BY <1>17, <1>18, <1>19, <1>20, <1>21

\* Every step keeps the rows free of rings, or leaves the conditions for it.
LEMMA AloneStep ==
  ASSUME P!Constants, PostInv, AloneInv, [P!Next]_(P!vars) PROVE AloneInv'
<1>1. ASSUME NEW w \in Workers, P!Process(w) PROVE AloneInv'
  BY <1>1, AloneTake, AloneSimple, AloneEvaluate, AloneSelectParent, AloneSaveParent,
     AlonePublish, AloneLink DEF P!Process
<1>2. ASSUME NEW a \in Announcements, NEW r \in P!ReviewReason, NEW e \in P!ReviewStatus,
             P!MarkAsNew(a, r, e) \/ P!MergeRelated(a, r, e) \/ P!Reject(a, r, e)
      PROVE  AloneInv'
  <2>1. actions' = actions + 1 /\ interrupted' = interrupted
    BY <1>2 DEF P!MarkAsNew, P!MergeRelated, P!Reject
  <2>2. actions \in Nat /\ IsFiniteSet(interrupted)
    BY DEF AloneInv
  <2>3. actions' \in Nat /\ actions' # 0
    BY <2>1, <2>2
  <2>4. ~Alone'
    BY <2>3 DEF Alone
  <2> QED
    BY <2>1, <2>2, <2>3, <2>4 DEF AloneInv
<1>3. CASE P!StoreItem \/ P!AdminRestart \/ UNCHANGED P!vars
  <2>1. /\ row' = row /\ input' = input /\ crossed' = crossed /\ actions' = actions
        /\ worker' = worker /\ since' = since /\ clock' = clock /\ outlived' = outlived
        /\ interrupted' = interrupted \/ \E a : interrupted' = interrupted \cup {a}
    BY <1>3 DEF P!StoreItem, P!AdminRestart, P!vars, P!deliveries
  <2>2. actions \in Nat
    BY DEF AloneInv
  <2>3. \A v \in Workers : worker'[v] = worker[v] /\ since'[v] = since[v]
    BY <2>1
  <2> QED
    BY <2>1, <2>2, <2>3, AloneOther
<1> QED
  BY <1>1, <1>2, <1>3 DEF P!Next, P!AdminActs

\* As long as no admin acted, no write crossed another process's decision, no worker went on
\* with a message the broker had back and at most one announcement's processing failed part way
\* (however often), no chain of parents closes on itself: for any number of announcements,
\* workers and fields there is a parent above every child (select_parent, with its tie on
\* created_at, and link_child).
THEOREM RingsNeverAlone ==
  ASSUME P!Constants PROVE P!Spec => []NoRingAlone
<1>1. P!Init => AloneInv
  <2> SUFFICES ASSUME P!Init PROVE AloneInv
    OBVIOUS
  <2>1. \A a \in Announcements : ~Has(row, a)
    BY DEF P!Init, Has
  <2>2. NoRing(row) /\ Gathered(row, input.fields, interrupted)
    BY <2>1 DEF NoRing, Gathered
  <2>3. \A w \in Workers : /\ Aged(worker[w], since[w], row, input.fields)
                           /\ AloneOk(worker[w], since[w], row, input.fields, interrupted)
    BY DEF P!Init, P!Idle, AloneOk, Aged
  <2>4. Dated(row, since, clock)
    BY <2>1 DEF P!Init, Dated
  <2>5. actions \in Nat /\ IsFiniteSet(interrupted)
    BY FS_EmptySet DEF P!Init
  <2> QED
    BY <2>2, <2>3, <2>4, <2>5 DEF AloneInv
<1>2. AloneInv => P!NoRingAlone
  <2> SUFFICES ASSUME AloneInv, ~crossed, ~outlived, actions = 0,
                      P!Cardinality(interrupted) <= 1,
                      NEW S \in SUBSET Announcements, P!Ring(S)
               PROVE  FALSE
    BY DEF P!NoRingAlone
  <2>1. IsFiniteSet(interrupted) /\ Cardinality(interrupted) <= 1
    BY FiniteSetsOfP DEF AloneInv
  <2>2. AtMostOne(interrupted)
    <3> SUFFICES ASSUME NEW a \in interrupted, NEW b \in interrupted, a # b PROVE FALSE
      BY DEF AtMostOne
    <3>1. IsFiniteSet({a}) /\ Cardinality({a}) = 1 /\ b \notin {a}
      BY FS_Singleton
    <3>2. IsFiniteSet({a} \cup {b}) /\ Cardinality({a} \cup {b}) = 1 + 1
      BY <3>1, FS_AddElement
    <3>3. Cardinality({a} \cup {b}) <= Cardinality(interrupted)
      <4>1. {a} \cup {b} \subseteq interrupted
        OBVIOUS
      <4> QED
        BY <2>1, <4>1, FS_Subset
    <3>4. Cardinality(interrupted) \in Nat
      BY <2>1, FS_CardinalityType
    <3> QED
      BY <2>1, <3>2, <3>3, <3>4
  <2>3. NoRing(row)
    BY <2>2 DEF AloneInv, Alone
  <2> QED
    BY <2>3 DEF NoRing, P!Ring, P!Child, P!Persisted, Has
<1>3. PostInv /\ AloneInv /\ [P!Next]_(P!vars) => AloneInv'
  BY AloneStep
<1> QED
  BY <1>1, <1>2, <1>3, PostInvariant, PTL DEF P!Spec, NoRingAlone
=============================================================================
