------------------------- MODULE ListingExtraction -------------------------
(***************************************************************************)
(* One extraction of the AI stage: the model fallback loop                 *)
(* (services/ai_client.py, ModelFallbackLLMClient) under its two fallback  *)
(* policies, then the worker's rental and quality gate on the response it  *)
(* returns (services/ai_worker.py, lines 178-293).                         *)
(*                                                                         *)
(* A response is reduced to what the two gates read; confidences are       *)
(* integers in percent.                                                    *)
(***************************************************************************)
EXTENDS Integers

CONSTANTS
  NumModels,            \* length of the configured model sequence
  Requests,             \* fallback_policy and number of required_listing_fields
  Answers,              \* the responses the models may give
  MinConfidence,        \* ai_min_confidence
  RentalMinConfidence,  \* rental_min_confidence
  RejectBelow,          \* AUTO_REJECT_THRESHOLD
  JunkRejectBelow       \* the literal 0.60 of the junk test

\* rental and type: is_rental_announcement and listing_type, "null" when the
\* model left them out; core: how many of the eight core signal fields are
\* filled; essential: the normalised listing is not junk text, that is it has a
\* description and price, rooms, district or a phone; missing: how many of the
\* required fields are not filled.
Responses ==
  [schema : BOOLEAN, rental : {"yes", "no", "null"}, type : {"rent", "sale", "null"},
   core : 0..8, essential : BOOLEAN, missing : Nat,
   conf : 0..100, rentalConf : 0..100]

ASSUME ExtractionAssumption ==
  /\ NumModels \in Nat \ {0}
  /\ Requests \subseteq [policy : {"listing_quality", "confidence_only"}, required : Nat]
  /\ Answers \subseteq Responses
  /\ {MinConfidence, RentalMinConfidence, RejectBelow, JunkRejectBelow} \subseteq 0..100

Nothing == [none |-> TRUE]

VARIABLES
  request,     \* the LLMRequest, fixed for the extraction
  stage,       \* the model to call next, 1..NumModels + 1
  candidates,  \* valid_candidates: responses kept with their fallback stage
  outcome,     \* "calling", "response" or "all_models_failed"
  selected,    \* the response complete_json returns
  answered     \* history: every response received, with its stage

vars == <<request, stage, candidates, outcome, selected, answered>>

Received == [response : Answers, stage : 1..NumModels]

Init ==
  /\ request \in Requests
  /\ stage = 1
  /\ candidates = {}
  /\ outcome = "calling"
  /\ selected = Nothing
  /\ answered = {}

ListingPolicy == request.policy = "listing_quality"

-----------------------------------------------------------------------------
(* _response_fallback_decision                                             *)

Conflict(r) ==
  \/ r.rental = "yes" /\ r.type = "sale"
  \/ r.rental = "no" /\ r.type = "rent"

NonRental(r) == r.rental = "no" \/ r.type = "sale"

Plausible(r) == r.rental = "yes" \/ r.type = "rent" \/ r.core >= 2

\* The listing-quality policy stops at a contradictory, non-rental or
\* implausible answer and at a plausible one that is complete enough.
ListingShouldRetry(r) ==
  \/ ~r.schema
  \/ /\ ~Conflict(r) /\ ~NonRental(r) /\ Plausible(r)
     /\ \/ r.missing > 0
        \/ r.core < 2
        \/ r.conf < MinConfidence /\ request.required = 0

ShouldRetry(r) ==
  IF ListingPolicy THEN ListingShouldRetry(r) ELSE r.conf < MinConfidence

Returnable(r) ==
  IF ListingPolicy THEN r.schema ELSE r.conf >= MinConfidence

RentalRank(r) == IF r.rental = "yes" THEN 2 ELSE IF r.type = "rent" THEN 1 ELSE 0

QualityRank(r) ==
  <<IF r.missing = 0 THEN 1 ELSE 0, request.required - r.missing, RentalRank(r), r.core, r.conf>>

Below(a, b) == \E i \in 1..5 : a[i] < b[i] /\ \A j \in 1..(i - 1) : a[j] = b[j]

-----------------------------------------------------------------------------
(* complete_json                                                           *)

Accept(r) ==
  /\ outcome = "calling" /\ stage <= NumModels
  /\ ~ShouldRetry(r)
  /\ outcome' = "response"
  /\ selected' = r
  /\ answered' = answered \cup {[response |-> r, stage |-> stage]}
  /\ UNCHANGED <<request, stage, candidates>>

TryNext(r) ==
  /\ outcome = "calling" /\ stage <= NumModels
  /\ ShouldRetry(r)
  /\ candidates' = IF Returnable(r) THEN candidates \cup {[response |-> r, stage |-> stage]}
                   ELSE candidates
  /\ stage' = stage + 1
  /\ answered' = answered \cup {[response |-> r, stage |-> stage]}
  /\ UNCHANGED <<request, outcome, selected>>

\* A retryable transport error, a malformed body or another model error.
ModelFails ==
  /\ outcome = "calling" /\ stage <= NumModels
  /\ stage' = stage + 1
  /\ UNCHANGED <<request, candidates, outcome, selected, answered>>

\* A transport error that is not retryable breaks out of the loop.
TransportRefuses ==
  /\ outcome = "calling" /\ stage <= NumModels
  /\ stage' = NumModels + 1
  /\ UNCHANGED <<request, candidates, outcome, selected, answered>>

\* Mutant of Best: the order of max is reversed.
Worst(c) ==
  \A d \in candidates : ~Below(QualityRank(d.response), QualityRank(c.response))

\* max returns the first of the candidates with the greatest rank.
Best(c) ==
  \A d \in candidates :
    /\ ~Below(QualityRank(c.response), QualityRank(d.response))
    /\ QualityRank(d.response) = QualityRank(c.response) => c.stage <= d.stage

ReturnBest ==
  /\ outcome = "calling" /\ stage > NumModels
  /\ \E c \in candidates : Best(c) /\ selected' = c.response
  /\ outcome' = "response"
  /\ UNCHANGED <<request, stage, candidates, answered>>

AllModelsFailed ==
  /\ outcome = "calling" /\ stage > NumModels
  /\ candidates = {}
  /\ outcome' = "all_models_failed"
  /\ UNCHANGED <<request, stage, candidates, selected, answered>>

Next ==
  \/ \E r \in Answers : r.missing <= request.required /\ (Accept(r) \/ TryNext(r))
  \/ ModelFails \/ TransportRefuses
  \/ ReturnBest \/ AllModelsFailed

Spec == Init /\ [][Next]_vars

-----------------------------------------------------------------------------
(* The worker's gate on the returned response                              *)

\* Mutant of IsRental: the contradiction between the two fields is not looked at.
IsRentalLenient(r) == IF r.rental = "null" THEN r.type # "sale" ELSE r.rental = "yes"
IsRental(r) ==
  /\ ~Conflict(r)
  /\ IF r.rental = "null" THEN r.type # "sale" ELSE r.rental = "yes"

RentalGate(r) == IsRental(r) /\ r.rentalConf > RentalMinConfidence

Junk(r) == ~r.essential

AutoRejected(r) == r.conf < RejectBelow \/ (Junk(r) /\ r.conf < JunkRejectBelow)

Status(r) ==
  IF ~RentalGate(r) \/ AutoRejected(r) THEN "failed"
  ELSE IF r.missing > 0 \/ r.conf < MinConfidence \/ Junk(r) THEN "manual_review"
  ELSE "succeeded"

-----------------------------------------------------------------------------
(* Properties                                                              *)

\* A response that satisfies the schema, or the confidence the caller asked for.
Usable(r) == IF ListingPolicy THEN r.schema ELSE r.conf >= MinConfidence

\* When no model is good enough the best usable response of all models is
\* returned, and of equally good ones the earliest model's, in whatever order
\* failures, refusals and weak responses came; none is returned only when no
\* model's was usable.
BestResponseReturned ==
  /\ outcome = "all_models_failed" => \A d \in answered : ~Usable(d.response)
  /\ outcome = "response" /\ stage > NumModels =>
    \E c \in answered :
      /\ c.response = selected
      /\ \A d \in answered :
           \/ ~Usable(d.response)
           \/ Below(QualityRank(d.response), QualityRank(selected))
           \/ QualityRank(d.response) = QualityRank(selected) /\ c.stage <= d.stage

\* What leaves for the post-AI queue is a rental by both classification fields,
\* with rental confidence above the threshold, whichever model's response the
\* loop selected.
OnlyRentalsLeave ==
  outcome = "response" /\ Status(selected) \in {"succeeded", "manual_review"} =>
    /\ selected.rental # "no" /\ selected.type # "sale"
    /\ selected.rentalConf > RentalMinConfidence

=============================================================================
