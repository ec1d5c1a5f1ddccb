----------------------------- MODULE Decisions -----------------------------
(***************************************************************************)
(* What decides the fate of a listing, side by side: its extraction (the   *)
(* module extended here), the duplicate decision, and the post-AI workers  *)
(* and admins who carry decisions out, with what is claimed of each.  They *)
(* share no state.                                                         *)
(***************************************************************************)
EXTENDS ListingExtraction, FiniteSets

CONSTANTS
  Paired, Limits,
  Announcements, Workers, Fields, MaxFaults, MaxActions, Inputs

VARIABLES
  repository, limit, stored, found, position, best, decision,
  input, queue, row, review, published, handled, worker, admin, faults, actions,
  interrupted, clock, since, stale, outlived, crossed

D == INSTANCE DedupScoring WITH candidates <- found
P == INSTANCE PostAiDedup

-----------------------------------------------------------------------------
(* Properties. *)

\* Duplicates: more evidence never makes the engine do less.
EvidenceNeverHurts == D!EvidenceNeverHurts

\* Duplicates: the query hides nothing else from the engine.
QueryGapsKnown == D!QueryGapsKnown

\* Post-AI: the workers alone close no ring of parents.
NoRingAlone == P!NoRingAlone

\* Post-AI: a parent has what its children gathered.
ParentCoversChild == P!ParentCoversChild

\* Post-AI: an acknowledged announcement is visible, merged or under review.
HandledIsReachable == P!HandledIsReachable

\* Post-AI: what was flagged is reviewed.
FlaggedIsReviewed == P!FlaggedIsReviewed

\* Post-AI: visible parents were announced.
VisibleIsPublished == P!VisibleIsPublished
=============================================================================
