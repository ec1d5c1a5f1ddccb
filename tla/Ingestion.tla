----------------------------- MODULE Ingestion -----------------------------
(***************************************************************************)
(* A post on its way to the AI queue: the listeners and their album        *)
(* buffers (the module extended here), and the pre-AI worker with its      *)
(* parsers and its duplicate filter, with what is claimed of each.  Only   *)
(* the raw queue lies between them; here they share no state.              *)
(***************************************************************************)
EXTENDS AlbumBuffer

CONSTANTS
  Messages, EventOf, BindingOf, OriginOf,
  Workers, MaxRetries, MaxArrivals, MaxPreFaults

VARIABLES raw, tries, proc, index, ai, quarantine, preFaults

P == INSTANCE PreAiIngestion WITH MaxFaults <- MaxPreFaults, faults <- preFaults

-----------------------------------------------------------------------------
(* Properties. *)

\* Pre-AI stage: every listing of an acknowledged raw message is queued, in quarantine,
\* dropped on request or waits in another copy of the forward.
AckedIsAccounted == P!AckedIsAccounted

\* Pre-AI stage: no two candidates share an identity.
IdentitiesDistinct == P!IdentitiesDistinct
=============================================================================
