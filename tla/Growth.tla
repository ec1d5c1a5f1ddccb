------------------------------- MODULE Growth -------------------------------
(***************************************************************************)
(* The services around users and admins, side by side: referrals, source   *)
(* suggestions, audience tags and content automation, and what is claimed  *)
(* of each.  They share no state.                                          *)
(***************************************************************************)
EXTENDS Naturals, Sequences, FiniteSets

CONSTANTS
  None,
  Users, Requests, Threshold, MaxAttempts,
  Suggesters, Decisions, Keys, MaxSubmits,
  Tags, Seeded, Near, Listings, Filters, TagKeys,
  Planned, Callers, DailyPostLimit, MaxRuns, MaxPermanent, MaxStrays

VARIABLES
  known, event, request, attempts, active, award, rpremium, told, raced,
  row, submits, saudit, enabled, premium, notices, scall, scrossed,
  tag, usage, resolving, refs, unchecked, audit, call, crossed, forced,
  clock, post, astray, strays, backoff, queue, caller, runs, sent, refusals, overlap

Ref == INSTANCE Referrals WITH premium <- rpremium
Sug == INSTANCE SourceSuggestions WITH Users <- Suggesters, audit <- saudit, call <- scall,
                                       crossed <- scrossed
Tag == INSTANCE AudienceTags WITH Keys <- TagKeys
Con == INSTANCE ContentAutomation

-----------------------------------------------------------------------------
(* Properties. *)

\* Referrals: the counters, the awards and the events agree.
AwardMatchesCount == Ref!AwardMatchesCount

\* Referrals: a cycle only by racing starts.
CycleOnlyByRace == Ref!CycleOnlyByRace

\* Source suggestions: one reward a channel, and an approved channel is enabled.
RewardedOnce == Sug!RewardedOnce

\* Audience tags: what is saved refers to approved tags, but for named exceptions.
RefsApproved == Tag!RefsApproved

\* Content automation: the daily cap.
CappedUnlessOverlap == Con!CappedUnlessOverlap
=============================================================================
