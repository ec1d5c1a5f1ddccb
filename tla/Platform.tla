------------------------------ MODULE Platform ------------------------------
(***************************************************************************)
(* What users and operators touch, side by side: release controls, the     *)
(* media of a listing, search, a user's dialogue with the bot, the         *)
(* combined queue worker, product metrics and operator alerts, and what is *)
(* claimed of each.  They share no state.                                  *)
(***************************************************************************)
EXTENDS Integers, Sequences

CONSTANTS
  Null,
  Admins, Flags, Users, MaxVersion, Initial,
  Refs, Runs, MediaFaults,
  Prices, Bounds,
  Order, Filters, MaxFilters, Slots, MaxInputs,
  Posts, MaxRetries, MaxFaults,
  Visitors, Horizon, MaxEvents, Windows,
  Reasons, Tasks, Window, RetryAfter, MaxTime

VARIABLES
  rows, audit, form, allowlist, sent,
  run, bucket, named, faults, repeated, left, inDoubt,
  raw, listing, query, criteria,
  wizard, nlp, understood, awaiting, pendingName, pendingEdit, filters, task, shown,
  inputs, agreed, overlapped,
  backend, serves, configured, published, queue, loop, saved, wleft, dead, wfaults, dropped,
  now, events,
  clock, alert, blocked, atask, requests, refused

Flag == INSTANCE ReleaseControls
Media == INSTANCE MediaStorage WITH MaxFaults <- MediaFaults
Search == INSTANCE SearchMatching
Bot == INSTANCE BotDialogue
Work == INSTANCE QueueConsumer WITH left <- wleft, faults <- wfaults
Metric == INSTANCE Metrics WITH Users <- Visitors, MaxTime <- Horizon
Alert == INSTANCE OpsAlerts WITH now <- clock, bucket <- alert, task <- atask

-----------------------------------------------------------------------------
(* Properties. *)

\* Release controls: the audit trail of a flag is a chain that ends in its row.
AuditIsAChain == Flag!AuditIsAChain

\* Media: what is stored is what listings name.
MediaAccounted == Media!MediaAccounted

\* Search: the searches differ only where it is known that they do.
SearchGapsKnown == Search!SearchGapsKnown

\* Bot: the filters are the ones asked for.
FiltersAreAsked == Bot!FiltersAreAsked

\* Worker: no stage loses a post but Redis.
PostAccounted == Work!PostAccounted

\* Metrics: the snapshot loses and repeats nobody.
SnapshotIsComplete == Metric!SnapshotIsComplete

\* Alerts: one request a reason and window, none in the cooldown.
AlertsAreSpaced == Alert!AlertsAreSpaced
=============================================================================
