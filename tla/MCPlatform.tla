----------------------------- MODULE MCPlatform -----------------------------
(***************************************************************************)
(* Platform for TLC: in every behavior one of the parts runs and the       *)
(* others stay as they are.                                                *)
(*                                                                         *)
(* Flags: two admins with a form each, three changes of a flag.            *)
(* Media: four references, two pairs that look alike, one unreadable; two  *)
(* deliveries, two faults.  Search: every listing and every query of the   *)
(* small sets below.  Bot: three filters at a limit of two.                *)
(* Worker: one post through three stages, two faults.  Metrics: one user   *)
(* over ten days, two windows of a day.  Alerts: two reasons, two tasks.   *)
(***************************************************************************)
EXTENDS Platform, TLC

CONSTANTS a1, a2, r1, r2, f1, f2, f3, s1, s2

VARIABLE which

Image(id, look, valid) == [id |-> id, look |-> look, valid |-> valid]

MCAdmins == {a1, a2}
MCFlags == {"bot_access", "content_publishing", "notifications"}
MCInitial == [bot_access |-> FALSE, content_publishing |-> TRUE, notifications |-> FALSE]
MCRefs == <<Image(1, "a", TRUE), Image(2, "a", TRUE), Image(3, "b", TRUE), Image(4, "b", FALSE)>>
MCRuns == {r1, r2}
MCOrder == <<"district", "basis", "audience", "done">>
MCFilters == {f1, f2, f3}
Waiting == {s1, s2}
MCWindows == {[start |-> 0, end |-> 2], [start |-> 2, end |-> 4]}
MCReasons == {"storage", "model"}

ASSUME Flag!Constants /\ Media!Constants /\ Search!Constants /\ Bot!Constants /\ Metric!Constants /\ Alert!Constants

flagVars == <<rows, audit, form, allowlist, sent>>
mediaVars == <<run, bucket, named, faults, repeated, left, inDoubt>>
searchVars == <<raw, listing, query, criteria>>
botVars == <<wizard, nlp, understood, awaiting, pendingName, pendingEdit, filters, task, shown,
             inputs, agreed, overlapped>>
workVars == <<backend, serves, configured, published, queue, loop, saved, wleft, dead, wfaults,
              dropped>>
metricVars == <<now, events>>
alertVars == <<clock, alert, blocked, atask, requests, refused>>

vars == <<which, flagVars, mediaVars, searchVars, botVars, workVars,
          metricVars, alertVars>>

\* The parts with several initial states, when they do not run.
NoSearch == raw = Null /\ listing = Null /\ query = Null /\ criteria = Null
NoDialogue ==
  /\ wizard = Bot!NoWizard /\ nlp = "off" /\ understood = {} /\ awaiting = FALSE
  /\ pendingName = Bot!NoWrite /\ pendingEdit = Bot!NoFilter
  /\ filters = [f \in Filters |-> Bot!Free] /\ task = [s \in Slots |-> Bot!Idle] /\ shown = FALSE
  /\ inputs = 0 /\ agreed = {} /\ overlapped = FALSE
NoWork ==
  /\ backend = "" /\ serves = << >> /\ configured = FALSE /\ published = {} /\ queue = << >>
  /\ loop = << >> /\ saved = {} /\ wleft = {} /\ dead = {} /\ wfaults = 0 /\ dropped = {}

Init ==
  /\ which \in {"flags", "media", "search", "bot", "worker", "metrics", "alerts"}
  /\ Flag!Init /\ Media!Init /\ Metric!Init /\ Alert!Init
  /\ IF which = "search" THEN Search!Init ELSE NoSearch
  /\ IF which = "bot" THEN Bot!Init ELSE NoDialogue
  /\ IF which = "worker" THEN Work!Init ELSE NoWork

Next ==
  \/ /\ which = "flags" /\ Flag!Next
     /\ UNCHANGED <<which, mediaVars, searchVars, botVars, workVars, metricVars, alertVars>>
  \/ /\ which = "media" /\ Media!Next
     /\ UNCHANGED <<which, flagVars, searchVars, botVars, workVars, metricVars, alertVars>>
  \/ /\ which = "search" /\ Search!Next
     /\ UNCHANGED <<which, flagVars, mediaVars, botVars, workVars, metricVars, alertVars>>
  \/ /\ which = "bot" /\ Bot!Next
     /\ UNCHANGED <<which, flagVars, mediaVars, searchVars, workVars, metricVars, alertVars>>
  \/ /\ which = "worker" /\ Work!Next
     /\ UNCHANGED <<which, flagVars, mediaVars, searchVars, botVars, metricVars, alertVars>>
  \/ /\ which = "metrics" /\ Metric!Next
     /\ UNCHANGED <<which, flagVars, mediaVars, searchVars, botVars, workVars, alertVars>>
  \/ /\ which = "alerts" /\ Alert!Next
     /\ UNCHANGED <<which, flagVars, mediaVars, searchVars, botVars, workVars, metricVars>>

Spec == Init /\ [][Next]_vars

\* Filters, and the handlers and tasks that wait, are alike.
Symmetry == Permutations({f1, f2, f3}) \cup Permutations({s1, s2})
=============================================================================
