------------------------------ MODULE MCGrowth ------------------------------
(***************************************************************************)
(* Growth for TLC: in every behavior one of the services runs and the      *)
(* others stay as they are.                                                *)
(***************************************************************************)
EXTENDS Growth, TLC

CONSTANTS u1, u2, u3, r1, r2, l1, f1

VARIABLE which

MCUsers == {u1, u2, u3}
TwoUsers == {u1, u2}
Calls == {r1, r2}
OneListing == {l1}
OneFilter == {f1}
MCTags == {"family", "families", "students"}
MCSeeded == {"family"}
MCNear == [family |-> {"families"}, families |-> {"family"}, students |-> {}]
MCPlanned == <<"top_offer", "district_stats", "transparency_report">>
ThreeKeys == 1 .. 3
TwoKeys == 1 .. 2

ASSUME Ref!Constants /\ Sug!Constants /\ Tag!Constants /\ Con!Constants

refVars == <<known, event, request, attempts, active, award, rpremium, told, raced>>
sugVars == <<row, submits, saudit, enabled, premium, notices, scall, scrossed>>
tagVars == <<tag, usage, resolving, refs, unchecked, audit, call, crossed, forced>>
conVars == <<clock, post, astray, strays, backoff, queue, caller, runs, sent, refusals, overlap>>

vars == <<which, refVars, sugVars, tagVars, conVars>>

Init ==
  /\ which \in {"referrals", "suggestions", "tags", "content"}
  /\ Ref!Init /\ Sug!Init /\ Tag!Init /\ Con!Init

Next ==
  \/ which = "referrals" /\ Ref!Next /\ UNCHANGED <<which, sugVars, tagVars, conVars>>
  \/ which = "suggestions" /\ Sug!Next /\ UNCHANGED <<which, refVars, tagVars, conVars>>
  \/ which = "tags" /\ Tag!Next /\ UNCHANGED <<which, refVars, sugVars, conVars>>
  \/ which = "content" /\ Con!Next /\ UNCHANGED <<which, refVars, sugVars, tagVars>>

Spec == Init /\ [][Next]_vars

\* Users u1 and u2, and the two concurrent calls, are alike in every service.
Symmetry == Permutations({u1, u2}) \cup Permutations({r1, r2})
=============================================================================
