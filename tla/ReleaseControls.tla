-------------------------- MODULE ReleaseControls --------------------------
(***************************************************************************)
(* Feature flags (services/release_controls.py,                            *)
(* repositories/release_controls.py): persisted with a version, changed by *)
(* compare-and-set under a row lock with an audit record, seeded from the  *)
(* settings, and read again by every gate before it lets work through.     *)
(***************************************************************************)
EXTENDS Naturals, Sequences

CONSTANTS Admins, Flags, Users,
          MaxVersion    \* bound: changes of one flag

VARIABLES
  rows,       \* feature_flag_states: [enabled, version]; version 0 is no row
  audit,      \* feature_flag_audit of each flag; history: what the admin saw
  form,       \* what each admin's page shows: a snapshot, or Closed
  allowlist,  \* BetaCohortPolicy of this process
  sent        \* history: the gate asked last, and whether it let the work through

flagVars == <<rows, audit, form, allowlist, sent>>

CONSTANT Initial        \* feature_flags_from_settings

\* The settings have a value for every flag.
Constants == Initial \in [Flags -> BOOLEAN]

Row(e, v) == [enabled |-> e, version |-> v]
Closed == [f \in Flags |-> Row(FALSE, 0)]
Gates == {"content", "notification", "bot"}
Nothing == [gate |-> "none", outcome |-> "none"]

Init ==
  /\ rows = [f \in Flags |-> Row(FALSE, 0)]
  /\ audit = [f \in Flags |-> <<>>]
  /\ form = [a \in Admins |-> Closed]
  /\ allowlist = {} /\ sent = Nothing

\* _seed_missing: on conflict do nothing.  get_snapshot does not commit its seed.
Seeded(r) == [f \in Flags |-> IF r[f].version = 0 THEN Row(Initial[f], 1) ELSE r[f]]
Snapshot == Seeded(rows)

\* GET /admin/release/flags
OpenForm(a) ==
  /\ form' = [form EXCEPT ![a] = Snapshot]
  /\ UNCHANGED <<rows, audit, allowlist, sent>>

\* Mutant: the update does not compare the version.
AnyVersion(expected, f) == TRUE

\* row.version != expected_version raises feature_flag_version_conflict
VersionMatches(expected, f) == Snapshot[f].version = expected

AuditEvent(f, e, a) ==
  [before |-> Snapshot[f].enabled, after |-> e, version |-> Snapshot[f].version + 1,
   saw |-> form[a][f].enabled]

\* set_flag: seed, lock, compare, write the row and its audit record, in one transaction
Changed(f, e, a) ==
  /\ rows' = [Snapshot EXCEPT ![f] = Row(e, @.version + 1)]
  /\ audit' = [audit EXCEPT ![f] = Append(@, AuditEvent(f, e, a))]

\* POST /admin/release/flags takes either value, the stored one too; a stale form is a 409
SetFlag(a, f) ==
  /\ form[a] # Closed /\ Snapshot[f].version < MaxVersion
  /\ VersionMatches(form[a][f].version, f)
  /\ \E enabled \in BOOLEAN : Changed(f, enabled, a)
  /\ form' = [form EXCEPT ![a] = rows']
  /\ UNCHANGED <<allowlist, sent>>
SetFlagConflict(a, f) ==
  /\ form[a] # Closed
  /\ ~VersionMatches(form[a][f].version, f)
  /\ form' = [form EXCEPT ![a] = Closed]
  /\ UNCHANGED <<rows, audit, allowlist, sent>>

\* POST /admin/release/beta-allowlist changes the policy of this process only
AddBetaUser(u) ==
  /\ allowlist' = allowlist \cup {u}
  /\ UNCHANGED <<rows, audit, form, sent>>

\* BetaCohortPolicy.decide
BetaAccess(u) == Snapshot["bot_access"].enabled \/ u \in allowlist

\* FeatureGatedContentPublisher and FeatureGatedTelegramNotificationClient read the flag first
GateFlag(g) == IF g = "content" THEN "content_publishing" ELSE "notifications"
Gate(g) ==
  /\ g # "bot"
  /\ sent' = [gate |-> g, outcome |-> IF Snapshot[GateFlag(g)].enabled THEN "sent"
                                      ELSE IF g = "content" THEN "dry_run" ELSE "refused"]
  /\ UNCHANGED <<rows, audit, form, allowlist>>

\* BotController._beta_access_blocked, before every command, button and text
Admit(u) ==
  /\ sent' = [gate |-> "bot", outcome |-> IF BetaAccess(u) THEN "sent" ELSE "refused"]
  /\ UNCHANGED <<rows, audit, form, allowlist>>

Next ==
  \/ \E a \in Admins : OpenForm(a) \/ \E f \in Flags : SetFlag(a, f) \/ SetFlagConflict(a, f)
  \/ \E u \in Users : AddBetaUser(u) \/ Admit(u)
  \/ \E g \in Gates : Gate(g)

Spec == Init /\ [][Next]_flagVars

-----------------------------------------------------------------------------
\* No lost update: whoever changes a flag saw the value he changes, and the audit trail is a
\* chain of consecutive versions, each from the value the one before left, that ends in the
\* stored row.  A change may keep the value: the API takes any.
AuditIsAChain ==
  \A f \in Flags :
    LET trail == audit[f] IN
    /\ \A i \in 1..Len(trail) : trail[i].version = i + 1 /\ trail[i].before = trail[i].saw
    /\ \A i \in 2..Len(trail) : trail[i].before = trail[i - 1].after
    /\ trail # <<>> => /\ rows[f].enabled = trail[Len(trail)].after
                       /\ rows[f].version = trail[Len(trail)].version
=============================================================================
