------------------------- MODULE SourceSuggestions -------------------------
(***************************************************************************)
(* Source suggestions (services/source_suggestions.py with its SQLAlchemy  *)
(* repository, api/admin.py): a user suggests a channel, an admin approves *)
(* or rejects it; an approval enables the source, gives the user premium   *)
(* time and sets the status, one database call after the other.  The       *)
(* model follows one channel, whose row is unique by its identifier.       *)
(***************************************************************************)
EXTENDS Naturals, FiniteSets

CONSTANTS
  Users, Decisions,  \* users, and the admin calls that may be in flight
  Keys,              \* idempotency keys of the admin calls
  MaxSubmits, None

\* None is no user, and no value the code writes in a field.
Constants ==
  None \notin Users \cup {"pending", "approved", "rejected", "approve", "reject",
                        "read", "enable", "grant", "write"}

VARIABLES
  row,       \* the suggestion, or None in every field
  submits,   \* submits so far, at most MaxSubmits
  audit,     \* the idempotency keys in admin_audit_events
  enabled,   \* the source registry has the channel enabled
  premium,   \* premium extensions this channel has earned each user
  notices,   \* users whose pending suggestion the admins were told of
  call,      \* the approve and reject calls in flight
  crossed    \* a decision overlapped another write of the row, or stopped half way

vars == <<row, submits, audit, enabled, premium, notices, call, crossed>>

NoRow == [status |-> None, user |-> None, rewarded |-> FALSE]
NoCall == [at |-> None, action |-> None, expected |-> None, seen |-> NoRow]

Init ==
  /\ row = NoRow
  /\ submits = 0
  /\ audit = {}
  /\ enabled = FALSE
  /\ premium = [u \in Users |-> 0]
  /\ notices = {}
  /\ call = [d \in Decisions |-> NoCall]
  /\ crossed = FALSE

InFlight == {d \in Decisions : call[d] # NoCall}

\* submit of the repository: insert, or reopen a rejected suggestion; a pending or approved one
\* is left as it is.  The flag reward_granted survives the reopening.
Submitted(u) ==
  IF row.status \in {None, "rejected"}
  THEN [row EXCEPT !.status = "pending", !.user = u] ELSE row

\* The admins are told of a suggestion that was created or reopened.
Submit(u) ==
  /\ submits < MaxSubmits
  /\ submits' = submits + 1
  /\ row' = Submitted(u)
  /\ notices' = IF row' # row THEN notices \cup {u} ELSE notices
  /\ crossed' = (crossed \/ (row' # row /\ InFlight # {}))
  /\ UNCHANGED <<audit, enabled, premium, call>>

\* audit_once: the unique idempotency key.
IsNew(key) == key \notin audit

\* A key that was used before ends the call with nothing done.
Open(d, action, key, expected) ==
  /\ call[d] = NoCall /\ row # NoRow
  /\ audit' = audit \cup {key}
  /\ call' = IF ~IsNew(key) THEN call
             ELSE [call EXCEPT ![d] = [at |-> "read", action |-> action, expected |-> expected,
                                       seen |-> NoRow]]
  /\ crossed' = (crossed \/ (IsNew(key) /\ InFlight # {}))
  /\ UNCHANGED <<row, submits, enabled, premium, notices>>

\* POST /admin/source-suggestions/{suggestion_id}/approve and /reject, with the status the admin
\* saw.
Approve(d, key, expected) == Open(d, "approve", key, expected)
Reject(d, key, expected) == Open(d, "reject", key, expected)

Conflict(d) ==
  \/ call[d].expected # None /\ row.status # call[d].expected
  \/ row.status = (IF call[d].action = "approve" THEN "approved" ELSE "rejected")

\* get, and the state precondition.
Read(d) ==
  /\ call[d].at = "read"
  /\ call' = IF Conflict(d) THEN [call EXCEPT ![d] = NoCall]
             ELSE [call EXCEPT ![d].at = IF call[d].action = "approve" THEN "enable" ELSE "write",
                               ![d].seen = row]
  /\ UNCHANGED <<row, submits, audit, enabled, premium, notices, crossed>>

EnableSource(d) ==
  /\ call[d].at = "enable"
  /\ enabled' = TRUE
  /\ call' = [call EXCEPT ![d].at = "grant"]
  /\ UNCHANGED <<row, submits, audit, premium, notices, crossed>>

\* grant_premium extends what the user has.
Extended(u) == [premium EXCEPT ![u] = @ + 1]

\* The reward, unless the suggestion as it was read has had it.
GrantPremium(d) ==
  /\ call[d].at = "grant"
  /\ premium' = IF call[d].seen.rewarded THEN premium
                ELSE Extended(call[d].seen.user)
  /\ call' = [call EXCEPT ![d].at = "write"]
  /\ UNCHANGED <<row, submits, audit, enabled, notices, crossed>>

\* set_status writes status and flag over whatever the row holds by now.
Written(status, rewarded) == [row EXCEPT !.status = status, !.rewarded = rewarded]

SetApproved(d) ==
  /\ call[d].at = "write" /\ call[d].action = "approve"
  /\ row' = Written("approved", TRUE)
  /\ call' = [call EXCEPT ![d] = NoCall]
  /\ UNCHANGED <<submits, audit, enabled, premium, notices, crossed>>

\* Mutant: a rejection resets the reward flag.
SetRejectedResets(d) ==
  /\ call[d].at = "write" /\ call[d].action = "reject"
  /\ row' = Written("rejected", FALSE)
  /\ call' = [call EXCEPT ![d] = NoCall]
  /\ UNCHANGED <<submits, audit, enabled, premium, notices, crossed>>

\* A rejection passes on the flag it read.
SetRejected(d) ==
  /\ call[d].at = "write" /\ call[d].action = "reject"
  /\ row' = Written("rejected", call[d].seen.rewarded)
  /\ call' = [call EXCEPT ![d] = NoCall]
  /\ UNCHANGED <<submits, audit, enabled, premium, notices, crossed>>

\* A call of the database fails, or the process ends: what was done stays done.
Abort(d) ==
  /\ call[d] # NoCall
  /\ call' = [call EXCEPT ![d] = NoCall]
  /\ crossed' = TRUE
  /\ UNCHANGED <<row, submits, audit, enabled, premium, notices>>

Next ==
  \/ \E u \in Users : Submit(u)
  \/ \E d \in Decisions :
       \/ \E key \in Keys, expected \in {"pending", "approved", "rejected", None} :
            Approve(d, key, expected) \/ Reject(d, key, expected)
       \/ Read(d) \/ EnableSource(d) \/ GrantPremium(d) \/ SetApproved(d) \/ SetRejected(d)
       \/ Abort(d)

Spec == Init /\ [][Next]_vars

----------------------------------------------------------------------------

Rewards == {u \in Users : premium[u] > 0}

\* A channel earns premium time once, to one user, however often it is rejected, suggested again
\* and approved, by whichever users, unless two decisions overlap or one stops half way; and an
\* approved channel is enabled, in every case (approve, reject, submit).
RewardedOnce ==
  /\ row.status = "approved" => enabled
  /\ ~crossed => /\ \A u \in Users : premium[u] <= 1
                 /\ Cardinality(Rewards) <= 1
                 /\ row.rewarded /\ InFlight = {} => Rewards # {}
=============================================================================
