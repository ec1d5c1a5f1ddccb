--------------------------- MODULE Platform_proofs ---------------------------
(***************************************************************************)
(* Proofs about parts that users and operators touch: release controls,    *)
(* operator alerts, the combined queue worker, metrics snapshots, the      *)
(* bot's filters, search and media storage.  Every theorem is about one    *)
(* part by itself, as the parts share no state.                            *)
(***************************************************************************)
EXTENDS Platform, FiniteSetTheorems, WellFoundedInduction, TLAPS

-----------------------------------------------------------------------------
(* Release controls                                                        *)

FlagRows == [Flags -> [enabled : BOOLEAN, version : Nat]]

AuditEvents ==
  [before : BOOLEAN, after : BOOLEAN, version : Nat, saw : BOOLEAN]

FlagType ==
  /\ rows \in FlagRows
  /\ audit \in [Flags -> Seq(AuditEvents)]
  /\ form \in [Admins -> FlagRows]

\* A row that is not there yet has no trail, and every change adds one record.
VersionsCount ==
  \A f \in Flags :
    \/ rows[f].version = 0 /\ audit[f] = << >>
    \/ rows[f].version = Len(audit[f]) + 1

\* A form shows a version that was stored, and its value: the newest version has one value.
FormsAreOld ==
  \A a \in Admins, f \in Flags :
    \/ form[a] = Flag!Closed
    \/ /\ form[a][f].version <= Flag!Snapshot[f].version
       /\ form[a][f].version = Flag!Snapshot[f].version =>
            form[a][f].enabled = Flag!Snapshot[f].enabled

FlagInv == FlagType /\ VersionsCount /\ FormsAreOld /\ Flag!AuditIsAChain

\* What set_flag works on: the stored row, or the one seeded from the settings.
LEMMA SnapshotIs ==
  ASSUME Flag!Constants, FlagType, VersionsCount
  PROVE  /\ Flag!Snapshot \in FlagRows
         /\ \A f \in Flags :
              /\ Flag!Snapshot[f].version = Len(audit[f]) + 1
              /\ rows[f].version # 0 => Flag!Snapshot[f] = rows[f]
<1>1. \A f \in Flags : Flag!Snapshot[f] = IF rows[f].version = 0 THEN Flag!Row(Initial[f], 1) ELSE rows[f]
  BY DEF Flag!Snapshot, Flag!Seeded
<1>2. Flag!Snapshot \in FlagRows
  BY DEF Flag!Snapshot, Flag!Seeded, Flag!Row, FlagType, FlagRows, Flag!Constants
<1>3. \A f \in Flags : Flag!Snapshot[f].version = Len(audit[f]) + 1
  <2>1. \A f \in Flags : Len(audit[f]) \in Nat
    BY DEF FlagType
  <2>2. ASSUME NEW f \in Flags PROVE Flag!Snapshot[f].version = Len(audit[f]) + 1
    <3>1. CASE rows[f].version = 0
      <4>1. Len(audit[f]) = 0
        BY <2>1, <3>1 DEF VersionsCount
      <4>2. Flag!Snapshot[f] = Flag!Row(Initial[f], 1)
        BY <1>1, <3>1
      <4>3. Flag!Row(Initial[f], 1).version = 1
        BY DEF Flag!Row
      <4> QED
        BY <4>1, <4>2, <4>3
    <3>2. CASE rows[f].version # 0
      BY <1>1, <3>2 DEF VersionsCount
    <3> QED
      BY <3>1, <3>2
  <2> QED
    BY <2>2
<1> QED
  BY <1>1, <1>2, <1>3

\* A compare-and-set on the version the admin saw.
LEMMA SetFlagStep ==
  ASSUME Flag!Constants, FlagInv, NEW a \in Admins, NEW f \in Flags, Flag!SetFlag(a, f)
  PROVE  FlagInv'
<1>0. FlagType /\ VersionsCount /\ FormsAreOld /\ Flag!AuditIsAChain
  BY DEF FlagInv
<1>a. PICK enabled \in BOOLEAN : Flag!Changed(f, enabled, a)
  BY DEF Flag!SetFlag
<1> DEFINE was == Flag!Snapshot[f]
           event == [before |-> was.enabled, after |-> enabled, version |-> was.version + 1,
                     saw |-> was.enabled]
<1>1. /\ Flag!Snapshot \in FlagRows /\ was \in [enabled : BOOLEAN, version : Nat]
      /\ was.version = Len(audit[f]) + 1
      /\ rows[f].version # 0 => was = rows[f]
  BY <1>0, SnapshotIs DEF FlagRows
<1>2. form[a][f].enabled = was.enabled
  BY <1>0 DEF Flag!SetFlag, Flag!VersionMatches, FormsAreOld
<1>3. rows' = [Flag!Snapshot EXCEPT ![f] = [enabled |-> enabled, version |-> was.version + 1]]
  BY <1>a DEF Flag!Changed, Flag!Row
<1>4. audit' = [audit EXCEPT ![f] = Append(@, event)]
  BY <1>2, <1>a DEF Flag!Changed, Flag!AuditEvent
<1>5. event \in AuditEvents
  BY <1>1 DEF AuditEvents
<1>6. form' = [form EXCEPT ![a] = rows']
  BY DEF Flag!SetFlag
<1>7. FlagType'
  <2>1. rows' \in FlagRows
    BY <1>1, <1>3 DEF FlagRows
  <2>2. audit' \in [Flags -> Seq(AuditEvents)]
    BY <1>0, <1>4, <1>5 DEF FlagType
  <2> QED
    BY <1>0, <1>6, <2>1, <2>2 DEF FlagType
<1>8. /\ rows'[f].enabled = enabled /\ rows'[f].version = was.version + 1
      /\ \A g \in Flags \ {f} : rows'[g] = Flag!Snapshot[g]
  BY <1>1, <1>3 DEF FlagRows
<1>9. /\ audit'[f] = Append(audit[f], event)
      /\ \A g \in Flags \ {f} : audit'[g] = audit[g]
  BY <1>0, <1>4 DEF FlagType
<1>10. Len(audit'[f]) = Len(audit[f]) + 1
  BY <1>0, <1>5, <1>9 DEF FlagType
<1>11. VersionsCount'
  <2>1. \A g \in Flags \ {f} : rows'[g].version = Len(audit'[g]) + 1
    BY <1>0, <1>8, <1>9, SnapshotIs
  <2>2. rows'[f].version = Len(audit'[f]) + 1
    BY <1>1, <1>8, <1>10
  <2> QED
    BY <2>1, <2>2 DEF VersionsCount
<1>12. \A g \in Flags : Flag!Snapshot'[g] = rows'[g]
  <2>1. \A g \in Flags : rows'[g].version # 0
    <3>1. \A g \in Flags : rows'[g].version = Len(audit'[g]) + 1
      BY <1>0, <1>1, <1>8, <1>9, <1>10, SnapshotIs
    <3>2. \A g \in Flags : Len(audit'[g]) \in Nat
      BY <1>7 DEF FlagType
    <3> QED
      BY <3>1, <3>2
  <2> QED
    BY <2>1 DEF Flag!Snapshot, Flag!Seeded
<1>13. FormsAreOld'
  <2>1. ASSUME NEW b \in Admins, NEW g \in Flags, form'[b] # Flag!Closed
        PROVE  /\ form'[b][g].version <= rows'[g].version
               /\ form'[b][g].version = rows'[g].version =>
                    form'[b][g].enabled = rows'[g].enabled
    <3>1. rows'[g].version \in Nat
      BY <1>7 DEF FlagType, FlagRows
    <3>2. CASE b = a
      BY <1>0, <1>6, <3>1, <3>2 DEF FlagType
    <3>3. CASE b # a
      <4>1. form'[b] = form[b]
        BY <1>0, <1>6, <3>3 DEF FlagType
      <4>2. /\ form[b][g].version <= Flag!Snapshot[g].version
            /\ form[b][g].version = Flag!Snapshot[g].version =>
                 form[b][g].enabled = Flag!Snapshot[g].enabled
        BY <1>0, <2>1, <4>1 DEF FormsAreOld
      <4>3. form[b][g].version \in Nat /\ Flag!Snapshot[g].version \in Nat
        BY <1>0, <1>1 DEF FlagType, FlagRows
      <4> QED
        BY <1>8, <4>1, <4>2, <4>3
    <3> QED
      BY <3>2, <3>3
  <2>2. Flag!Closed' = Flag!Closed
    BY DEF Flag!Closed, Flag!Row
  <2> QED
    BY <1>12, <2>1, <2>2 DEF FormsAreOld
<1>14. Flag!AuditIsAChain'
  <2>1. ASSUME NEW g \in Flags, g # f
        PROVE  /\ audit'[g] = audit[g]
               /\ audit[g] # << >> => rows'[g] = rows[g]
    <3>1. audit[g] # << >> => rows[g].version # 0
      BY <1>0 DEF VersionsCount, FlagType
    <3> QED
      BY <1>0, <1>8, <1>9, <2>1, <3>1, SnapshotIs
  <2>2. audit[f] \in Seq(AuditEvents) /\ Len(audit[f]) \in Nat
    BY <1>0 DEF FlagType
  <2>3. /\ \A i \in 1 .. Len(audit[f]) : audit'[f][i] = audit[f][i]
        /\ audit'[f][Len(audit[f]) + 1] = event
    BY <1>5, <1>9, <2>2
  <2>4. audit[f] # << >> => was.enabled = audit[f][Len(audit[f])].after
    <3>1. audit[f] # << >> => rows[f].version # 0
      BY <1>0 DEF VersionsCount, FlagType
    <3> QED
      BY <1>0, <1>1, <3>1 DEF Flag!AuditIsAChain
  <2>5. ASSUME NEW i \in 1 .. Len(audit'[f])
        PROVE  audit'[f][i].version = i + 1 /\ audit'[f][i].before = audit'[f][i].saw
    <3>1. CASE i \in 1 .. Len(audit[f])
      BY <1>0, <2>3, <3>1 DEF Flag!AuditIsAChain
    <3>2. CASE i = Len(audit[f]) + 1
      BY <1>1, <2>2, <2>3, <3>2
    <3> QED
      BY <1>10, <2>2, <3>1, <3>2
  <2>6. ASSUME NEW i \in 2 .. Len(audit'[f])
        PROVE  audit'[f][i].before = audit'[f][i - 1].after
    <3>1. CASE i \in 2 .. Len(audit[f])
      <4>1. i \in 1 .. Len(audit[f]) /\ i - 1 \in 1 .. Len(audit[f])
        BY <2>2, <3>1
      <4>2. audit[f][i].before = audit[f][i - 1].after
        BY <1>0, <3>1 DEF Flag!AuditIsAChain
      <4> QED
        BY <2>3, <3>1, <4>1, <4>2
    <3>2. CASE i = Len(audit[f]) + 1
      <4>1. Len(audit[f]) \in 1 .. Len(audit[f]) /\ i - 1 = Len(audit[f]) /\ audit[f] # << >>
        BY <2>2, <3>2
      <4> QED
        BY <2>3, <2>4, <3>2, <4>1
    <3> QED
      BY <1>10, <2>2, <3>1, <3>2
  <2>7. /\ rows'[f].enabled = audit'[f][Len(audit'[f])].after
        /\ rows'[f].version = audit'[f][Len(audit'[f])].version
    BY <1>8, <1>10, <2>3
  <2> QED
    BY <1>0, <2>1, <2>5, <2>6, <2>7 DEF Flag!AuditIsAChain
<1> QED
  BY <1>7, <1>11, <1>13, <1>14 DEF FlagInv

\* Opening a form, or losing it to a conflict, leaves the rows alone.
LEMMA FormStep ==
  ASSUME Flag!Constants, FlagInv, UNCHANGED <<rows, audit>>,
         \/ form' = form
         \/ \E a \in Admins : form' = [form EXCEPT ![a] = Flag!Snapshot]
         \/ \E a \in Admins : form' = [form EXCEPT ![a] = Flag!Closed]
  PROVE  FlagInv'
<1>0. FlagType /\ VersionsCount /\ FormsAreOld /\ Flag!AuditIsAChain
  BY DEF FlagInv
<1>1. Flag!Snapshot \in FlagRows /\ Flag!Closed \in FlagRows
  BY <1>0, SnapshotIs DEF Flag!Closed, Flag!Row, FlagRows
<1>2. FlagType'
  BY <1>0, <1>1 DEF FlagType
<1>3. Flag!Snapshot' = Flag!Snapshot /\ VersionsCount' /\ Flag!AuditIsAChain'
  BY <1>0 DEF Flag!Snapshot, Flag!Seeded, Flag!Row, VersionsCount, Flag!AuditIsAChain
<1>4. \A b \in Admins : form'[b] = form[b] \/ form'[b] = Flag!Snapshot \/ form'[b] = Flag!Closed
  BY <1>0 DEF FlagType
<1>5. \A f \in Flags : Flag!Snapshot[f].version \in Nat
  BY <1>1 DEF FlagRows
<1>6. FormsAreOld'
  <2>1. ASSUME NEW b \in Admins, NEW f \in Flags
        PROVE  \/ form'[b] = Flag!Closed
               \/ /\ form'[b][f].version <= Flag!Snapshot[f].version
                  /\ form'[b][f].version = Flag!Snapshot[f].version =>
                       form'[b][f].enabled = Flag!Snapshot[f].enabled
    BY <1>0, <1>4, <1>5 DEF FormsAreOld
  <2> QED
    BY <1>3, <2>1 DEF FormsAreOld, Flag!Closed, Flag!Row
<1> QED
  BY <1>2, <1>3, <1>6 DEF FlagInv

\* No lost update: whatever admins save from however stale a form, each change
\* is made by someone who saw the value it changes, and the audit trail of a flag
\* is a chain of consecutive versions that ends in the stored row (set_flag).
THEOREM AuditTrailIsChain ==
  ASSUME Flag!Constants
  PROVE  Flag!Spec => []AuditIsAChain
<1>1. Flag!Init => FlagInv
  <2> SUFFICES ASSUME Flag!Init PROVE FlagInv
    OBVIOUS
  <2>1. FlagType
    BY DEF Flag!Init, FlagType, FlagRows, Flag!Closed, Flag!Row
  <2>2. VersionsCount
    BY DEF Flag!Init, VersionsCount, Flag!Row
  <2>3. FormsAreOld
    BY DEF Flag!Init, FormsAreOld
  <2>4. Flag!AuditIsAChain
    BY DEF Flag!Init, Flag!AuditIsAChain
  <2> QED
    BY <2>1, <2>2, <2>3, <2>4 DEF FlagInv
<1>2. FlagInv /\ [Flag!Next]_(Flag!flagVars) => FlagInv'
  <2> SUFFICES ASSUME FlagInv, [Flag!Next]_(Flag!flagVars) PROVE FlagInv'
    OBVIOUS
  <2>1. ASSUME NEW a \in Admins, Flag!OpenForm(a) PROVE FlagInv'
    BY <2>1, FormStep DEF Flag!OpenForm
  <2>2. ASSUME NEW a \in Admins, NEW f \in Flags, Flag!SetFlagConflict(a, f) PROVE FlagInv'
    BY <2>2, FormStep DEF Flag!SetFlagConflict
  <2>3. ASSUME UNCHANGED <<rows, audit, form>> PROVE FlagInv'
    BY <2>3, FormStep
  <2> QED
    BY <2>1, <2>2, <2>3, SetFlagStep
    DEF Flag!Next, Flag!flagVars, Flag!AddBetaUser, Flag!Admit, Flag!Gate
<1>3. FlagInv => Flag!AuditIsAChain
  BY DEF FlagInv
<1> QED
  BY <1>1, <1>2, <1>3, PTL DEF Flag!Spec, AuditIsAChain

-----------------------------------------------------------------------------
(* Operator alerts                                                         *)

AlertType ==
  /\ clock \in Nat /\ blocked \in Nat
  /\ alert \in [Reasons -> [lastSent : Int, suppressed : Nat]]
  /\ requests \in [Reasons -> Seq(Nat)]
  /\ refused \in Seq([at : Nat, until : Nat, made : Nat])
  /\ DOMAIN atask = Tasks
  /\ \A t \in Tasks : atask[t].made \in Nat

\* Requests and refusals lie in the past, and the bucket remembers the last request.
AlertPast ==
  /\ \A r \in Reasons : \A i \in 1 .. Len(requests[r]) : requests[r][i] <= clock
  /\ \A i \in 1 .. Len(refused) : refused[i].at <= clock
  /\ \A t \in Tasks : atask[t].made <= clock

BucketRemembers ==
  \A r \in Reasons :
    requests[r] # << >> => alert[r].lastSent = requests[r][Len(requests[r])]

\* Refusal i of q was cut short by time m.
Cut(q, i, m) == \E j \in i + 1 .. Len(q) : q[j].made <= q[i].at /\ q[j].until <= m

Waits(x) == x.reason # "none"

\* The cooldown of a 429 is over, or cut short, or still held by the block or by
\* the answers of requests in flight with it: none was made since.
Held(q, i) ==
  \/ clock >= q[i].until
  \/ Cut(q, i, clock)
  \/ /\ blocked >= q[i].until \/ Cut(q, i, blocked)
     /\ \A t \in Tasks : Waits(atask[t]) => atask[t].made <= q[i].at

AlertInv ==
  /\ AlertType /\ AlertPast /\ BucketRemembers /\ Alert!AlertsAreSpaced
  /\ \A i \in 1 .. Len(refused) : Held(refused, i)

LEMMA ElementOf ==
  ASSUME NEW S, NEW q \in Seq(S), NEW i \in 1 .. Len(q)
  PROVE  q[i] \in S
OBVIOUS

\* What was cut short stays so.
LEMMA CutStays ==
  ASSUME NEW q \in Seq([at : Nat, until : Nat, made : Nat]), NEW i \in 1 .. Len(q),
         NEW m \in Nat, NEW n \in Nat, m <= n, Cut(q, i, m)
  PROVE  Cut(q, i, n)
<1>1. PICK j \in i + 1 .. Len(q) : q[j].made <= q[i].at /\ q[j].until <= m
  BY DEF Cut
<1>2. j \in 1 .. Len(q)
  BY <1>1
<1>3. q[j].until \in Nat
  <2>1. q[j] \in [at : Nat, until : Nat, made : Nat]
    BY <1>2, ElementOf
  <2> QED
    BY <2>1
<1>4. q[j].until <= n
  BY <1>1, <1>3
<1> QED
  BY <1>1, <1>4 DEF Cut

\* What is recorded of a refusal.
LEMMA RefusalsAre ==
  ASSUME AlertType, NEW i \in 1 .. Len(refused)
  PROVE  refused[i].at \in Nat /\ refused[i].until \in Nat /\ refused[i].made \in Nat
<1>1. refused[i] \in [at : Nat, until : Nat, made : Nat]
  BY ElementOf DEF AlertType
<1> QED
  BY <1>1

\* CooldownsKept in terms of Cut.
LEMMA CooldownsAre ==
  Alert!CooldownsKept <=>
    \A r \in Reasons : \A n \in DOMAIN requests[r], i \in DOMAIN refused :
      requests[r][n] > refused[i].at /\ requests[r][n] < refused[i].until =>
        Cut(refused, i, requests[r][n])
BY DEF Alert!CooldownsKept, Alert!CutShort, Cut

\* An alert that is sent starts a new window.
LEMMA SendStep ==
  ASSUME Alert!Constants, AlertInv, NEW t \in Tasks, NEW r \in Reasons, Alert!Send(t, r)
  PROVE  AlertInv'
<1>0. /\ AlertType /\ AlertPast /\ BucketRemembers /\ Alert!WindowsApart /\ Alert!CooldownsKept
      /\ \A i \in 1 .. Len(refused) : Held(refused, i)
  BY DEF AlertInv, Alert!AlertsAreSpaced
<1>1. UNCHANGED <<clock, blocked, refused>> /\ clock >= blocked /\ ~Alert!Limited(r)
  BY DEF Alert!Send
<1>2. PICK b \in [lastSent : Int, suppressed : Nat] :
        alert' = [alert EXCEPT ![r] = b] /\ b.lastSent = clock
  <2>1. [lastSent |-> clock, suppressed |-> 0] \in [lastSent : Int, suppressed : Nat]
    BY <1>0 DEF AlertType
  <2> QED
    BY <2>1 DEF Alert!Send
<1>3. requests' = [requests EXCEPT ![r] = Append(@, clock)]
  BY DEF Alert!Send, Alert!Request
<1>a. PICK x : atask' = [atask EXCEPT ![t] = x] /\ x.made = clock
  <2>1. [reason |-> r, made |-> clock].made = clock
    OBVIOUS
  <2>2. atask' = [atask EXCEPT ![t] = [reason |-> r, made |-> clock]]
    BY DEF Alert!Send, Alert!Request
  <2> QED
    BY <2>1, <2>2
<1>4. AlertType'
  <2>1. DOMAIN atask' = Tasks /\ \A u \in Tasks : atask'[u].made \in Nat
    BY <1>0, <1>a DEF AlertType
  <2> QED
    BY <1>0, <1>1, <1>2, <1>3, <2>1 DEF AlertType
<1>5. /\ \A s \in Reasons \ {r} : requests'[s] = requests[s] /\ alert'[s] = alert[s]
      /\ requests'[r] = Append(requests[r], clock) /\ alert'[r].lastSent = clock
  BY <1>0, <1>2, <1>3 DEF AlertType
<1>6. /\ requests[r] \in Seq(Nat) /\ clock \in Nat /\ blocked \in Nat /\ Len(requests[r]) \in Nat
      /\ refused \in Seq([at : Nat, until : Nat, made : Nat])
  BY <1>0 DEF AlertType
<1>7. /\ Len(requests'[r]) = Len(requests[r]) + 1
      /\ requests'[r][Len(requests[r]) + 1] = clock
      /\ \A i \in 1 .. Len(requests[r]) : requests'[r][i] = requests[r][i]
  BY <1>5, <1>6
<1>b. \A i \in 1 .. Len(requests'[r]) :
        i \in 1 .. Len(requests[r]) \/ i = Len(requests[r]) + 1
  BY <1>6, <1>7
<1>c. \A i \in 1 .. Len(refused) : Cut(refused, i, clock) \/ clock >= refused[i].until
  <2> SUFFICES ASSUME NEW i \in 1 .. Len(refused), blocked >= refused[i].until \/ Cut(refused, i, blocked)
               PROVE  Cut(refused, i, clock) \/ clock >= refused[i].until
    BY <1>0 DEF Held
  <2>1. refused[i].until \in Nat
    BY <1>0, RefusalsAre
  <2>2. CASE blocked >= refused[i].until
    BY <1>1, <1>6, <2>1, <2>2
  <2>3. CASE Cut(refused, i, blocked)
    BY <1>1, <1>6, <2>3, CutStays
  <2> QED
    BY <2>2, <2>3
<1>8. AlertPast' /\ BucketRemembers'
  <2>1. \A i \in 1 .. Len(requests'[r]) : requests'[r][i] <= clock
    <3>1. \A i \in 1 .. Len(requests[r]) : requests'[r][i] <= clock
      BY <1>0, <1>7 DEF AlertPast
    <3>2. clock <= clock
      BY <1>6
    <3> QED
      BY <1>7, <1>b, <3>1, <3>2
  <2>2. \A u \in Tasks : atask'[u].made <= clock
    BY <1>0, <1>6, <1>a DEF AlertPast, AlertType
  <2>3. AlertPast'
    BY <1>0, <1>1, <1>5, <2>1, <2>2 DEF AlertPast
  <2>4. BucketRemembers'
    BY <1>0, <1>5, <1>7 DEF BucketRemembers
  <2> QED
    BY <2>3, <2>4
<1>9. \A i \in 1 .. Len(refused') : Held(refused, i)'
  BY <1>1, <1>c DEF Held, Cut
<1>10. Alert!WindowsApart'
  <2>1. ASSUME NEW i \in 2 .. Len(requests'[r])
        PROVE  requests'[r][i] - requests'[r][i - 1] >= Window
    <3>1. CASE i \in 2 .. Len(requests[r])
      <4>1. i \in 1 .. Len(requests[r]) /\ i - 1 \in 1 .. Len(requests[r])
        BY <1>6, <3>1
      <4>2. requests[r][i] - requests[r][i - 1] >= Window
        BY <1>0, <3>1 DEF Alert!WindowsApart
      <4> QED
        BY <1>7, <4>1, <4>2
    <3>2. CASE i = Len(requests[r]) + 1
      <4>1. /\ i - 1 = Len(requests[r]) /\ requests[r] # << >>
            /\ Len(requests[r]) \in 1 .. Len(requests[r])
        BY <1>6, <3>2
      <4>2. alert[r].lastSent = requests[r][Len(requests[r])] /\ requests[r][Len(requests[r])] \in Nat
        BY <1>0, <1>6, <4>1 DEF BucketRemembers
      <4>3. clock - requests[r][Len(requests[r])] >= Window
        BY <1>1, <1>6, <4>2 DEF Alert!Limited, Alert!Constants
      <4> QED
        BY <1>7, <3>2, <4>1, <4>3
    <3> QED
      BY <1>6, <1>7, <3>1, <3>2
  <2> QED
    BY <1>0, <1>5, <2>1 DEF Alert!WindowsApart
<1>11. Alert!CooldownsKept'
  <2>1. \A s \in Reasons : \A n \in DOMAIN requests'[s] :
          requests'[s][n] = clock \/ (n \in DOMAIN requests[s] /\ requests'[s][n] = requests[s][n])
    <3>1. DOMAIN requests'[r] = 1 .. Len(requests'[r]) /\ DOMAIN requests[r] = 1 .. Len(requests[r])
      BY <1>5, <1>6
    <3> QED
      <4>1. ASSUME NEW n \in DOMAIN requests'[r]
            PROVE  requests'[r][n] = clock \/ (n \in DOMAIN requests[r] /\ requests'[r][n] = requests[r][n])
        <5>1. n \in 1 .. Len(requests[r]) \/ n = Len(requests[r]) + 1
          BY <1>b, <3>1
        <5> QED
          BY <1>7, <3>1, <5>1
      <4> QED
        BY <1>5, <4>1
  <2>2. DOMAIN refused = 1 .. Len(refused)
    BY <1>6
  <2>3. \A i \in 1 .. Len(refused) : refused[i].until \in Nat
    BY <1>0, RefusalsAre
  <2>4. \A s \in Reasons : \A n \in DOMAIN requests'[s], i \in DOMAIN refused :
          requests'[s][n] > refused[i].at /\ requests'[s][n] < refused[i].until =>
            Cut(refused, i, requests'[s][n])
    <3> SUFFICES ASSUME NEW s \in Reasons, NEW n \in DOMAIN requests'[s], NEW i \in DOMAIN refused,
                        requests'[s][n] > refused[i].at, requests'[s][n] < refused[i].until
                 PROVE  Cut(refused, i, requests'[s][n])
      OBVIOUS
    <3>1. CASE requests'[s][n] = clock
      <4>1. ~(clock >= refused[i].until)
        BY <1>6, <2>2, <2>3, <3>1
      <4>2. Cut(refused, i, clock)
        BY <1>c, <2>2, <4>1
      <4> QED
        BY <3>1, <4>2
    <3>2. CASE n \in DOMAIN requests[s] /\ requests'[s][n] = requests[s][n]
      BY <1>0, <3>2, CooldownsAre
    <3> QED
      BY <2>1, <3>1, <3>2
  <2> QED
    BY <1>1, <2>4 DEF Alert!CooldownsKept, Alert!CutShort, Cut
<1> QED
  BY <1>4, <1>8, <1>9, <1>10, <1>11 DEF AlertInv, Alert!AlertsAreSpaced

\* No request is made: the history and what the bucket remembers of it stay.
LEMMA NoRequest ==
  ASSUME AlertInv, requests' = requests, refused' = refused, blocked' = blocked,
         clock' \in Nat, clock' >= clock, AlertType', \A r \in Reasons : alert'[r].lastSent = alert[r].lastSent,
         \A t \in Tasks : atask'[t] = atask[t] \/ (~Waits(atask'[t]) /\ atask'[t].made = 0)
  PROVE  AlertInv'
<1>0. /\ AlertType /\ AlertPast /\ BucketRemembers /\ Alert!WindowsApart /\ Alert!CooldownsKept
      /\ \A i \in 1 .. Len(refused) : Held(refused, i)
  BY DEF AlertInv, Alert!AlertsAreSpaced
<1>1. \A r \in Reasons : \A i \in 1 .. Len(requests[r]) : requests[r][i] \in Nat
  BY <1>0 DEF AlertType
<1>2. \A i \in 1 .. Len(refused) : refused[i].at \in Nat /\ refused[i].until \in Nat
  BY <1>0, RefusalsAre
<1>3. clock \in Nat /\ refused \in Seq([at : Nat, until : Nat, made : Nat])
  BY <1>0 DEF AlertType
<1>4. AlertPast'
  <2>1. \A r \in Reasons : \A i \in 1 .. Len(requests[r]) : requests[r][i] <= clock'
    BY <1>0, <1>1, <1>3 DEF AlertPast
  <2>2. \A i \in 1 .. Len(refused) : refused[i].at <= clock'
    BY <1>0, <1>2, <1>3 DEF AlertPast
  <2>3. ASSUME NEW t \in Tasks PROVE atask'[t].made <= clock'
    <3>1. atask[t].made \in Nat /\ atask[t].made <= clock
      BY <1>0 DEF AlertPast, AlertType
    <3>2. atask'[t].made = atask[t].made \/ atask'[t].made = 0
      OBVIOUS
    <3>3. 0 <= clock' /\ clock <= clock'
      BY <1>3
    <3> QED
      BY <1>3, <3>1, <3>2, <3>3
  <2> QED
    BY <2>1, <2>2, <2>3 DEF AlertPast
<1>5. BucketRemembers' /\ Alert!WindowsApart' /\ Alert!CooldownsKept'
  BY <1>0 DEF BucketRemembers, Alert!WindowsApart, Alert!CooldownsKept, Alert!CutShort
<1>6. ASSUME NEW i \in 1 .. Len(refused) PROVE Held(refused, i)'
  <2>0. Held(refused, i)
    BY <1>0
  <2>1. CASE clock >= refused[i].until
    BY <1>2, <1>3, <2>1 DEF Held
  <2>2. CASE Cut(refused, i, clock)
    <3>1. PICK n \in Nat : n = clock'
      OBVIOUS
    <3>2. Cut(refused, i, n)
      BY <1>3, <2>2, <3>1, CutStays
    <3> QED
      BY <3>1, <3>2 DEF Held, Cut
  <2>3. CASE /\ blocked >= refused[i].until \/ Cut(refused, i, blocked)
             /\ \A t \in Tasks : Waits(atask[t]) => atask[t].made <= refused[i].at
    BY <2>3 DEF Held, Cut, Waits
  <2> QED
    BY <2>0, <2>1, <2>2, <2>3 DEF Held
<1> QED
  BY <1>4, <1>5, <1>6 DEF AlertInv, Alert!AlertsAreSpaced

\* A 429 takes the place of the cooldown there was.
LEMMA RateLimitedStep ==
  ASSUME Alert!Constants, AlertInv, NEW t \in Tasks, Alert!RateLimited(t)
  PROVE  AlertInv'
<1>0. /\ AlertType /\ AlertPast /\ BucketRemembers /\ Alert!WindowsApart /\ Alert!CooldownsKept
      /\ \A i \in 1 .. Len(refused) : Held(refused, i)
  BY DEF AlertInv, Alert!AlertsAreSpaced
<1>1. PICK wait \in RetryAfter :
        /\ blocked' = clock + wait
        /\ refused' = Append(refused, [at |-> clock, until |-> clock + wait, made |-> atask[t].made])
  BY DEF Alert!RateLimited
<1>2. UNCHANGED <<clock, alert, requests>> /\ Waits(atask[t])
  BY DEF Alert!RateLimited, Waits
<1>3. atask' = [atask EXCEPT ![t] = Alert!Idle] /\ ~Waits(Alert!Idle) /\ Alert!Idle.made = 0
  BY DEF Alert!RateLimited, Alert!Idle, Waits
<1>4. PICK x \in [at : Nat, until : Nat, made : Nat] :
        /\ x.at = clock /\ x.until = clock + wait /\ x.made = atask[t].made
        /\ refused' = Append(refused, x)
  <2>1. clock \in Nat /\ clock + wait \in Nat /\ atask[t].made \in Nat
    BY <1>0 DEF AlertType, Alert!Constants
  <2>2. [at |-> clock, until |-> clock + wait, made |-> atask[t].made]
          \in [at : Nat, until : Nat, made : Nat]
    BY <2>1
  <2> QED
    BY <1>1, <2>2
<1>5. wait \in Nat \ {0}
  BY DEF Alert!Constants
<1>6. /\ refused \in Seq([at : Nat, until : Nat, made : Nat]) /\ clock \in Nat /\ blocked \in Nat
      /\ Len(refused) \in Nat /\ atask[t].made \in Nat /\ atask[t].made <= clock
  BY <1>0 DEF AlertType, AlertPast
<1>7. /\ Len(refused') = Len(refused) + 1 /\ refused'[Len(refused) + 1] = x
      /\ \A i \in 1 .. Len(refused) : refused'[i] = refused[i]
  BY <1>4, <1>6
<1>8. \A i \in 1 .. Len(refused') : i \in 1 .. Len(refused) \/ i = Len(refused) + 1
  BY <1>6, <1>7
<1>9. AlertType'
  <2>1. refused' \in Seq([at : Nat, until : Nat, made : Nat])
    BY <1>4, <1>6
  <2>2. DOMAIN atask' = Tasks /\ \A u \in Tasks : atask'[u].made \in Nat
    BY <1>0, <1>3 DEF AlertType
  <2>3. blocked' \in Nat
    BY <1>1, <1>5, <1>6
  <2> QED
    BY <1>0, <1>2, <2>1, <2>2, <2>3 DEF AlertType
<1>10. AlertPast'
  <2>1. \A i \in 1 .. Len(refused') : refused'[i].at <= clock
    <3>1. \A i \in 1 .. Len(refused) : refused'[i].at <= clock
      BY <1>0, <1>7 DEF AlertPast
    <3>2. refused'[Len(refused) + 1].at <= clock
      BY <1>4, <1>6, <1>7
    <3> QED
      BY <1>8, <3>1, <3>2
  <2>2. \A u \in Tasks : atask'[u].made <= clock
    BY <1>0, <1>3, <1>6 DEF AlertType, AlertPast
  <2> QED
    BY <1>0, <1>2, <2>1, <2>2 DEF AlertPast
\* What was cut short before is still, by time m.
<1>11. ASSUME NEW i \in 1 .. Len(refused), NEW m, Cut(refused, i, m) PROVE Cut(refused', i, m)
  <2>1. PICK j \in i + 1 .. Len(refused) : refused[j].made <= refused[i].at /\ refused[j].until <= m
    BY <1>11 DEF Cut
  <2>2. j \in 1 .. Len(refused) /\ j \in i + 1 .. Len(refused')
    BY <1>6, <1>7, <2>1
  <2> QED
    BY <1>7, <2>1, <2>2 DEF Cut
<1>12. BucketRemembers' /\ Alert!WindowsApart'
  BY <1>0, <1>2 DEF BucketRemembers, Alert!WindowsApart
<1>13. Alert!CooldownsKept'
  <2>1. DOMAIN refused' = 1 .. Len(refused') /\ DOMAIN refused = 1 .. Len(refused)
    BY <1>4, <1>6
  <2>2. ASSUME NEW r \in Reasons, NEW n \in DOMAIN requests[r], NEW i \in 1 .. Len(refused'),
               requests[r][n] > refused'[i].at, requests[r][n] < refused'[i].until
        PROVE  Cut(refused', i, requests[r][n])
    <3>1. requests[r][n] \in Nat /\ requests[r][n] <= clock
      BY <1>0 DEF AlertType, AlertPast
    <3>2. i \in 1 .. Len(refused)
      BY <1>4, <1>6, <1>7, <1>8, <2>2, <3>1
    <3>3. Cut(refused, i, requests[r][n])
      BY <1>0, <1>7, <2>1, <2>2, <3>2, CooldownsAre
    <3> QED
      BY <1>11, <3>2, <3>3
  <2> QED
    BY <1>2, <2>1, <2>2 DEF Alert!CooldownsKept, Alert!CutShort, Cut
<1>14. ASSUME NEW i \in 1 .. Len(refused') PROVE Held(refused, i)'
  <2>0. \A u \in Tasks : Waits(atask'[u]) => Waits(atask[u]) /\ atask'[u].made = atask[u].made
    BY <1>0, <1>3 DEF AlertType
  <2>1. CASE i = Len(refused) + 1
    <3>1. blocked' >= refused'[i].until
      BY <1>1, <1>4, <1>5, <1>6, <1>7, <2>1
    <3>2. \A u \in Tasks : Waits(atask'[u]) => atask'[u].made <= refused'[i].at
      BY <1>0, <1>4, <1>7, <2>0, <2>1 DEF AlertPast
    <3> QED
      BY <3>1, <3>2 DEF Held, Waits
  <2>2. CASE i \in 1 .. Len(refused)
    <3>0. Held(refused, i) /\ refused'[i] = refused[i]
      BY <1>0, <1>7, <2>2
    <3>1. CASE clock >= refused[i].until
      BY <1>2, <3>0, <3>1 DEF Held
    <3>2. CASE Cut(refused, i, clock)
      BY <1>2, <1>11, <2>2, <3>2 DEF Held, Cut
    <3>3. CASE \A u \in Tasks : Waits(atask[u]) => atask[u].made <= refused[i].at
      <4>1. \A u \in Tasks : Waits(atask'[u]) => atask'[u].made <= refused'[i].at
        BY <2>0, <3>0, <3>3
      <4>2. Cut(refused', i, blocked')
        <5>1. Len(refused) + 1 \in i + 1 .. Len(refused')
          BY <1>6, <1>7, <2>2
        <5>2. refused'[Len(refused) + 1].made <= refused'[i].at
          BY <1>2, <1>4, <1>7, <3>0, <3>3
        <5>3. refused'[Len(refused) + 1].until <= blocked'
          BY <1>1, <1>4, <1>5, <1>6, <1>7
        <5> QED
          BY <5>1, <5>2, <5>3 DEF Cut
      <4> QED
        BY <4>1, <4>2 DEF Held, Cut, Waits
    <3> QED
      BY <3>0, <3>1, <3>2, <3>3 DEF Held
  <2> QED
    BY <1>8, <2>1, <2>2
<1> QED
  BY <1>9, <1>10, <1>12, <1>13, <1>14 DEF AlertInv, Alert!AlertsAreSpaced

\* Two requests for one reason are a window apart, whatever tasks fail at the
\* same time, and none is made in a cooldown that no later answer of a request in
\* flight cut short, for every window and whatever the 429s ask for (notify).
THEOREM AlertsSpaced ==
  ASSUME Alert!Constants
  PROVE  Alert!Spec => []AlertsAreSpaced
<1>1. Alert!Init => AlertInv
  <2> SUFFICES ASSUME Alert!Init PROVE AlertInv
    OBVIOUS
  <2>1. AlertType /\ AlertPast
    BY DEF Alert!Init, AlertType, AlertPast, Alert!NoBucket, Alert!Idle
  <2>2. BucketRemembers
    BY DEF Alert!Init, BucketRemembers
  <2>3. Alert!AlertsAreSpaced /\ \A i \in 1 .. Len(refused) : Held(refused, i)
    BY DEF Alert!Init, Alert!AlertsAreSpaced, Alert!WindowsApart, Alert!CooldownsKept
  <2> QED
    BY <2>1, <2>2, <2>3 DEF AlertInv
<1>2. AlertInv /\ [Alert!Next]_(Alert!vars) => AlertInv'
  <2> SUFFICES ASSUME AlertInv, [Alert!Next]_(Alert!vars) PROVE AlertInv'
    OBVIOUS
  <2>0. AlertType
    BY DEF AlertInv
  <2>1. CASE Alert!Tick
    <3>1. /\ alert' = alert /\ blocked' = blocked /\ atask' = atask
          /\ requests' = requests /\ refused' = refused
          /\ clock \in Nat /\ clock' = clock + 1
      BY <2>0, <2>1 DEF Alert!Tick, AlertType
    <3>2. AlertType' /\ clock' \in Nat /\ clock' >= clock
      BY <2>0, <3>1 DEF AlertType
    <3>3. clock' \in Nat /\ clock' >= clock
      BY <3>1
    <3>4. \A r \in Reasons : alert'[r].lastSent = alert[r].lastSent
      BY <3>1
    <3>5. \A u \in Tasks : atask'[u] = atask[u] \/ (~Waits(atask'[u]) /\ atask'[u].made = 0)
      BY <3>1
    <3> QED
      BY <3>1, <3>2, <3>3, <3>4, <3>5, NoRequest
  <2>2. ASSUME NEW t \in Tasks, Alert!Answered(t) PROVE AlertInv'
    <3>1. /\ DOMAIN atask' = Tasks
          /\ \A u \in Tasks : /\ atask'[u] = atask[u] \/ (~Waits(atask'[u]) /\ atask'[u].made = 0)
                              /\ atask'[u].made \in Nat
      <4>1. ~Waits(Alert!Idle) /\ Alert!Idle.made = 0
        BY DEF Alert!Idle, Waits
      <4>3. 0 \in Nat
        OBVIOUS
      <4>2. atask' = [atask EXCEPT ![t] = Alert!Idle]
        BY <2>2 DEF Alert!Answered
      <4> QED
        BY <2>0, <4>1, <4>2, <4>3 DEF AlertType
    <3>2. /\ clock' = clock /\ alert' = alert /\ blocked' = blocked
          /\ requests' = requests /\ refused' = refused
      BY <2>2 DEF Alert!Answered
    <3>3. AlertType'
      BY <2>0, <3>1, <3>2 DEF AlertType
    <3>4. clock \in Nat /\ clock >= clock
      BY <2>0 DEF AlertType
    <3> QED
      BY <3>1, <3>2, <3>3, <3>4, NoRequest
  <2>4. ASSUME NEW t \in Tasks, NEW r \in Reasons, Alert!Suppress(t, r) PROVE AlertInv'
    <3>1. PICK b : b = [alert[r] EXCEPT !.suppressed = @ + 1]
      OBVIOUS
    <3>0. b \in [lastSent : Int, suppressed : Nat] /\ b.lastSent = alert[r].lastSent
      <4>1. alert[r] \in [lastSent : Int, suppressed : Nat]
        BY <2>0 DEF AlertType
      <4> QED
        BY <3>1, <4>1
    <3>2. alert' = [alert EXCEPT ![r] = b]
      BY <2>4, <3>1 DEF Alert!Suppress
    <3>3. /\ alert' \in [Reasons -> [lastSent : Int, suppressed : Nat]]
          /\ \A s \in Reasons : alert'[s].lastSent = alert[s].lastSent
      BY <2>0, <3>0, <3>2 DEF AlertType
    <3>4. /\ clock' = clock /\ blocked' = blocked /\ atask' = atask
          /\ requests' = requests /\ refused' = refused
      BY <2>4 DEF Alert!Suppress
    <3>5. AlertType' /\ clock \in Nat /\ clock >= clock
      BY <2>0, <3>3, <3>4 DEF AlertType
    <3> QED
      <4>1. clock' \in Nat /\ clock' >= clock
        BY <3>4, <3>5
      <4>2. \A u \in Tasks : atask'[u] = atask[u]
        BY <3>4
      <4> QED
        BY <3>3, <3>4, <3>5, <4>1, <4>2, NoRequest
  <2>5. CASE UNCHANGED Alert!vars
    <3>1. /\ clock' = clock /\ alert' = alert /\ blocked' = blocked /\ atask' = atask
          /\ requests' = requests /\ refused' = refused
      BY <2>5 DEF Alert!vars
    <3>2. clock' \in Nat /\ clock' >= clock /\ AlertType'
      BY <2>0, <3>1 DEF AlertType
    <3> QED
      BY <3>1, <3>2, NoRequest
  <2> QED
    BY <2>1, <2>2, <2>4, <2>5, SendStep, RateLimitedStep DEF Alert!Next
<1>3. AlertInv => Alert!AlertsAreSpaced
  BY DEF AlertInv
<1> QED
  BY <1>1, <1>2, <1>3, PTL DEF Alert!Spec, AlertsAreSpaced

-----------------------------------------------------------------------------
(* The combined queue worker                                               *)

Messages == [post : Posts, attempt : Nat]

Handling == [at : {"handle"}, stage : Work!Stages, message : Messages, passed : BOOLEAN]

\* A process that polls is at a stage; one that handles has a message of its queue.
AtWork(x) ==
  /\ x.at = "poll" => x.stage \in Work!Stages
  /\ x.at = "handle" => x \in Handling

WorkType ==
  /\ backend \in {"rabbitmq", "redis"}
  /\ queue \in [Work!Stages -> Seq(Messages)]
  /\ DOMAIN loop = Work!Processes
  /\ \A w \in Work!Processes : AtWork(loop[w])

Holds(q, p) == \E i \in DOMAIN q : q[i].post = p

\* The process has the post and has not passed it on.
Owns(x, p) == x.at = "handle" /\ x.message.post = p /\ ~x.passed

\* Where a post is when the copies a handler has already passed on do not count.
\* This is stronger than PostAccounted: the copy in hand of a handler that
\* passed its post on says nothing once the message is acknowledged.
Accounted(p) ==
  \/ \E s \in Work!Stages : Holds(queue[s], p)
  \/ \E w \in Work!Processes : Owns(loop[w], p)
  \/ p \in saved \cup wleft \cup dead
  \/ backend = "redis" /\ p \in dropped

WorkInv == WorkType /\ \A p \in published : Accounted(p)

\* What an appended queue holds.
LEMMA HoldsAppend ==
  ASSUME NEW S, NEW q \in Seq(S), NEW m \in S, NEW p
  PROVE  Holds(Append(q, m), p) <=> Holds(q, p) \/ m.post = p
<1>1. /\ Len(Append(q, m)) = Len(q) + 1 /\ Len(q) \in Nat
      /\ DOMAIN q = 1 .. Len(q) /\ DOMAIN Append(q, m) = 1 .. Len(q) + 1
      /\ \A i \in 1 .. Len(q) : Append(q, m)[i] = q[i]
      /\ Append(q, m)[Len(q) + 1] = m
  OBVIOUS
<1>2. ASSUME Holds(q, p) PROVE Holds(Append(q, m), p)
  BY <1>1, <1>2 DEF Holds
<1>3. ASSUME m.post = p PROVE Holds(Append(q, m), p)
  BY <1>1, <1>3 DEF Holds
<1>4. ASSUME Holds(Append(q, m), p) PROVE Holds(q, p) \/ m.post = p
  BY <1>1, <1>4 DEF Holds
<1> QED
  BY <1>2, <1>3, <1>4

\* What a queue holds with a message put back in front.
LEMMA HoldsRequeued ==
  ASSUME NEW S, NEW q \in Seq(S), NEW m \in S, NEW p, Holds(q, p) \/ m.post = p
  PROVE  Holds(<<m>> \o q, p)
<1>1. /\ Len(q) \in Nat /\ DOMAIN q = 1 .. Len(q)
      /\ <<m>> \o q \in Seq(S) /\ Len(<<m>> \o q) = Len(q) + 1
      /\ (<<m>> \o q)[1] = m
      /\ \A i \in 1 .. Len(q) : (<<m>> \o q)[i + 1] = q[i]
  OBVIOUS
<1>2. DOMAIN (<<m>> \o q) = 1 .. Len(q) + 1
  BY <1>1
<1>3. CASE m.post = p
  BY <1>1, <1>2, <1>3 DEF Holds
<1>4. CASE Holds(q, p)
  <2>1. PICK i \in 1 .. Len(q) : q[i].post = p
    BY <1>1, <1>4 DEF Holds
  <2>2. i + 1 \in 1 .. Len(q) + 1
    BY <1>1
  <2> QED
    BY <1>1, <1>2, <2>1, <2>2 DEF Holds
<1> QED
  BY <1>3, <1>4

\* What a popped queue still holds.
LEMMA HoldsTail ==
  ASSUME NEW S, NEW q \in Seq(S), q # << >>, NEW p, Holds(q, p)
  PROVE  Head(q).post = p \/ Holds(Tail(q), p)
<1>1. /\ Len(q) \in Nat /\ DOMAIN q = 1 .. Len(q) /\ Head(q) = q[1]
      /\ DOMAIN Tail(q) = 1 .. Len(q) - 1
      /\ \A i \in 1 .. Len(q) - 1 : Tail(q)[i] = q[i + 1]
  OBVIOUS
<1>2. PICK i \in 1 .. Len(q) : q[i].post = p
  BY <1>1 DEF Holds
<1>3. CASE i = 1
  BY <1>1, <1>2, <1>3
<1>4. CASE i # 1
  <2>1. i - 1 \in 1 .. Len(q) - 1 /\ (i - 1) + 1 = i
    BY <1>1, <1>4
  <2> QED
    BY <1>1, <1>2, <2>1 DEF Holds
<1> QED
  BY <1>3, <1>4

\* The next stage to poll is a stage.
LEMMA AfterPolls ==
  ASSUME WorkType, NEW w \in Work!Processes, loop[w].at \in {"poll", "handle"}
  PROVE  AtWork(Work!After(w)) /\ Work!After(w).at = "poll"
<1>1. loop[w].stage \in 1 .. 3
  BY DEF WorkType, AtWork, Handling, Work!Stages
<1>2. 1 + (loop[w].stage % 3) \in 1 .. 3
  BY <1>1
<1>3. \A s \in 1 .. 3 : Work!Polls(s).at = "poll" /\ Work!Polls(s).stage = s
  BY DEF Work!Polls
<1>4. PICK s \in 1 .. 3 : Work!After(w) = Work!Polls(s)
  BY <1>2 DEF Work!After, Work!Processes, Work!Stages
<1> QED
  BY <1>3, <1>4 DEF AtWork, Work!Stages

\* What a step of a process has to keep: the posts in the queues, and its own.
LEMMA ProcessStep ==
  ASSUME WorkInv, NEW w \in Work!Processes, NEW x, loop' = [loop EXCEPT ![w] = x], AtWork(x),
         queue' \in [Work!Stages -> Seq(Messages)], UNCHANGED <<backend, published>>,
         saved \subseteq saved', wleft \subseteq wleft', dead \subseteq dead',
         dropped \subseteq dropped',
         \A p \in published : \A s \in Work!Stages :
           Holds(queue[s], p) => Holds(queue'[s], p) \/ Owns(x, p),
         \A p \in published :
           Owns(loop[w], p) =>
             \/ \E s \in Work!Stages : Holds(queue'[s], p)
             \/ Owns(x, p)
             \/ p \in saved' \cup wleft' \cup dead'
             \/ backend = "redis" /\ p \in dropped'
  PROVE  WorkInv'
<1>1. WorkType /\ \A p \in published : Accounted(p)
  BY DEF WorkInv
<1>2. /\ DOMAIN loop' = Work!Processes /\ loop'[w] = x
      /\ \A v \in Work!Processes \ {w} : loop'[v] = loop[v]
  BY <1>1 DEF WorkType
<1>3. \A v \in Work!Processes : AtWork(loop'[v])
  BY <1>1, <1>2 DEF WorkType
<1>4. WorkType'
  BY <1>1, <1>2, <1>3 DEF WorkType, AtWork, Handling, Messages, Work!Stages, Work!Processes
<1>5. ASSUME NEW p \in published
      PROVE  \/ \E s \in Work!Stages : Holds(queue'[s], p)
             \/ \E v \in Work!Processes : Owns(loop'[v], p)
             \/ p \in saved' \cup wleft' \cup dead'
             \/ backend = "redis" /\ p \in dropped'
  BY <1>1, <1>2 DEF Accounted
<1>6. \A p \in published' : Accounted(p)'
  BY <1>5 DEF Accounted, Holds, Owns, Work!Stages, Work!Processes
<1> QED
  BY <1>4, <1>6 DEF WorkInv

\* Nobody owns a post while it polls or is down.
LEMMA OnlyHandlersOwn ==
  ASSUME NEW x, x.at # "handle", NEW p PROVE ~Owns(x, p)
BY DEF Owns

\* The process ends with its message: RabbitMQ has it back, Redis has lost it.
LEMMA EndsHoldingStep ==
  ASSUME WorkInv, NEW w \in Work!Processes, Work!Handles(w),
         Work!EndsHolding(w, loop[w].message),
         UNCHANGED <<backend, published, saved, wleft, dead>>
  PROVE  WorkInv'
<1>1. loop[w] \in Handling /\ queue \in [Work!Stages -> Seq(Messages)]
  BY DEF WorkInv, WorkType, AtWork, Work!Handles
<1>2. loop[w].stage \in Work!Stages /\ loop[w].message \in Messages
  BY <1>1 DEF Handling
<1>3. PICK x : x = Work!Down
  OBVIOUS
<1>4. x.at = "down" /\ AtWork(x) /\ loop' = [loop EXCEPT ![w] = x]
  BY <1>3 DEF Work!Down, AtWork, Work!EndsHolding
<1>5. CASE backend = "rabbitmq"
  <2>1. /\ queue' = [queue EXCEPT ![loop[w].stage] = <<loop[w].message>> \o @]
        /\ UNCHANGED dropped
    BY <1>5 DEF Work!EndsHolding, Work!Requeued
  <2>2. <<loop[w].message>> \o queue[loop[w].stage] \in Seq(Messages)
    BY <1>1, <1>2
  <2>3. /\ queue' \in [Work!Stages -> Seq(Messages)]
        /\ queue'[loop[w].stage] = <<loop[w].message>> \o queue[loop[w].stage]
        /\ \A s \in Work!Stages : s # loop[w].stage => queue'[s] = queue[s]
    BY <1>1, <1>2, <2>1, <2>2
  <2>4. \A p : Holds(queue[loop[w].stage], p) \/ loop[w].message.post = p =>
                 Holds(queue'[loop[w].stage], p)
    BY <1>1, <1>2, <2>3, HoldsRequeued
  <2>5. \A p : \A s \in Work!Stages : Holds(queue[s], p) => Holds(queue'[s], p)
    BY <2>3, <2>4
  <2>6. \A p : Owns(loop[w], p) => \E s \in Work!Stages : Holds(queue'[s], p)
    BY <1>2, <2>4 DEF Owns
  <2> QED
    BY <1>4, <2>1, <2>3, <2>5, <2>6, ProcessStep
<1>6. CASE backend = "redis"
  <2>1. dropped' = dropped \cup {loop[w].message.post} /\ UNCHANGED queue
    BY <1>6 DEF Work!EndsHolding
  <2> QED
    BY <1>1, <1>4, <1>6, <2>1, ProcessStep DEF Owns
<1> QED
  BY <1>5, <1>6 DEF WorkInv, WorkType

\* queue.retry, whatever raised: stored again, used up, or the process ends.
LEMMA RetryStep ==
  ASSUME WorkInv, NEW w \in Work!Processes, Work!Handles(w),
         Work!RetryStores(w) \/ Work!RetryExhausted(w) \/ Work!RetryRaises(w),
         UNCHANGED <<backend, published, saved, wleft>>
  PROVE  WorkInv'
<1>1. loop[w] \in Handling /\ queue \in [Work!Stages -> Seq(Messages)]
  BY DEF WorkInv, WorkType, AtWork, Work!Handles
<1>2. loop[w].stage \in Work!Stages /\ loop[w].message \in Messages
  BY <1>1 DEF Handling
<1>3. PICK x : x = Work!After(w)
  OBVIOUS
<1>4. x.at = "poll" /\ AtWork(x)
  BY <1>3, AfterPolls DEF WorkInv, Work!Handles
<1>5. CASE Work!RetryStores(w)
  <2>1. PICK m : m = Work!Message(loop[w].message.post, loop[w].message.attempt + 1)
    OBVIOUS
  <2>2. m \in Messages /\ m.post = loop[w].message.post
    BY <1>2, <2>1 DEF Work!Message, Messages
  <2>3. queue' = [queue EXCEPT ![loop[w].stage] = Append(@, m)]
    BY <1>5, <2>1 DEF Work!RetryStores, Work!Put
  <2>4. /\ queue' \in [Work!Stages -> Seq(Messages)]
        /\ queue'[loop[w].stage] = Append(queue[loop[w].stage], m)
        /\ \A s \in Work!Stages : s # loop[w].stage => queue'[s] = queue[s]
    BY <1>1, <1>2, <2>2, <2>3
  <2>5. \A p : Holds(queue[loop[w].stage], p) \/ m.post = p => Holds(queue'[loop[w].stage], p)
    BY <1>1, <1>2, <2>2, <2>4, HoldsAppend
  <2>6. \A p : \A s \in Work!Stages : Holds(queue[s], p) => Holds(queue'[s], p)
    BY <2>4, <2>5
  <2>7. \A p : Owns(loop[w], p) => \E s \in Work!Stages : Holds(queue'[s], p)
    BY <1>2, <2>2, <2>5 DEF Owns
  <2>8. loop' = [loop EXCEPT ![w] = x] /\ UNCHANGED <<dead, dropped>>
    BY <1>3, <1>5 DEF Work!RetryStores
  <2> QED
    BY <1>4, <2>4, <2>6, <2>7, <2>8, ProcessStep
<1>6. CASE Work!RetryExhausted(w)
  <2>1. loop' = [loop EXCEPT ![w] = x] /\ UNCHANGED queue
    BY <1>3, <1>6 DEF Work!RetryExhausted
  <2>2. /\ dead \subseteq dead' /\ dropped \subseteq dropped'
        /\ loop[w].message.post \in dead' \/ (backend = "redis" /\ loop[w].message.post \in dropped')
    BY <1>6 DEF Work!RetryExhausted, WorkInv, WorkType
  <2> QED
    BY <1>1, <1>4, <2>1, <2>2, ProcessStep DEF Owns
<1>7. CASE Work!RetryRaises(w)
  BY <1>7, EndsHoldingStep DEF Work!RetryRaises
<1> QED
  BY <1>5, <1>6, <1>7

\* A popped post is with its process.
LEMMA PopStep ==
  ASSUME WorkInv, NEW w \in Work!Processes, Work!Pop(w)
  PROVE  WorkInv'
<1>1. WorkType /\ loop[w].stage \in Work!Stages
  BY DEF WorkInv, WorkType, AtWork, Work!Pop
<1>2. PICK s \in Work!Stages : s = loop[w].stage
  BY <1>1
<1>3. queue[s] \in Seq(Messages) /\ queue[s] # << >>
  BY <1>1, <1>2 DEF WorkType, Work!Pop
<1>4. PICK x : x = [at |-> "handle", stage |-> s, message |-> Head(queue[s]), passed |-> FALSE]
  OBVIOUS
<1>5. x \in Handling /\ AtWork(x) /\ \A p : Head(queue[s]).post = p => Owns(x, p)
  BY <1>3, <1>4 DEF Handling, AtWork, Owns
<1>6. /\ loop' = [loop EXCEPT ![w] = x] /\ queue' = [queue EXCEPT ![s] = Tail(@)]
      /\ UNCHANGED <<backend, published, saved, wleft, dead, dropped>>
  BY <1>2, <1>4 DEF Work!Pop, Work!settings
<1>7. /\ queue' \in [Work!Stages -> Seq(Messages)] /\ queue'[s] = Tail(queue[s])
      /\ \A r \in Work!Stages : r # s => queue'[r] = queue[r]
  BY <1>1, <1>3, <1>6 DEF WorkType
<1>8. \A p : \A r \in Work!Stages : Holds(queue[r], p) => Holds(queue'[r], p) \/ Owns(x, p)
  BY <1>3, <1>5, <1>7, HoldsTail
<1>9. \A p : ~Owns(loop[w], p)
  BY DEF Work!Pop, Owns
<1> QED
  BY <1>5, <1>6, <1>7, <1>8, <1>9, ProcessStep

\* The handler has put the post where the next stage finds it before it returns.
LEMMA PassOnStep ==
  ASSUME WorkInv, NEW w \in Work!Processes, Work!PassOn(w)
  PROVE  WorkInv'
<1>1. WorkType /\ loop[w] \in Handling
  BY DEF WorkInv, WorkType, AtWork, Work!PassOn, Work!Handles
<1>2. loop[w].stage \in 1 .. 3 /\ loop[w].message.post \in Posts
  BY <1>1 DEF Handling, Messages, Work!Stages
<1>3. PICK x : x = [loop[w] EXCEPT !.passed = TRUE]
  OBVIOUS
<1>4. AtWork(x) /\ loop' = [loop EXCEPT ![w] = x]
  <2>1. x \in Handling
    BY <1>1, <1>3 DEF Handling
  <2> QED
    BY <1>3, <2>1 DEF AtWork, Handling, Work!PassOn
<1>5. PICK p : p = loop[w].message.post
  OBVIOUS
<1>6. UNCHANGED <<backend, published, wleft, dead, dropped>>
  BY DEF Work!PassOn, Work!settings
<1>7. CASE loop[w].stage = 3
  <2>1. saved' = saved \cup {p} /\ UNCHANGED queue
    BY <1>5, <1>7 DEF Work!PassOn
  <2> QED
    BY <1>1, <1>4, <1>5, <1>6, <2>1, ProcessStep DEF Owns, WorkType
<1>8. CASE loop[w].stage < 3
  <2>1. PICK n \in Work!Stages : n = loop[w].stage + 1
    BY <1>2, <1>8 DEF Work!Stages
  <2>2. PICK m : m = Work!Message(p, 0)
    OBVIOUS
  <2>3. m \in Messages /\ m.post = p
    BY <1>2, <1>5, <2>2 DEF Work!Message, Messages
  <2>4. queue' = [queue EXCEPT ![n] = Append(@, m)] /\ UNCHANGED saved
    BY <1>2, <1>5, <1>8, <2>1, <2>2 DEF Work!PassOn, Work!Put
  <2>5. /\ queue' \in [Work!Stages -> Seq(Messages)] /\ queue'[n] = Append(queue[n], m)
        /\ \A s \in Work!Stages : s # n => queue'[s] = queue[s]
    BY <1>1, <2>3, <2>4 DEF WorkType
  <2>6. \A r : Holds(queue[n], r) \/ m.post = r => Holds(queue'[n], r)
    <3>1. queue[n] \in Seq(Messages)
      BY <1>1 DEF WorkType
    <3> QED
      BY <2>3, <2>5, <3>1, HoldsAppend
  <2>7. \A r : \A s \in Work!Stages : Holds(queue[s], r) => Holds(queue'[s], r)
    BY <2>5, <2>6
  <2>8. \A r : Owns(loop[w], r) => \E s \in Work!Stages : Holds(queue'[s], r)
    BY <1>5, <2>3, <2>6 DEF Owns
  <2> QED
    BY <1>4, <1>6, <2>4, <2>5, <2>7, <2>8, ProcessStep
<1> QED
  BY <1>2, <1>7, <1>8

\* Through the three stages, however they are split over processes and however
\* often handlers raise and processes end, a published post is in a queue or in
\* hand, saved, let go by a handler that returned, or a dead letter; only Redis
\* may have lost it (process_batch_once, retry), for any number of posts,
\* attempts and faults.
THEOREM PostsAccounted == Work!Spec => []PostAccounted
<1>1. Work!Init => WorkInv
  BY DEF Work!Init, WorkInv, WorkType, AtWork, Work!Down, Work!Processes
<1>2. WorkInv /\ [Work!Next]_(Work!vars) => WorkInv'
  <2> SUFFICES ASSUME WorkInv, [Work!Next]_(Work!vars) PROVE WorkInv'
    OBVIOUS
  <2>0. WorkType
    BY DEF WorkInv
  <2>1. ASSUME NEW p \in Posts, Work!Publish(p) PROVE WorkInv'
    <3>1. PICK m : m = Work!Message(p, 0)
      OBVIOUS
    <3>2. m \in Messages /\ m.post = p
      BY <3>1 DEF Work!Message, Messages
    <3>3. queue' = [queue EXCEPT ![1] = Append(@, m)] /\ 1 \in Work!Stages
      BY <2>1, <3>1 DEF Work!Publish, Work!Put, Work!Stages
    <3>4. /\ queue' \in [Work!Stages -> Seq(Messages)] /\ queue'[1] = Append(queue[1], m)
          /\ \A s \in Work!Stages : s # 1 => queue'[s] = queue[s]
      BY <2>0, <3>2, <3>3 DEF WorkType
    <3>5. \A r : Holds(queue[1], r) \/ m.post = r => Holds(queue'[1], r)
      <4>1. queue[1] \in Seq(Messages)
        BY <2>0, <3>3 DEF WorkType
      <4> QED
        BY <3>2, <3>4, <4>1, HoldsAppend
    <3>6. \A r : \A s \in Work!Stages : Holds(queue[s], r) => Holds(queue'[s], r)
      BY <3>4, <3>5
    <3>7. /\ UNCHANGED <<backend, loop, saved, wleft, dead, dropped>>
          /\ published' = published \cup {p}
      BY <2>1 DEF Work!Publish, Work!settings
    <3>8. WorkType'
      BY <2>0, <3>4, <3>7
      DEF WorkType, AtWork, Handling, Messages, Work!Stages, Work!Processes
    <3>9. ASSUME NEW r \in published'
          PROVE  \/ \E s \in Work!Stages : Holds(queue'[s], r)
                 \/ \E v \in Work!Processes : Owns(loop[v], r)
                 \/ r \in saved \cup wleft \cup dead
                 \/ backend = "redis" /\ r \in dropped
      BY <3>2, <3>3, <3>5, <3>6, <3>7 DEF WorkInv, Accounted
    <3>10. \A r \in published' : Accounted(r)'
      BY <3>7, <3>9 DEF Accounted, Holds, Owns, Work!Stages, Work!Processes
    <3> QED
      BY <3>8, <3>10 DEF WorkInv
  <2>2. ASSUME NEW w \in Work!Processes, NEW x, loop' = [loop EXCEPT ![w] = x], AtWork(x),
               UNCHANGED <<backend, published, queue, saved, dead, dropped>>,
               wleft \subseteq wleft',
               \A p : Owns(loop[w], p) => p \in wleft'
        PROVE  WorkInv'
    BY <2>0, <2>2, ProcessStep DEF WorkType
  <2>3. ASSUME NEW w \in Work!Processes, Work!Start(w) PROVE WorkInv'
    <3>1. AtWork(Work!Polls(w)) /\ \A p : ~Owns(loop[w], p)
      BY <2>3 DEF Work!Start, Work!Polls, Work!Down, AtWork, Owns, Work!Processes
    <3> QED
      BY <2>2, <2>3, <3>1 DEF Work!Start, Work!settings
  <2>4. ASSUME NEW w \in Work!Processes, Work!Nothing(w) PROVE WorkInv'
    <3>1. AtWork(Work!After(w)) /\ \A p : ~Owns(loop[w], p)
      BY <2>0, <2>4, AfterPolls DEF Work!Nothing, Owns
    <3> QED
      BY <2>2, <2>4, <3>1 DEF Work!Nothing, Work!settings
  <2>5. ASSUME NEW w \in Work!Processes, Work!Acked(w) PROVE WorkInv'
    <3>1. AtWork(Work!After(w))
      BY <2>0, <2>5, AfterPolls DEF Work!Acked, Work!Handles
    <3>2. wleft \subseteq wleft' /\ \A p : Owns(loop[w], p) => p \in wleft'
      BY <2>5 DEF Work!Acked, Owns
    <3> QED
      BY <2>2, <2>5, <3>1, <3>2 DEF Work!Acked, Work!settings
  <2>6. ASSUME NEW w \in Work!Processes, Work!Raised(w) \/ Work!Skipped(w) PROVE WorkInv'
    BY <2>6, RetryStep DEF Work!Raised, Work!Skipped, Work!settings
  <2>7. ASSUME NEW w \in Work!Processes, Work!Crash(w) PROVE WorkInv'
    BY <2>7, EndsHoldingStep DEF Work!Crash, Work!settings
  <2>8. CASE UNCHANGED Work!vars
    BY <2>8 DEF Work!vars, WorkInv, WorkType, Accounted, AtWork, Handling, Messages, Holds, Owns,
      Work!Stages, Work!Processes
  <2> QED
    BY <2>1, <2>3, <2>4, <2>5, <2>6, <2>7, <2>8, PopStep, PassOnStep DEF Work!Next
<1>3. WorkInv => Work!PostAccounted
  BY DEF WorkInv, Accounted, Holds, Owns, Work!PostAccounted, Work!Queued, Work!InHand,
    Work!Handles
<1> QED
  BY <1>1, <1>2, <1>3, PTL DEF Work!Spec, PostAccounted

-----------------------------------------------------------------------------
(* Product metrics                                                         *)

\* Moments are natural numbers, and a user has one registration: its key names nothing else.
EventsWellFormed ==
  /\ now \in Nat
  /\ \A e \in events : e.at \in Nat /\ e.key[1] = e.name /\ e.key[2] = e.user
                       /\ (e.name = "user_registered" => e.key = <<e.name, e.user, 1>>)
  /\ \A d, e \in events : d.key = e.key => d = e

\* A user has one registration.
LEMMA OneRegistration ==
  ASSUME EventsWellFormed, NEW d \in events, NEW e \in events,
         d.name = "user_registered", e.name = "user_registered", d.user = e.user
  PROVE  d = e
<1>1. d.key = <<"user_registered", d.user, 1>> /\ e.key = <<"user_registered", e.user, 1>>
  BY DEF EventsWellFormed
<1> QED
  BY <1>1 DEF EventsWellFormed

\* What is computed from any lookup that reaches back to the registration is its moment.
LEMMA RegistrationMoment ==
  ASSUME EventsWellFormed, NEW es \in SUBSET events, NEW r \in es, r.name = "user_registered"
  PROVE  Metric!RegisteredAt(es, r.user) = r.at
<1> DEFINE c == CHOOSE e \in es : e.name = "user_registered" /\ e.user = r.user
<1>1. c \in es /\ c.name = "user_registered" /\ c.user = r.user
  OBVIOUS
<1>2. c = r
  BY <1>1, OneRegistration
<1> QED
  BY <1>2 DEF Metric!RegisteredAt

\* Who is registered in a window has a registration in it.
LEMMA RegisteredIs ==
  ASSUME NEW w, NEW u
  PROVE  u \in Metric!Registered(w) <=>
           \E r \in events : /\ r.name = "user_registered" /\ r.user = u
                             /\ w.start <= r.at /\ r.at < w.end
BY DEF Metric!Registered, Metric!UsersOf, Metric!ListEvents

\* The lookup reaches as far as the seventh day of the last registration.
LEMMA RetentionOf ==
  ASSUME EventsWellFormed, NEW w, w.start \in Nat, w.end \in Nat
  PROVE  Metric!Retained(w) = {u \in Metric!Registered(w) : Metric!ReturnedOnDay7(u)}
<1> DEFINE es == Metric!ListEvents(w.start, Metric!LookupEnd(w.end))
<1>0. es \in SUBSET events
  BY DEF Metric!ListEvents
<1>1. ASSUME NEW u \in Metric!Registered(w)
      PROVE  Metric!ReturnedOnDay7(u) <=>
               \E e \in es : /\ e.user = u /\ e.name # "user_registered"
                             /\ Metric!RegisteredAt(es, u) + 7 * Metric!Day <= e.at
                             /\ e.at < Metric!RegisteredAt(es, u) + 7 * Metric!Day + Metric!D7Window
  <2>1. PICK r \in events : /\ r.name = "user_registered" /\ r.user = u
                            /\ w.start <= r.at /\ r.at < w.end
    BY <1>1, RegisteredIs
  <2>2. r.at \in Nat
    BY DEF EventsWellFormed
  <2>3. r \in es
    BY <2>1, <2>2 DEF Metric!ListEvents, Metric!LookupEnd, Metric!Day, Metric!D7Window
  <2>4. Metric!RegisteredAt(es, u) = r.at
    BY <1>0, <2>1, <2>3, RegistrationMoment
  <2>5. ASSUME NEW e \in events, r.at + 7 * Metric!Day <= e.at,
               e.at < r.at + 7 * Metric!Day + Metric!D7Window
        PROVE  e \in es
    <3>1. e.at \in Nat
      BY DEF EventsWellFormed
    <3> QED
      BY <2>1, <2>2, <2>5, <3>1 DEF Metric!ListEvents, Metric!LookupEnd, Metric!Day, Metric!D7Window
  <2>6. ASSUME Metric!ReturnedOnDay7(u)
        PROVE  \E e \in es : /\ e.user = u /\ e.name # "user_registered"
                             /\ r.at + 7 * Metric!Day <= e.at
                             /\ e.at < r.at + 7 * Metric!Day + Metric!D7Window
    <3>1. PICK q \in events, e \in events :
            /\ q.user = u /\ q.name = "user_registered"
            /\ e.user = u /\ e.name # "user_registered"
            /\ q.at + 7 * Metric!Day <= e.at /\ e.at < q.at + 7 * Metric!Day + Metric!D7Window
      BY <2>6 DEF Metric!ReturnedOnDay7
    <3>2. q = r
      BY <2>1, <3>1, OneRegistration
    <3> QED
      BY <2>5, <3>1, <3>2
  <2>7. ASSUME NEW e \in es, e.user = u, e.name # "user_registered",
               r.at + 7 * Metric!Day <= e.at, e.at < r.at + 7 * Metric!Day + Metric!D7Window
        PROVE  Metric!ReturnedOnDay7(u)
    BY <1>0, <2>1, <2>7 DEF Metric!ReturnedOnDay7
  <2> HIDE DEF es
  <2> QED
    BY <2>4, <2>6, <2>7
<1> QED
  BY <1>1 DEF Metric!Retained

\* The days of a window cover it and do not overlap.
LEMMA DaysOf ==
  ASSUME EventsWellFormed, NEW v, NEW w, NEW whole, v.start \in Nat, v.end \in Nat,
         w.start \in Nat, w.end \in Nat, v.start <= v.end, w.start <= w.end, v.end = w.start,
         whole.start = v.start, whole.end = w.end
  PROVE  /\ Metric!Registered(v) \cap Metric!Registered(w) = {}
         /\ Metric!Registered(v) \cup Metric!Registered(w) = Metric!Registered(whole)
         /\ Metric!Retained(v) \cup Metric!Retained(w) = Metric!Retained(whole)
         /\ Metric!Activated(v) \cup Metric!Activated(w) \subseteq Metric!Activated(whole)
         /\ Metric!Converted(v) \cup Metric!Converted(w) \subseteq Metric!Converted(whole)
<1>0. \A e \in events : e.at \in Nat
  BY DEF EventsWellFormed
<1>1. Metric!Registered(v) \cap Metric!Registered(w) = {}
  <2> SUFFICES ASSUME NEW u \in Metric!Registered(v), u \in Metric!Registered(w) PROVE FALSE
    OBVIOUS
  <2>1. PICK q \in events : q.name = "user_registered" /\ q.user = u /\ q.at < v.end
    BY RegisteredIs
  <2>2. PICK r \in events : r.name = "user_registered" /\ r.user = u /\ w.start <= r.at
    BY RegisteredIs
  <2>3. q = r
    BY <2>1, <2>2, OneRegistration
  <2> QED
    BY <1>0, <2>1, <2>2, <2>3
<1>2. Metric!Registered(v) \cup Metric!Registered(w) = Metric!Registered(whole)
  <2>1. ASSUME NEW u
        PROVE  u \in Metric!Registered(v) \/ u \in Metric!Registered(w) <=> u \in Metric!Registered(whole)
    BY <1>0, RegisteredIs
  <2> QED
    BY <2>1
<1>3. Metric!Retained(v) \cup Metric!Retained(w) = Metric!Retained(whole)
  BY <1>2, RetentionOf
<1>4. ASSUME NEW x \in {v, w} PROVE Metric!ListEvents(x.start, x.end)
                                      \subseteq Metric!ListEvents(whole.start, whole.end)
  BY <1>0 DEF Metric!ListEvents
<1>5. ASSUME NEW x \in {v, w} PROVE Metric!Activated(x) \subseteq Metric!Activated(whole)
  <2> SUFFICES ASSUME NEW u \in Metric!Activated(x) PROVE u \in Metric!Activated(whole)
    OBVIOUS
  <2> DEFINE es == Metric!ListEvents(x.start, x.end)
             all == Metric!ListEvents(whole.start, whole.end)
  <2>1. u \in Metric!Registered(x)
    BY DEF Metric!Activated
  <2>2. PICK e \in es : e.user = u /\ e.name \in Metric!ActivationEvents /\ Metric!RegisteredAt(es, u) <= e.at
    BY DEF Metric!Activated
  <2>3. PICK r \in es : r.name = "user_registered" /\ r.user = u
    BY <2>1 DEF Metric!Registered, Metric!UsersOf
  <2>4. es \in SUBSET events /\ all \in SUBSET events /\ es \subseteq all
    BY <1>4 DEF Metric!ListEvents
  <2>5. Metric!RegisteredAt(es, u) = r.at /\ Metric!RegisteredAt(all, u) = r.at
    <3> HIDE DEF es, all
    <3> QED
      BY <2>3, <2>4, RegistrationMoment
  <2>6. u \in Metric!Registered(whole)
    BY <1>2, <2>1
  <2> QED
    BY <2>2, <2>4, <2>5, <2>6 DEF Metric!Activated
<1>6. ASSUME NEW x \in {v, w} PROVE Metric!Converted(x) \subseteq Metric!Converted(whole)
  BY <1>4 DEF Metric!Converted, Metric!Invited, Metric!UsersOf
<1> QED
  BY <1>1, <1>2, <1>3, <1>5, <1>6

\* The metrics of any windows lose and repeat nobody, however late registrations
\* are recorded and however many users and events there are (beta_snapshot).
THEOREM SnapshotsComplete ==
  ASSUME Metric!Constants PROVE Metric!Spec => []SnapshotIsComplete
<1>1. Metric!Init => EventsWellFormed
  BY DEF Metric!Init, EventsWellFormed
<1>2. EventsWellFormed /\ [Metric!Next]_(Metric!vars) => EventsWellFormed'
  <2> SUFFICES ASSUME EventsWellFormed, [Metric!Next]_(Metric!vars) PROVE EventsWellFormed'
    OBVIOUS
  <2>1. CASE Metric!Tick
    BY <2>1 DEF Metric!Tick, EventsWellFormed
  <2>2. ASSUME NEW name \in Metric!Names, NEW u \in Visitors, NEW d \in Metric!Details(name),
               Metric!Record(name, u, d)
        PROVE  EventsWellFormed'
    <3>1. PICK at \in Metric!OccurredAt(name) :
            events' = IF \E e \in events : e.key = Metric!Key(name, u, d) THEN events
                      ELSE events \cup {[key |-> Metric!Key(name, u, d), name |-> name,
                                         user |-> u, at |-> at]}
      BY <2>2 DEF Metric!Record
    <3>2. at \in Nat /\ now' = now
      BY <2>2, <3>1 DEF Metric!OccurredAt, Metric!Record, EventsWellFormed
    <3>3. name = "user_registered" => d = 1
      BY DEF Metric!Details
    <3> QED
      BY <3>1, <3>2, <3>3 DEF EventsWellFormed, Metric!Key
  <2>3. CASE UNCHANGED Metric!vars
    BY <2>3 DEF Metric!vars, EventsWellFormed
  <2> QED
    BY <2>1, <2>2, <2>3 DEF Metric!Next
<1>3. EventsWellFormed => Metric!SnapshotIsComplete
  <2> SUFFICES ASSUME EventsWellFormed PROVE Metric!SnapshotIsComplete
    OBVIOUS
  <2>1. Metric!RetentionIsComplete
    BY RetentionOf DEF Metric!RetentionIsComplete, Metric!Constants
  <2>2. Metric!DaysAddUp
    <3> SUFFICES ASSUME NEW v \in Windows, NEW w \in Windows, v.end = w.start
                 PROVE  LET whole == [start |-> v.start, end |-> w.end] IN
                          /\ Metric!Registered(v) \cap Metric!Registered(w) = {}
                          /\ Metric!Registered(v) \cup Metric!Registered(w) = Metric!Registered(whole)
                          /\ Metric!Retained(v) \cup Metric!Retained(w) = Metric!Retained(whole)
                          /\ Metric!Activated(v) \cup Metric!Activated(w) \subseteq Metric!Activated(whole)
                          /\ Metric!Converted(v) \cup Metric!Converted(w) \subseteq Metric!Converted(whole)
      BY DEF Metric!DaysAddUp
    <3> DEFINE whole == [start |-> v.start, end |-> w.end]
    <3>1. whole.start = v.start /\ whole.end = w.end
      OBVIOUS
    <3> HIDE DEF whole
    <3>2. /\ v.start \in Nat /\ v.end \in Nat /\ w.start \in Nat /\ w.end \in Nat
          /\ v.start <= v.end /\ w.start <= w.end
      BY DEF Metric!Constants
    <3> QED
      BY <3>1, <3>2, DaysOf
  <2> QED
    BY <2>1, <2>2 DEF Metric!SnapshotIsComplete
<1> QED
  BY <1>1, <1>2, <1>3, PTL DEF Metric!Spec, SnapshotIsComplete

-----------------------------------------------------------------------------
(* The bot's dialogue                                                      *)

\* The module's own copies of the operators on finite sets.
LEMMA FiniteSetsOfBot ==
  \A S : (Bot!IsFiniteSet(S) <=> IsFiniteSet(S)) /\ Bot!Cardinality(S) = Cardinality(S)
BY Zenon DEF IsFiniteSet, Bot!IsFiniteSet, Cardinality, Bot!Cardinality

\* What a handler or a pending name will write was agreed to, for that filter.
WritesAreAgreed ==
  /\ pendingEdit \in Filters \cup {Bot!NoFilter}
  /\ pendingName.filter \in Filters \cup {Bot!NoFilter, Bot!NoWrite.filter}
  /\ pendingName.filter = Bot!NoWrite.filter => pendingName = Bot!NoWrite
  /\ pendingName.filter \in Filters => <<pendingName.filter, pendingName.filled>> \in agreed
  /\ \A s \in Slots :
       /\ task[s].kind \in {"update", "run", "edit"} => task[s].filter \in Filters
       /\ task[s].kind = "update" => <<task[s].filter, task[s].filled>> \in agreed

\* A creation that found room still has it, as no other was under way since.
CreationsHaveRoom ==
  \/ overlapped
  \/ /\ Cardinality(Bot!StoredFilters) <= MaxFilters
     /\ \A s, t \in Slots : task[s].kind = "create" /\ task[t].kind = "create" => s = t
     /\ \A s \in Slots : task[s].kind = "create" => Bot!HasRoom

BotShape ==
  /\ filters = [f \in Filters |-> filters[f]]
  /\ \A f \in Filters : filters[f] = [filled |-> filters[f].filled, enabled |-> filters[f].enabled,
                                      by |-> filters[f].by]
  /\ task = [s \in Slots |-> task[s]]

BotInv == BotShape /\ WritesAreAgreed /\ CreationsHaveRoom /\ Bot!UpdateGoesWhereAsked

\* One handler that begins to wait, in a slot that was free.
LEMMA WaitsIn ==
  ASSUME BotShape, NEW kind, NEW g, NEW filled, Bot!Waits(kind, g, filled)
  PROVE  \E s \in Slots :
           /\ task[s] = Bot!Idle
           /\ task'[s] = [kind |-> kind, filter |-> g, filled |-> filled]
           /\ \A t \in Slots : t # s => task'[t] = task[t]
           /\ task' = [t \in Slots |-> task'[t]]
BY DEF Bot!Waits, BotShape

\* Fewer filters leave more room.
LEMMA RoomGrows ==
  ASSUME Bot!Constants, Bot!StoredFilters' \subseteq Bot!StoredFilters
  PROVE  /\ Cardinality(Bot!StoredFilters)' \in Nat
         /\ Cardinality(Bot!StoredFilters) <= MaxFilters => Cardinality(Bot!StoredFilters)' <= MaxFilters
         /\ Bot!HasRoom => Bot!HasRoom'
<1>1. IsFiniteSet(Bot!StoredFilters)
  BY FS_Subset, FiniteSetsOfBot DEF Bot!Constants, Bot!StoredFilters
<1>2. Cardinality(Bot!StoredFilters)' <= Cardinality(Bot!StoredFilters) /\ IsFiniteSet(Bot!StoredFilters')
  BY <1>1, FS_Subset
<1>3. Cardinality(Bot!StoredFilters) \in Nat /\ Cardinality(Bot!StoredFilters)' \in Nat
  BY <1>1, <1>2, FS_CardinalityType
<1> QED
  BY <1>2, <1>3, FiniteSetsOfBot DEF Bot!HasRoom, Bot!Constants

\* A filter's row that was enabled or disabled.
LEMMA RowsEdited ==
  ASSUME NEW r, r = [filled |-> r.filled, enabled |-> r.enabled, by |-> r.by], NEW x
  PROVE  [r EXCEPT !.enabled = x] = [filled |-> r.filled, enabled |-> x, by |-> r.by]
<1> DEFINE a == r.filled
           b == r.enabled
           c == r.by
<1>1. r = [filled |-> a, enabled |-> b, by |-> c]
  OBVIOUS
<1> HIDE DEF a, b, c
<1>3. [r EXCEPT !.enabled = x] = [filled |-> a, enabled |-> x, by |-> c]
  BY <1>1
<1> QED
  BY <1>3 DEF a, b, c

LEMMA BotInit ==
  ASSUME Bot!Constants, Bot!Init
  PROVE  BotInv
<1>1. PICK saved0 \in SUBSET Filters :
        /\ Cardinality(saved0) <= MaxFilters
        /\ filters = [f \in Filters |-> IF f \in saved0 THEN Bot!Saved({"district"}, "create") ELSE Bot!Free]
  BY FiniteSetsOfBot DEF Bot!Init
<1>2. Bot!StoredFilters = saved0
  BY <1>1 DEF Bot!StoredFilters, Bot!Stored, Bot!Saved, Bot!Free
<1>3. BotShape
  BY <1>1 DEF BotShape, Bot!Init, Bot!Saved, Bot!Free
<1>4. WritesAreAgreed
  BY DEF WritesAreAgreed, Bot!Init, Bot!NoWrite, Bot!NoFilter, Bot!Idle, Bot!Constants
<1>5. CreationsHaveRoom
  BY <1>1, <1>2 DEF CreationsHaveRoom, Bot!Init, Bot!Idle
<1>6. Bot!UpdateGoesWhereAsked
  BY <1>1 DEF Bot!UpdateGoesWhereAsked, Bot!Saved, Bot!Free
<1> QED
  BY <1>3, <1>4, <1>5, <1>6 DEF BotInv

\* A step that begins to wait for something other than a write of a filter.
LEMMA WaitKeeps ==
  ASSUME BotInv, Bot!Constants, NEW kind, NEW g, NEW filled, Bot!Waits(kind, g, filled),
         kind \notin {"update", "create"}, kind \in {"run", "edit"} => g \in Filters,
         UNCHANGED <<filters, pendingName, pendingEdit, agreed, overlapped>>
  PROVE  BotInv'
<1>1. PICK s \in Slots :
        /\ task[s] = Bot!Idle
        /\ task'[s] = [kind |-> kind, filter |-> g, filled |-> filled]
        /\ \A t \in Slots : t # s => task'[t] = task[t]
        /\ task' = [t \in Slots |-> task'[t]]
  BY WaitsIn DEF BotInv
<1>2. BotShape'
  BY <1>1 DEF BotInv, BotShape
<1>3. WritesAreAgreed'
  BY <1>1 DEF BotInv, WritesAreAgreed
<1>4. CreationsHaveRoom'
  BY <1>1 DEF BotInv, CreationsHaveRoom, Bot!StoredFilters, Bot!Stored, Bot!HasRoom
<1>5. Bot!UpdateGoesWhereAsked'
  BY DEF BotInv, Bot!UpdateGoesWhereAsked
<1> QED
  BY <1>2, <1>3, <1>4, <1>5 DEF BotInv

\* A step that leaves the filters, the tasks and what was agreed alone.
LEMMA DialogueKeeps ==
  ASSUME BotInv, WritesAreAgreed',
         UNCHANGED <<filters, task, agreed, overlapped>>
  PROVE  BotInv'
BY DEF BotInv, BotShape, CreationsHaveRoom, Bot!StoredFilters, Bot!Stored, Bot!HasRoom, Bot!UpdateGoesWhereAsked

\* A handler's last step, which writes no filter.
LEMMA TaskEnds ==
  ASSUME BotInv, Bot!Constants, task' = [t \in Slots |-> task'[t]],
         \A t \in Slots : task'[t] = task[t] \/ task'[t].kind \in {"idle", "search"},
         pendingEdit' \in Filters \cup {Bot!NoFilter},
         UNCHANGED <<filters, pendingName, agreed, overlapped>>
  PROVE  BotInv'
<1>2. BotShape'
  BY DEF BotInv, BotShape
<1>3. WritesAreAgreed'
  BY DEF BotInv, WritesAreAgreed
<1>4. CreationsHaveRoom'
  BY DEF BotInv, CreationsHaveRoom, Bot!StoredFilters, Bot!Stored, Bot!HasRoom
<1>5. Bot!UpdateGoesWhereAsked'
  BY DEF BotInv, Bot!UpdateGoesWhereAsked
<1> QED
  BY <1>2, <1>3, <1>4, <1>5 DEF BotInv

\* A creation begins.
LEMMA CreationBegins ==
  ASSUME BotInv, Bot!Constants, NEW filled, Bot!HasRoom, Bot!Waits("create", Bot!NoFilter, filled),
         overlapped' = (overlapped \/ Bot!CreationsUnderWay # {}),
         pendingName' \in {pendingName, Bot!NoWrite},
         UNCHANGED <<filters, pendingEdit, agreed>>
  PROVE  BotInv'
<1>1. PICK s \in Slots :
        /\ task[s] = Bot!Idle
        /\ task'[s] = [kind |-> "create", filter |-> Bot!NoFilter, filled |-> filled]
        /\ \A t \in Slots : t # s => task'[t] = task[t]
        /\ task' = [t \in Slots |-> task'[t]]
  BY WaitsIn DEF BotInv
<1>2. BotShape'
  BY <1>1 DEF BotInv, BotShape
<1>3. WritesAreAgreed'
  BY <1>1 DEF BotInv, WritesAreAgreed, Bot!NoWrite, Bot!Constants
<1>4. CreationsHaveRoom'
  <2>1. CASE overlapped'
    BY <2>1 DEF CreationsHaveRoom
  <2>2. CASE ~overlapped'
    <3>1. ~overlapped /\ \A t \in Slots : task[t].kind # "create"
      BY <2>2 DEF Bot!CreationsUnderWay
    <3>2. \A t \in Slots : task'[t].kind = "create" => t = s
      BY <1>1, <3>1
    <3>3. Bot!StoredFilters' = Bot!StoredFilters /\ Bot!HasRoom'
      BY DEF Bot!StoredFilters, Bot!Stored, Bot!HasRoom
    <3> QED
      BY <3>1, <3>2, <3>3 DEF BotInv, CreationsHaveRoom
  <2> QED
    BY <2>1, <2>2
<1>5. Bot!UpdateGoesWhereAsked'
  BY DEF BotInv, Bot!UpdateGoesWhereAsked
<1> QED
  BY <1>2, <1>3, <1>4, <1>5 DEF BotInv

\* A filter that is there is changed or deleted.
LEMMA FilterChanges ==
  ASSUME BotInv, Bot!Constants, NEW f \in Bot!StoredFilters, NEW r, filters' = [filters EXCEPT ![f] = r],
         r = [filled |-> r.filled, enabled |-> r.enabled, by |-> r.by],
         r.by = "bot" => <<f, r.filled>> \in agreed,
         pendingEdit' \in Filters \cup {Bot!NoFilter},
         task' = [t \in Slots |-> task'[t]],
         \A t \in Slots : task'[t] = task[t] \/ task'[t] = Bot!Idle,
         UNCHANGED <<pendingName, agreed, overlapped>>
  PROVE  BotInv'
<1>0. f \in Filters
  BY DEF Bot!StoredFilters
<1>1. \A g \in Filters : filters'[g] = IF g = f THEN r ELSE filters[g]
  BY DEF BotInv, BotShape
<1>2. BotShape'
  BY <1>0, <1>1 DEF BotInv, BotShape
<1>3. WritesAreAgreed'
  BY DEF BotInv, WritesAreAgreed, Bot!Idle
<1>4. CreationsHaveRoom'
  <2>1. Bot!StoredFilters' \subseteq Bot!StoredFilters
    BY <1>1 DEF Bot!StoredFilters, Bot!Stored
  <2>2. \A t \in Slots : task'[t].kind = "create" => task[t].kind = "create"
    BY DEF Bot!Idle
  <2> QED
    BY <2>1, <2>2, RoomGrows DEF BotInv, CreationsHaveRoom
<1>5. Bot!UpdateGoesWhereAsked'
  BY <1>1 DEF BotInv, Bot!UpdateGoesWhereAsked
<1> QED
  BY <1>2, <1>3, <1>4, <1>5 DEF BotInv

\* The creation that had room stores its filter.
LEMMA CreationEnds ==
  ASSUME BotInv, Bot!Constants, NEW s \in Slots, Bot!Created(s)
  PROVE  BotInv'
<1>1. PICK f \in Filters \ Bot!StoredFilters : filters' = [filters EXCEPT ![f] = Bot!Saved(task[s].filled, "create")]
  BY DEF Bot!Created
<1>2. \A g \in Filters : filters'[g] = IF g = f THEN Bot!Saved(task[s].filled, "create") ELSE filters[g]
  BY <1>1 DEF BotInv, BotShape
<1>3. /\ task[s].kind = "create" /\ task' = [task EXCEPT ![s] = Bot!Idle]
      /\ UNCHANGED <<pendingName, pendingEdit, agreed, overlapped>>
  BY DEF Bot!Created, Bot!dialogueVars
<1>4. \A t \in Slots : task'[t] = IF t = s THEN Bot!Idle ELSE task[t]
  BY <1>3 DEF BotInv, BotShape
<1>5. BotShape'
  BY <1>1, <1>2, <1>3, <1>4 DEF BotInv, BotShape, Bot!Saved
<1>6. WritesAreAgreed'
  BY <1>3, <1>4 DEF BotInv, WritesAreAgreed, Bot!Idle
<1>7. CreationsHaveRoom'
  <2>1. CASE overlapped
    BY <1>3, <2>1 DEF CreationsHaveRoom
  <2>2. CASE ~overlapped
    <3>1. \A t \in Slots : task'[t].kind # "create"
      BY <1>3, <1>4, <2>2 DEF BotInv, CreationsHaveRoom, Bot!Idle
    <3>2. Bot!StoredFilters' = Bot!StoredFilters \cup {f}
      BY <1>1, <1>2 DEF Bot!StoredFilters, Bot!Stored, Bot!Saved
    <3>3. IsFiniteSet(Bot!StoredFilters)
      BY FS_Subset, FiniteSetsOfBot DEF Bot!Constants, Bot!StoredFilters
    <3>4. Cardinality(Bot!StoredFilters) \in Nat
      BY <3>3, FS_CardinalityType
    <3>5. Cardinality(Bot!StoredFilters') = Cardinality(Bot!StoredFilters) + 1
      BY <1>1, <3>2, <3>3, FS_AddElement
    <3>6. Cardinality(Bot!StoredFilters) < MaxFilters
      BY <1>3, <2>2, FiniteSetsOfBot DEF BotInv, CreationsHaveRoom, Bot!HasRoom
    <3>7. Cardinality(Bot!StoredFilters)' <= MaxFilters
      BY <3>4, <3>5, <3>6 DEF Bot!Constants
    <3> QED
      BY <3>1, <3>7 DEF CreationsHaveRoom
  <2> QED
    BY <2>1, <2>2
<1>8. Bot!UpdateGoesWhereAsked'
  BY <1>2, <1>3 DEF BotInv, Bot!UpdateGoesWhereAsked, Bot!Saved
<1> QED
  BY <1>5, <1>6, <1>7, <1>8 DEF BotInv

\* The update that was agreed to is written, or finds its filter gone.
LEMMA UpdateEnds ==
  ASSUME BotInv, Bot!Constants, NEW s \in Slots, Bot!Updated(s)
  PROVE  BotInv'
<1>1. /\ task[s].kind = "update" /\ task' = [task EXCEPT ![s] = Bot!Idle]
      /\ UNCHANGED <<pendingName, agreed, overlapped>>
  BY DEF Bot!Updated
<1>2. task[s].filter \in Filters /\ <<task[s].filter, task[s].filled>> \in agreed
  BY <1>1 DEF BotInv, WritesAreAgreed
<1>3. CASE ~Bot!Stored(task[s].filter)
  <2>1. UNCHANGED <<filters, pendingEdit>>
    BY <1>3 DEF Bot!Updated
  <2>2. pendingEdit' \in Filters \cup {Bot!NoFilter}
    BY <2>1 DEF BotInv, WritesAreAgreed
  <2>3. /\ task' = [t \in Slots |-> task'[t]]
        /\ \A t \in Slots : task'[t] = task[t] \/ task'[t].kind \in {"idle", "search"}
    BY <1>1 DEF Bot!Idle, BotInv, BotShape
  <2> QED
    BY <1>1, <2>1, <2>2, <2>3, TaskEnds
<1>4. CASE Bot!Stored(task[s].filter)
  <2> DEFINE f == task[s].filter
             r == [filled |-> task[s].filled, enabled |-> filters[f].enabled, by |-> "bot"]
  <2>1. f \in Bot!StoredFilters
    BY <1>2, <1>4 DEF Bot!StoredFilters
  <2>2. filters' = [filters EXCEPT ![f] = r]
    BY <1>4 DEF Bot!Updated, Bot!Rewritten
  <2>3. filters[f] = [filled |-> filters[f].filled, enabled |-> filters[f].enabled, by |-> filters[f].by]
    BY <1>2 DEF BotInv, BotShape
  <2>6. /\ \A t \in Slots : task'[t] = task[t] \/ task'[t] = Bot!Idle
        /\ task' = [t \in Slots |-> task'[t]]
    BY <1>1 DEF BotInv, BotShape
  <2>7. pendingEdit' \in Filters \cup {Bot!NoFilter}
    BY <1>4 DEF Bot!Updated
  <2>8. r = [filled |-> r.filled, enabled |-> r.enabled, by |-> r.by] /\ <<f, r.filled>> \in agreed
    BY <1>2
  <2> HIDE DEF f, r
  <2> QED
    BY <1>1, <2>1, <2>2, <2>6, <2>7, <2>8, FilterChanges
<1> QED
  BY <1>3, <1>4

LEMMA BotStep ==
  ASSUME Bot!Constants, BotInv, [Bot!Next]_(Bot!vars)
  PROVE  BotInv'
<1>u. CASE UNCHANGED Bot!vars
  BY <1>u, DialogueKeeps DEF Bot!vars, Bot!dialogueVars, BotInv, WritesAreAgreed
<1>w. CASE \/ Bot!WizardStart \/ Bot!WizardCancel \/ Bot!WizardBack \/ Bot!WizardSkip \/ Bot!ChooseBasis
           \/ Bot!TextToWizard \/ Bot!NlpStart \/ Bot!NlpCancel \/ Bot!NlpEdit
           \/ Bot!SourceStart \/ Bot!SourceCancel \/ Bot!CancelCommand
  <2>1. UNCHANGED <<filters, task, agreed, overlapped, pendingName, pendingEdit>>
    BY <1>w DEF Bot!WizardStart, Bot!WizardCancel, Bot!WizardBack, Bot!WizardSkip, Bot!ChooseBasis,
                Bot!TextToWizard, Bot!NlpStart, Bot!NlpCancel, Bot!NlpEdit, Bot!SourceStart,
                Bot!SourceCancel, Bot!CancelCommand, Bot!OnlyWizardMoves
  <2> QED
    BY <2>1, DialogueKeeps DEF BotInv, WritesAreAgreed
<1>c. CASE Bot!ChooseValue
  <2>1. UNCHANGED <<filters, agreed, overlapped, pendingName, pendingEdit>>
    BY <1>c DEF Bot!ChooseValue
  <2>2. (\E filled : Bot!Waits("search", Bot!NoFilter, filled)) \/ UNCHANGED task
    BY <1>c, Zenon DEF Bot!ChooseValue
  <2>3. ASSUME NEW filled, Bot!Waits("search", Bot!NoFilter, filled) PROVE BotInv'
    BY <2>1, <2>3, WaitKeeps
  <2>4. CASE UNCHANGED task
    BY <2>1, <2>4, DialogueKeeps DEF BotInv, WritesAreAgreed
  <2> QED
    BY <2>2, <2>3, <2>4
<1>p. CASE Bot!Page
  BY <1>p, WaitKeeps DEF Bot!Page
<1>n. CASE Bot!NlpConfirm
  BY <1>n, WaitKeeps DEF Bot!NlpConfirm, Bot!RunCriteria
<1>s. CASE Bot!TextToSource
  BY <1>s, WaitKeeps DEF Bot!TextToSource, Bot!dialogueVars
<1>t. CASE Bot!TextToNlp
  BY <1>t, WaitKeeps DEF Bot!TextToNlp, Bot!dialogueVars
<1>r. CASE Bot!PressRun
  <2>1. PICK f \in Bot!StoredFilters, kind \in {"run", "edit"} : Bot!Waits(kind, f, filters[f].filled)
    BY <1>r DEF Bot!PressRun
  <2>2. f \in Filters
    BY DEF Bot!StoredFilters
  <2>3. UNCHANGED <<filters, agreed, overlapped, pendingName, pendingEdit>>
    BY <1>r DEF Bot!PressRun
  <2> QED
    BY <2>1, <2>2, <2>3, WaitKeeps
<1>1. CASE Bot!PressSave
  <2>1. /\ pendingName' = [filter |-> Bot!NoFilter, filled |-> wizard.filled]
        /\ UNCHANGED <<filters, task, agreed, overlapped, pendingEdit>>
    BY <1>1 DEF Bot!PressSave
  <2>2. WritesAreAgreed'
    BY <2>1 DEF BotInv, WritesAreAgreed, Bot!NoFilter, Bot!NoWrite, Bot!Constants
  <2> QED
    BY <2>1, <2>2, DialogueKeeps
<1>2. CASE Bot!PressUpdate
  <2>1. /\ pendingName' = [filter |-> pendingEdit, filled |-> wizard.filled]
        /\ pendingEdit # Bot!NoFilter
        /\ agreed' = agreed \cup {<<pendingEdit, wizard.filled>>}
        /\ UNCHANGED <<filters, task, overlapped, pendingEdit>>
    BY <1>2 DEF Bot!PressUpdate
  <2>2. pendingEdit \in Filters
    BY <2>1 DEF BotInv, WritesAreAgreed
  <2>3. pendingName'.filter = pendingEdit /\ pendingName'.filled = wizard.filled
    BY <2>1
  <2>4. WritesAreAgreed'
    BY <2>1, <2>2, <2>3 DEF BotInv, WritesAreAgreed, Bot!Constants
  <2>5. BotShape' /\ CreationsHaveRoom' /\ Bot!UpdateGoesWhereAsked'
    BY <2>1 DEF BotInv, BotShape, CreationsHaveRoom, Bot!StoredFilters, Bot!Stored, Bot!HasRoom,
                Bot!UpdateGoesWhereAsked
  <2> QED
    BY <2>4, <2>5 DEF BotInv
<1>3. CASE Bot!CancelPending \/ Bot!TextRefusedName
  <2>1. /\ pendingName' = Bot!NoWrite /\ pendingEdit' \in {pendingEdit, Bot!NoFilter}
        /\ UNCHANGED <<filters, task, agreed, overlapped>>
    BY <1>3 DEF Bot!CancelPending, Bot!TextRefusedName
  <2>2. WritesAreAgreed'
    BY <2>1 DEF BotInv, WritesAreAgreed, Bot!NoWrite, Bot!Constants
  <2> QED
    BY <2>1, <2>2, DialogueKeeps
<1>4. CASE Bot!SetEnabled \/ Bot!Delete \/ Bot!WebUpdate
  <2>1. PICK f \in Bot!StoredFilters :
          \/ \E enabled \in BOOLEAN : filters' = [filters EXCEPT ![f] = [@ EXCEPT !.enabled = enabled]]
          \/ filters' = [filters EXCEPT ![f] = Bot!Free]
          \/ \E filled \in Bot!WebCriteria : filters' = [filters EXCEPT ![f] = Bot!Rewritten(@, filled, "web")]
    BY <1>4 DEF Bot!SetEnabled, Bot!Delete, Bot!WebUpdate
  <2>2. UNCHANGED <<task, agreed, overlapped, pendingName, pendingEdit>>
    BY <1>4 DEF Bot!SetEnabled, Bot!Delete, Bot!WebUpdate, Bot!dialogueVars
  <2>3. f \in Filters /\ filters[f] = [filled |-> filters[f].filled, enabled |-> filters[f].enabled, by |-> filters[f].by]
    BY DEF BotInv, BotShape, Bot!StoredFilters
  <2> DEFINE r == filters'[f]
  <2>4. filters' = [filters EXCEPT ![f] = r]
    BY <2>1, <2>3 DEF BotInv, BotShape
  <2>5. \/ \E enabled \in BOOLEAN : r = [filled |-> filters[f].filled, enabled |-> enabled, by |-> filters[f].by]
        \/ r = Bot!Free
        \/ \E filled \in Bot!WebCriteria : r = [filled |-> filled, enabled |-> filters[f].enabled, by |-> "web"]
    <3>1. \/ \E enabled \in BOOLEAN : r = [filters[f] EXCEPT !.enabled = enabled]
          \/ r = Bot!Free
          \/ \E filled \in Bot!WebCriteria : r = Bot!Rewritten(filters[f], filled, "web")
      BY <2>1, <2>3 DEF BotInv, BotShape
    <3> HIDE DEF r
    <3> QED
      BY <2>3, <3>1, RowsEdited DEF Bot!Rewritten
  <2>6. /\ r = [filled |-> r.filled, enabled |-> r.enabled, by |-> r.by]
        /\ r.by = "bot" => filters[f].by = "bot" /\ r.filled = filters[f].filled
    <3> HIDE DEF r
    <3> QED
      BY <2>5 DEF Bot!Free
  <2>7. r.by = "bot" => <<f, r.filled>> \in agreed
    <3>1. filters[f].by = "bot" => <<f, filters[f].filled>> \in agreed
      BY <2>3 DEF BotInv, Bot!UpdateGoesWhereAsked
    <3> HIDE DEF r
    <3> QED
      BY <2>6, <3>1
  <2>8. task' = [t \in Slots |-> task'[t]] /\ pendingEdit' \in Filters \cup {Bot!NoFilter}
    BY <2>2 DEF BotInv, BotShape, WritesAreAgreed
  <2> HIDE DEF r
  <2> QED
    BY <2>2, <2>4, <2>6, <2>7, <2>8, FilterChanges
<1>5. CASE Bot!WebCreate
  BY <1>5, CreationBegins DEF Bot!WebCreate, Bot!dialogueVars
<1>6. CASE Bot!TextNamesFilter
  <2>1. /\ pendingName' = Bot!NoWrite /\ pendingName # Bot!NoWrite
        /\ UNCHANGED <<filters, agreed, pendingEdit>>
    BY <1>6 DEF Bot!TextNamesFilter
  <2>2. CASE pendingName.filter = Bot!NoFilter /\ Bot!HasRoom
    <3>1. /\ Bot!Waits("create", Bot!NoFilter, pendingName.filled)
          /\ overlapped' = (overlapped \/ Bot!CreationsUnderWay # {})
      BY <1>6, <2>2 DEF Bot!TextNamesFilter
    <3> QED
      BY <2>1, <2>2, <3>1, CreationBegins
  <2>3. CASE pendingName.filter = Bot!NoFilter /\ ~Bot!HasRoom
    <3>1. UNCHANGED task /\ overlapped' = (overlapped \/ FALSE)
      BY <1>6, <2>3, Zenon DEF Bot!TextNamesFilter
    <3>2. WritesAreAgreed'
      BY <2>1, <3>1 DEF BotInv, WritesAreAgreed, Bot!NoWrite, Bot!Constants
    <3>3. BotShape' /\ Bot!UpdateGoesWhereAsked'
      BY <2>1, <3>1 DEF BotInv, BotShape, Bot!UpdateGoesWhereAsked
    <3>4. CreationsHaveRoom'
      BY <2>1, <3>1 DEF BotInv, CreationsHaveRoom, Bot!StoredFilters, Bot!Stored, Bot!HasRoom
    <3> QED
      BY <3>2, <3>3, <3>4 DEF BotInv
  <2>4. CASE pendingName.filter # Bot!NoFilter
    <3>1. /\ Bot!Waits("update", pendingName.filter, pendingName.filled)
          /\ UNCHANGED overlapped
      BY <1>6, <2>4 DEF Bot!TextNamesFilter
    <3>2. pendingName.filter \in Filters /\ <<pendingName.filter, pendingName.filled>> \in agreed
      BY <2>1, <2>4 DEF BotInv, WritesAreAgreed
    <3>3. PICK s \in Slots :
            /\ task[s] = Bot!Idle
            /\ task'[s] = [kind |-> "update", filter |-> pendingName.filter, filled |-> pendingName.filled]
            /\ \A t \in Slots : t # s => task'[t] = task[t]
            /\ task' = [t \in Slots |-> task'[t]]
      BY <3>1, WaitsIn DEF BotInv
    <3>4. BotShape'
      BY <2>1, <3>3 DEF BotInv, BotShape
    <3>5. WritesAreAgreed'
      BY <2>1, <3>2, <3>3 DEF BotInv, WritesAreAgreed, Bot!NoWrite, Bot!Constants
    <3>6. CreationsHaveRoom'
      BY <2>1, <3>1, <3>3 DEF BotInv, CreationsHaveRoom, Bot!StoredFilters, Bot!Stored, Bot!HasRoom
    <3>7. Bot!UpdateGoesWhereAsked'
      BY <2>1 DEF BotInv, Bot!UpdateGoesWhereAsked
    <3> QED
      BY <3>4, <3>5, <3>6, <3>7 DEF BotInv
  <2> QED
    BY <2>2, <2>3, <2>4
<1>7. ASSUME NEW s \in Slots, Bot!SearchReturns(s) \/ Bot!Extracted(s) \/ Bot!Submitted(s) PROVE BotInv'
  <2>1. /\ task' = [task EXCEPT ![s] = Bot!Idle]
        /\ UNCHANGED <<filters, pendingName, pendingEdit, agreed, overlapped>>
    BY <1>7 DEF Bot!SearchReturns, Bot!Extracted, Bot!Submitted
  <2>2. pendingEdit' \in Filters \cup {Bot!NoFilter}
    BY <2>1 DEF BotInv, WritesAreAgreed
  <2>3. /\ task' = [t \in Slots |-> task'[t]]
        /\ \A t \in Slots : task'[t] = task[t] \/ task'[t].kind \in {"idle", "search"}
    BY <2>1 DEF Bot!Idle, BotInv, BotShape
  <2> QED
    BY <2>1, <2>2, <2>3, TaskEnds
<1>8. ASSUME NEW s \in Slots, Bot!FilterRead(s) PROVE BotInv'
  <2> DEFINE k == [kind |-> "search", filter |-> Bot!NoFilter, filled |-> Bot!Kept(task[s].filled)]
  <2>1. /\ task' = [task EXCEPT ![s] = k] /\ task[s].kind \in {"run", "edit"}
        /\ pendingEdit' \in {task[s].filter, pendingEdit}
        /\ UNCHANGED <<filters, pendingName, agreed, overlapped>>
    BY <1>8 DEF Bot!FilterRead
  <2>2. pendingEdit' \in Filters \cup {Bot!NoFilter}
    BY <2>1 DEF BotInv, WritesAreAgreed
  <2>3. /\ task' = [t \in Slots |-> task'[t]]
        /\ \A t \in Slots : task'[t] = task[t] \/ task'[t].kind \in {"idle", "search"}
    BY <2>1 DEF BotInv, BotShape
  <2> QED
    BY <2>1, <2>2, <2>3, TaskEnds
<1> QED
  BY <1>u, <1>w, <1>c, <1>p, <1>n, <1>s, <1>t, <1>r, <1>1, <1>2, <1>3, <1>4, <1>5, <1>6, <1>7, <1>8,
     CreationEnds, UpdateEnds DEF Bot!Next

\* For every set of filters, limit and number of handlers that wait at once: a filter the bot
\* rewrote has the criteria Update was pressed for, and the limit holds unless creations overlapped.
THEOREM BotFiltersAreAsked == ASSUME Bot!Constants PROVE Bot!Spec => []FiltersAreAsked
<1>1. Bot!Init => BotInv
  BY BotInit
<1>2. BotInv /\ [Bot!Next]_(Bot!vars) => BotInv'
  BY BotStep
<1>3. BotInv => FiltersAreAsked
  BY FiniteSetsOfBot DEF BotInv, FiltersAreAsked, Bot!FiltersAreAsked, Bot!FilterCapUnlessOverlap, CreationsHaveRoom
<1> QED
  BY <1>1, <1>2, <1>3, PTL DEF Bot!Spec

-----------------------------------------------------------------------------
(* Search                                                                  *)

\* What a price or a bound may be.
LEMMA PricesOrNull ==
  ASSUME Search!Constants
  PROVE  /\ Null \notin Int
         /\ \A x : x \in Prices \cup {Null} => x = Null \/ x \in Nat
         /\ \A x : x \in Bounds \cup {Null} => x = Null \/ x \in Nat
         /\ \A x : x \in Nat => x \in Int /\ x * 30 \in Int
<1>1. Prices \subseteq Nat /\ Bounds \subseteq Nat /\ Null \notin Int
  BY Zenon DEF Search!Constants
<1>2. \A x : x \in Nat => x \in Int /\ x * 30 \in Int
  OBVIOUS
<1> QED
  BY <1>1, <1>2, Zenon

\* The listing is one the extraction can write, of this text.
ListingWritten ==
  /\ listing.period \in {"daily", "monthly", "one_time"}
  /\ listing.basis \in {"total", "per_person"}
  /\ (listing.monthly = Null \/ listing.monthly \in Int)
  /\ listing.district = Search!ListingDistrict(raw.district)

\* The criteria are those of the query.
CriteriaMade ==
  /\ query \in Search!Queries /\ Search!Accepts(query)
  /\ (criteria.min = Null \/ criteria.min \in Int) /\ (criteria.max = Null \/ criteria.max \in Int)
  /\ criteria.districts = Search!Districts(query)

SearchInv ==
  /\ raw \in Search!RawListings
  /\ listing # Null => ListingWritten
  /\ criteria # Null => listing # Null /\ CriteriaMade

LEMMA SearchStep ==
  ASSUME Search!Constants, SearchInv, [Search!Next]_(Search!vars)
  PROVE  SearchInv'
<1>1. CASE UNCHANGED Search!vars
  BY <1>1 DEF Search!vars, SearchInv, ListingWritten, CriteriaMade
<1>2. CASE Search!NormalizeListing
  <2>1. listing = Null /\ UNCHANGED <<raw, query, criteria>>
    BY <1>2 DEF Search!NormalizeListing
  <2>2. criteria = Null
    BY <2>1 DEF SearchInv
  <2> DEFINE period == Search!Or(raw.period, "monthly")
             monthly == Search!NormalizedMonthly(raw.price, period)
  <2>3. /\ listing'.period = period /\ listing'.basis = Search!Or(raw.basis, "total")
        /\ listing'.monthly = monthly /\ listing'.district = Search!ListingDistrict(raw.district)
    BY <1>2 DEF Search!NormalizeListing
  <2>4. /\ raw.price \in Prices \cup {Null} /\ raw.basis \in {"per_person", Null}
        /\ raw.period \in {"daily", "monthly", "one_time", Null}
    BY DEF SearchInv, Search!RawListings
  <2>5. period \in {"daily", "monthly", "one_time"}
    BY <2>4 DEF Search!Or
  <2>6. Search!Or(raw.basis, "total") \in {"total", "per_person"}
    BY <2>4 DEF Search!Or
  <2>7. (monthly = Null \/ monthly \in Int)
    <3> HIDE DEF period
    <3> QED
      BY <2>4, PricesOrNull, Zenon DEF Search!NormalizedMonthly
  <2>8. ListingWritten'
    <3> HIDE DEF period, monthly
    <3> QED
      BY <2>1, <2>3, <2>5, <2>6, <2>7 DEF ListingWritten
  <2> QED
    BY <2>1, <2>2, <2>8 DEF SearchInv
<1>3. CASE Search!MakeCriteria
  <2>1. listing # Null /\ UNCHANGED <<raw, listing>>
    BY <1>3 DEF Search!MakeCriteria
  <2>2. PICK q \in Search!Queries :
          /\ Search!Accepts(q) /\ query' = q
          /\ criteria' = [min |-> q.min, max |-> q.max, perPerson |-> q.perPerson,
                          districts |-> Search!Districts(q),
                          tags |-> IF q.tag THEN {"family"} ELSE {}]
    BY <1>3 DEF Search!MakeCriteria
  <2>3. (q.min = Null \/ q.min \in Int) /\ (q.max = Null \/ q.max \in Int)
    <3>1. q.min \in Bounds \cup {Null} /\ q.max \in Bounds \cup {Null}
      BY DEF Search!Queries
    <3> QED
      BY <3>1, PricesOrNull, Zenon
  <2>4. CriteriaMade'
    BY <2>2, <2>3 DEF CriteriaMade
  <2>5. ListingWritten'
    BY <2>1 DEF SearchInv, ListingWritten
  <2> QED
    BY <2>1, <2>4, <2>5 DEF SearchInv
<1> QED
  BY <1>1, <1>2, <1>3 DEF Search!Next

LEMMA MatchGaps == ASSUME Search!Constants, SearchInv PROVE Search!MatchGapsKnown
<1>1. SUFFICES ASSUME criteria # Null
               PROVE  /\ Search!AsyncpgWhere(listing, criteria) = Search!AnnouncementMatches(listing, criteria)
                      /\ Search!AnnouncementMatches(listing, criteria) => Search!SqlAlchemyWhere(listing, criteria)
                      /\ (Search!SqlAlchemyWhere(listing, criteria) /\ ~Search!AnnouncementMatches(listing, criteria)) =>
                           \/ Search!HasPriceFilter(criteria) /\ listing.monthly = Null
                           \/ criteria.tags \cap listing.excludedTags # {}
  BY DEF Search!MatchGapsKnown
<1>2. /\ listing.period \in {"daily", "monthly", "one_time"}
      /\ listing.basis \in {"total", "per_person"}
  BY <1>1 DEF SearchInv, ListingWritten
<1>3. Search!AsyncpgWhere(listing, criteria) <=> Search!AnnouncementMatches(listing, criteria)
  BY <1>2 DEF Search!AsyncpgWhere, Search!AnnouncementMatches, Search!Canonical, Search!HasPriceFilter,
              Search!AtLeast, Search!AtMost
<1>4. Search!AsyncpgWhere(listing, criteria) = Search!AnnouncementMatches(listing, criteria)
  BY <1>3 DEF Search!AsyncpgWhere, Search!AnnouncementMatches
<1>5. Search!AnnouncementMatches(listing, criteria) => Search!SqlAlchemyWhere(listing, criteria)
  BY <1>2 DEF Search!AnnouncementMatches, Search!SqlAlchemyWhere
<1>6. (Search!SqlAlchemyWhere(listing, criteria) /\ ~Search!AnnouncementMatches(listing, criteria)) =>
        \/ Search!HasPriceFilter(criteria) /\ listing.monthly = Null
        \/ criteria.tags \cap listing.excludedTags # {}
  BY <1>2 DEF Search!AnnouncementMatches, Search!SqlAlchemyWhere, Search!HasPriceFilter
<1> QED
  BY <1>4, <1>5, <1>6

\* The two orders, for any price of the one and of the other.
LEMMA OrdersAgree ==
  ASSUME Null \notin Int, NEW a, NEW b, (a.monthly = Null \/ a.monthly \in Int), (b.monthly = Null \/ b.monthly \in Int),
         a.created \in Int, b.created \in Int, NEW sort \in Search!Sorts,
         sort = "price_desc" => ((a.monthly = Null) <=> (b.monthly = Null))
  PROVE  Search!SqlAlchemyBefore(a, b, sort) <=> Search!InMemoryBefore(a, b, sort)
<1>1. CASE sort = "newest"
  BY <1>1 DEF Search!SqlAlchemyBefore, Search!InMemoryBefore
<1>2. CASE sort = "cheapest"
  BY <1>2 DEF Search!SqlAlchemyBefore
<1>3. CASE sort = "price_desc"
  BY <1>3 DEF Search!SqlAlchemyBefore, Search!InMemoryBefore, Search!Or
<1> QED
  BY <1>1, <1>2, <1>3 DEF Search!Sorts

\* The asyncpg order and the in-memory one.
LEMMA AsyncpgAgrees ==
  ASSUME Null \notin Int, NEW a, NEW b, (a.monthly = Null \/ a.monthly \in Int), (b.monthly = Null \/ b.monthly \in Int),
         a.created \in Int, b.created \in Int, NEW sort \in Search!Sorts,
         sort # "cheapest" \/ a.monthly # b.monthly
  PROVE  Search!AsyncpgBefore(a, b, sort) = Search!InMemoryBefore(a, b, sort)
<1>1. CASE sort # "cheapest"
  BY <1>1 DEF Search!AsyncpgBefore
<1>2. CASE sort = "cheapest"
  <2>1. a.monthly # b.monthly
    BY <1>2
  <2>2. Search!AsyncpgBefore(a, b, sort) <=> Search!InMemoryBefore(a, b, sort)
    BY <1>2, <2>1 DEF Search!AsyncpgBefore, Search!InMemoryBefore, Search!Or
  <2> QED
    BY <1>2, <2>1, <2>2 DEF Search!AsyncpgBefore, Search!InMemoryBefore
<1> QED
  BY <1>1, <1>2

LEMMA OrderGaps == ASSUME Search!Constants, SearchInv PROVE Search!OrderGapsKnown
<1> DEFINE this == [monthly |-> listing.monthly, created |-> 2]
<1>1. SUFFICES ASSUME listing # Null, NEW other \in [monthly : Prices \cup {Null}, created : {1, 3}],
                      NEW sort \in Search!Sorts
               PROVE  /\ \/ sort = "price_desc" /\ (this.monthly = Null) # (other.monthly = Null)
                         \/ Search!SqlAlchemyBefore(this, other, sort) = Search!InMemoryBefore(this, other, sort)
                      /\ \/ sort = "cheapest" /\ this.monthly = other.monthly
                         \/ Search!AsyncpgBefore(this, other, sort) = Search!InMemoryBefore(this, other, sort)
  BY DEF Search!OrderGapsKnown
<1>2. this.monthly = listing.monthly /\ this.created = 2
  OBVIOUS
<1>3. (this.monthly = Null \/ this.monthly \in Int) /\ (other.monthly = Null \/ other.monthly \in Int) /\ other.created \in Int
  <2>1. listing.monthly = Null \/ listing.monthly \in Int
    BY <1>1 DEF SearchInv, ListingWritten
  <2>2. other.monthly \in Prices \cup {Null} /\ other.created \in {1, 3}
    OBVIOUS
  <2> QED
    <3>1. other.created \in Int
      BY <2>2
    <3> QED
      BY <1>2, <2>1, <2>2, <3>1, PricesOrNull, Zenon
<1>4. this.created \in Int
  BY <1>2
<1> HIDE DEF this
<1>5. ASSUME ~(sort = "price_desc" /\ (this.monthly = Null) # (other.monthly = Null))
      PROVE  Search!SqlAlchemyBefore(this, other, sort) = Search!InMemoryBefore(this, other, sort)
  <2>1. sort = "price_desc" => ((this.monthly = Null) <=> (other.monthly = Null))
    BY <1>5
  <2>2. Search!SqlAlchemyBefore(this, other, sort) <=> Search!InMemoryBefore(this, other, sort)
    BY <1>3, <1>4, <2>1, OrdersAgree, PricesOrNull, Zenon
  <2> QED
    BY <2>2 DEF Search!SqlAlchemyBefore, Search!InMemoryBefore, Search!Sorts
<1>6. ASSUME sort # "cheapest" \/ this.monthly # other.monthly
      PROVE  Search!AsyncpgBefore(this, other, sort) = Search!InMemoryBefore(this, other, sort)
  BY <1>3, <1>4, <1>6, AsyncpgAgrees, PricesOrNull, Zenon
<1> QED
  BY <1>5, <1>6

\* No word and no name is null.
LEMMA WordsAreNotNull ==
  ASSUME Search!Constants
  PROVE  \A w \in Search!Written : w # Null /\ Search!ListingDistrict(w) # Null
                                   /\ (Search!WizardDistrict(w) = Null \/ Search!WizardDistrict(w) \in Search!Names)
<1>1. \A w \in Search!Written \cup Search!Names : w # Null
  BY Zenon DEF Search!Constants
<1>2. \A w \in Search!Written : Search!ListingDistrict(w) \in Search!Written \cup Search!Names
  BY DEF Search!ListingDistrict, Search!Written, Search!Names
<1>3. \A w \in Search!Written : Search!WizardDistrict(w) = Null \/ Search!WizardDistrict(w) \in Search!Names
  BY DEF Search!WizardDistrict, Search!Written, Search!Names
<1> QED
  BY <1>1, <1>2, <1>3

\* What the tables of queries know means what the extraction makes of it, but for Mirzo Ulug'bek.
LEMMA TablesMean ==
  ASSUME Search!Constants, NEW w \in Search!Written
  PROVE  /\ Search!NlpDistrict(w) # Null =>
              \/ Search!NlpDistrict(w) = Search!DistrictOf(w)
              \/ Search!NlpDistrict(w) = "mirzo ulugbek" /\ Search!DistrictOf(w) = "mirzo ulug'bek"
         /\ Search!WizardDistrict(w) # Null => Search!NlpDistrict(w) = Search!WizardDistrict(w)
BY DEF Search!Written, Search!NlpDistrict, Search!WizardDistrict, Search!DistrictOf, Search!ListingDistrict

\* What the extraction writes means what the text said, unless it left the word.
LEMMA ListingMeans ==
  ASSUME NEW w \in Search!Written
  PROVE  \/ Search!ListingDistrict(w) = Search!DistrictOf(w)
         \/ w \in {"chilanazar", "cyr yashnabad"}
BY DEF Search!Written, Search!DistrictOf, Search!ListingDistrict

\* A word left as it was written is no name, and another word for none but itself.
LEMMA NamesMean ==
  ASSUME NEW v \in Search!Written, NEW w \in Search!Written
  PROVE  /\ v = Search!ListingDistrict(w) => Search!DistrictOf(v) = Search!DistrictOf(w)
         /\ Search!ListingDistrict(w) = Search!DistrictOf(v) => Search!DistrictOf(w) = Search!DistrictOf(v)
         /\ Search!ListingDistrict(w) # "mirzo ulugbek"
BY DEF Search!Written, Search!DistrictOf, Search!ListingDistrict

LEMMA DistrictsMeet == ASSUME Search!Constants, SearchInv PROVE Search!DistrictMeets
<1> DEFINE same == Search!DistrictOf(query.district) = Search!DistrictOf(raw.district)
<1>1. SUFFICES ASSUME criteria # Null, query.district # Null, raw.district # Null
               PROVE  /\ criteria.districts = {listing.district} => same
                      /\ (same /\ criteria.districts # {listing.district}) =>
                           \/ raw.district \in {"chilanazar", "cyr yashnabad"}
                           \/ listing.district = "mirzo ulug'bek" /\ query.from # "api"
                           \/ query.from = "nlp" /\ criteria.districts = {}
                           \/ query.from = "api" /\ query.district # Search!DistrictOf(query.district)
  BY DEF Search!DistrictMeets
<1>2. /\ listing.district = Search!ListingDistrict(raw.district)
      /\ criteria.districts = Search!Districts(query) /\ Search!Accepts(query)
  BY <1>1 DEF SearchInv, ListingWritten, CriteriaMade
<1>3. /\ query.from \in {"wizard", "nlp", "api"} /\ query.district \in Search!Written
      /\ raw.district \in Search!Written
  <2>1. query \in Search!Queries /\ raw \in Search!RawListings
    BY <1>1 DEF SearchInv, CriteriaMade
  <2>2. query.district \in Search!Written \cup {Null} /\ query.from \in {"wizard", "nlp", "api"}
    BY <2>1 DEF Search!Queries
  <2>3. raw.district \in Search!Written \cup {Null}
    BY <2>1 DEF Search!RawListings
  <2> QED
    BY <1>1, <2>2, <2>3
<1> DEFINE v == query.district
           w == raw.district
<1> HIDE DEF same, v, w
<1>4. v \in Search!Written /\ w \in Search!Written
  BY <1>3 DEF v, w
<1>5. /\ Search!ListingDistrict(w) = Search!DistrictOf(w) \/ w \in {"chilanazar", "cyr yashnabad"}
      /\ v = Search!ListingDistrict(w) => Search!DistrictOf(v) = Search!DistrictOf(w)
      /\ Search!ListingDistrict(w) = Search!DistrictOf(v) => Search!DistrictOf(w) = Search!DistrictOf(v)
      /\ Search!ListingDistrict(w) # "mirzo ulugbek"
  BY <1>4, ListingMeans, NamesMean, Zenon
<1>6. same <=> Search!DistrictOf(v) = Search!DistrictOf(w)
  BY DEF same, v, w
<1>7. CASE query.from = "api"
  <2>1. criteria.districts = {v}
    <3>1. v # Null
      BY <1>4, WordsAreNotNull
    <3> QED
      BY <1>2, <1>7, <3>1 DEF Search!Districts, v
  <2> QED
    BY <1>2, <1>5, <1>6, <1>7, <2>1 DEF v, w
<1>8. CASE query.from # "api"
  <2> DEFINE name == Search!NlpDistrict(v)
  <2>1. criteria.districts = {name} \ {Null}
    <3>1. CASE query.from = "nlp"
      BY <1>2, <1>8, <3>1 DEF Search!Districts, v
    <3>2. CASE query.from = "wizard"
      <4>1. Search!WizardDistrict(v) # Null
        BY <1>1, <1>2, <3>2 DEF Search!Accepts, Search!WizardAccepts, v
      <4>2. name = Search!WizardDistrict(v)
        BY <1>4, <4>1, TablesMean
      <4> QED
        BY <1>2, <1>8, <3>2, <4>2 DEF Search!Districts, v
    <3> QED
      BY <1>3, <1>8, <3>1, <3>2
  <2>2. query.from = "wizard" => name # Null
    <3>1. query.from = "wizard" => Search!WizardDistrict(v) # Null
      BY <1>1, <1>2 DEF Search!Accepts, Search!WizardAccepts, v
    <3> QED
      BY <1>4, <3>1, TablesMean
  <2>3. name # Null => (name = Search!DistrictOf(v) \/ (name = "mirzo ulugbek" /\ Search!DistrictOf(v) = "mirzo ulug'bek"))
    BY <1>4, TablesMean
  <2> HIDE DEF name
  <2>4. CASE name = Null
    <3>1. criteria.districts = {} /\ query.from = "nlp"
      BY <1>3, <1>8, <2>1, <2>2, <2>4
    <3> QED
      BY <3>1
  <2>5. CASE name # Null
    <3>1. criteria.districts = {name}
      BY <2>1, <2>5
    <3> QED
      BY <1>2, <1>5, <1>6, <1>8, <2>3, <2>5, <3>1 DEF v, w
  <2> QED
    BY <2>4, <2>5
<1> QED
  BY <1>3, <1>7, <1>8

\* For all prices and bounds, every listing the extraction can write and every query: the searches
\* differ in what they return, in its order and in the districts only where it is known that they do.
THEOREM SearchesGapsKnown == ASSUME Search!Constants PROVE Search!Spec => []SearchGapsKnown
<1>1. Search!Init => SearchInv
  BY DEF Search!Init, SearchInv
<1>2. SearchInv /\ [Search!Next]_(Search!vars) => SearchInv'
  BY SearchStep
<1>3. SearchInv => SearchGapsKnown
  BY MatchGaps, OrderGaps, DistrictsMeet DEF SearchGapsKnown, Search!SearchGapsKnown
<1> QED
  BY <1>1, <1>2, <1>3, PTL DEF Search!Spec

-----------------------------------------------------------------------------
(* Media                                                                   *)

\* A set of natural numbers has a least element.
LEMMA LeastNatural ==
  ASSUME NEW T, T \subseteq Nat, T # {}
  PROVE  \E n \in T : \A k \in T : n <= k
<1> DEFINE R == {ss \in Nat \X Nat : ss[1] < ss[2]}
<1>1. IsWellFoundedOn(R, Nat)
  BY NatLessThanWellFounded, SMT DEF OpToRel
<1>2. \A i, j \in Nat : <<i, j>> \in R <=> i < j
  OBVIOUS
<1> HIDE DEF R
<1>3. PICK n \in T : \A k \in T : ~(<<k, n>> \in R)
  BY <1>1, WFMin
<1>4. \A k \in T : ~(k < n)
  BY <1>2, <1>3
<1> QED
  BY <1>4

\* One step of remove_near_duplicates, over what it kept of the images before.
KeptStep(s, g, n) ==
  IF n = 0 THEN << >>
  ELSE IF \E i \in DOMAIN g[n - 1] : g[n - 1][i].look = s[n].look
    THEN g[n - 1] ELSE Append(g[n - 1], s[n])

\* The recursion defines a function.
LEMMA KeptExists ==
  ASSUME NEW n \in Nat, NEW s
  PROVE  \E g : g = [k \in 0 .. n |-> KeptStep(s, g, k)]
<1> DEFINE Bad == {m \in Nat : ~ \E g : g = [k \in 0 .. m |-> KeptStep(s, g, k)]}
<1>1. SUFFICES ASSUME Bad # {} PROVE FALSE
  OBVIOUS
<1>2. PICK m \in Bad : \A k \in Bad : m <= k
  <2>1. Bad \subseteq Nat
    OBVIOUS
  <2> HIDE DEF Bad
  <2> QED
    BY <1>1, <2>1, LeastNatural
<1>3. m # 0
  <2>1. [k \in 0 .. 0 |-> << >>] = [k \in 0 .. 0 |-> KeptStep(s, [j \in 0 .. 0 |-> << >>], k)]
    BY DEF KeptStep
  <2> QED
    BY <2>1
<1>4. PICK g : g = [k \in 0 .. (m - 1) |-> KeptStep(s, g, k)]
  <2>1. m - 1 \in Nat /\ m - 1 \notin Bad
    BY <1>2, <1>3
  <2> QED
    BY <2>1
<1> DEFINE h == [k \in 0 .. m |-> IF k = m THEN KeptStep(s, g, m) ELSE g[k]]
<1>5. \A k \in 0 .. m : h[k] = KeptStep(s, h, k)
  <2> SUFFICES ASSUME NEW k \in 0 .. m PROVE h[k] = KeptStep(s, h, k)
    OBVIOUS
  <2>1. k # 0 => h[k - 1] = g[k - 1]
    OBVIOUS
  <2>2. CASE k = m
    <3>1. h[k] = KeptStep(s, g, m)
      BY <2>2
    <3> HIDE DEF h
    <3> QED
      BY <1>3, <2>1, <2>2, <3>1 DEF KeptStep
  <2>3. CASE k # m
    <3>1. h[k] = g[k] /\ g[k] = KeptStep(s, g, k)
      BY <1>4, <2>3
    <3> HIDE DEF h
    <3> QED
      BY <2>1, <3>1 DEF KeptStep
  <2> QED
    BY <2>2, <2>3
<1>6. h = [k \in 0 .. m |-> KeptStep(s, h, k)]
  BY <1>5
<1> QED
  BY <1>2, <1>6

\* Images no two of which look alike.
Unlike(S, u) ==
  /\ u \in Seq(S)
  /\ \A i, j \in 1 .. Len(u) : u[i].look = u[j].look => i = j

\* What remove_near_duplicates returns.
LEMMA DuplicatesRemoved ==
  ASSUME NEW S, NEW s \in Seq(S)
  PROVE  Unlike(S, Media!RemoveNearDuplicates(s))
<1> DEFINE g == CHOOSE f : f = [k \in 0 .. Len(s) |-> KeptStep(s, f, k)]
<1>1. g = [k \in 0 .. Len(s) |-> KeptStep(s, g, k)]
  BY KeptExists
<1>2. Media!RemoveNearDuplicates(s) = g[Len(s)]
  BY DEF Media!RemoveNearDuplicates, KeptStep
<1> HIDE DEF g
<1> DEFINE Bad == {m \in 0 .. Len(s) : ~Unlike(S, g[m])}
<1>3. SUFFICES ASSUME Bad # {} PROVE FALSE
  BY <1>2
<1>4. PICK m \in Bad : \A k \in Bad : m <= k
  <2>1. Bad \subseteq Nat
    OBVIOUS
  <2> HIDE DEF Bad
  <2> QED
    BY <1>3, <2>1, LeastNatural
<1>5. m \in 0 .. Len(s) /\ g[m] = KeptStep(s, g, m)
  BY <1>1
<1>6. CASE m = 0
  <2>1. g[m] = << >>
    BY <1>5, <1>6 DEF KeptStep
  <2>2. Unlike(S, << >>)
    BY DEF Unlike
  <2> QED
    BY <2>1, <2>2
<1>7. CASE m # 0
  <2>1. m - 1 \in 0 .. Len(s) /\ m - 1 \notin Bad
    BY <1>4, <1>5, <1>7
  <2>2. Unlike(S, g[m - 1])
    BY <2>1
  <2>3. g[m] # g[m - 1]
    BY <2>2
  <2> DEFINE u == g[m - 1]
  <2>4. g[m] = Append(u, s[m]) /\ \A i \in DOMAIN u : u[i].look # s[m].look
    BY <1>5, <1>7, <2>3 DEF KeptStep
  <2>5. s[m] \in S
    BY <1>5, <1>7
  <2>6. u \in Seq(S) /\ \A i, j \in 1 .. Len(u) : u[i].look = u[j].look => i = j
    BY <2>2 DEF Unlike
  <2> HIDE DEF u
  <2>7. Unlike(S, Append(u, s[m]))
    BY <2>4, <2>5, <2>6 DEF Unlike
  <2> QED
    BY <2>4, <2>7
<1> QED
  BY <1>6, <1>7

Images == {Refs[i] : i \in DOMAIN Refs}

Cleaning(q) == q.at \in {"cleanup", "failed", "ended"}

Holding(q) == q.at \in {"upload", "cleanup"}

KeysOf(q) == {q.stored[i] : i \in 1 .. Len(q.stored)}

\* A run that uploads has stored the first of its images, in order, under their keys.
UploadShape(q) ==
  /\ q = [at |-> "upload", unique |-> q.unique, stored |-> q.stored]
  /\ Unlike(Images, q.unique)
  /\ q.stored \in Seq(Nat \X {ref.id : ref \in Images})
  /\ Len(q.stored) <= Len(q.unique)
  /\ \A i \in 1 .. Len(q.stored) : q.stored[i] = <<i, q.unique[i].id>>

CleanupShape(q) ==
  /\ q = [at |-> "cleanup", stored |-> q.stored, undone |-> q.undone]
  /\ q.stored \in Seq(Nat \X {ref.id : ref \in Images})

DownloadShape(q) ==
  /\ q = [at |-> "download", next |-> q.next, processed |-> q.processed]
  /\ q.next \in Nat \ {0} /\ q.processed \in Seq(Images)

Shape(q) ==
  \/ q.at \in {"waiting", "published", "failed", "ended"}
  \/ DownloadShape(q) \/ UploadShape(q) \/ CleanupShape(q)

\* A key in the bucket, or one that a run has taken back.
Known(k) == k \in bucket \/ \E r \in Runs : Cleaning(run[r]) /\ k \in run[r].undone

\* A key some run has stored and not yet handed on or taken back.
InHand(k) == \E r \in Runs : Holding(run[r]) /\ k \in KeysOf(run[r])

Named(k) == \E id \in DOMAIN named : named[id] = k

MediaInv ==
  /\ run = [r \in Runs |-> run[r]]
  /\ \A r \in Runs : Shape(run[r])
  /\ \A id \in DOMAIN named : Known(named[id])
  /\ \A r \in Runs : run[r].at = "upload" => \A k \in KeysOf(run[r]) : Known(k)
  /\ (\A r \in Runs : run[r].at # "published") => DOMAIN named = {}
  /\ ~left /\ ~repeated => \A k \in bucket : Named(k) \/ InHand(k) \/ k \in inDoubt

\* A step of one run that neither loses a key nor hides one.
LEMMA RunMoves ==
  ASSUME MediaInv, NEW r \in Runs, NEW q, run' = [run EXCEPT ![r] = q], Shape(q),
         Cleaning(run[r]) => Cleaning(q) /\ run[r].undone \subseteq q.undone,
         \A k \in bucket : k \in bucket' \/ (Cleaning(q) /\ k \in q.undone),
         q.at = "upload" =>
           \A k \in KeysOf(q) : k \in bucket' \/ (run[r].at = "upload" /\ k \in KeysOf(run[r])),
         named' = named, q.at # "published", run[r].at # "published",
         inDoubt \subseteq inDoubt',
         ~left' /\ ~repeated' =>
           /\ ~left /\ ~repeated
           /\ \A k \in bucket' :
                \/ Holding(q) /\ k \in KeysOf(q)
                \/ k \in bucket /\ ~(Holding(run[r]) /\ k \in KeysOf(run[r]))
  PROVE  MediaInv'
<1>1. \A s \in Runs : run'[s] = IF s = r THEN q ELSE run[s]
  BY DEF MediaInv
<1>2. run' = [s \in Runs |-> run'[s]]
  BY DEF MediaInv
<1>3. ASSUME NEW s \in Runs PROVE Shape(run'[s])
  BY <1>1 DEF MediaInv
<1>4. ASSUME NEW k, Known(k) PROVE Known(k)'
  <2>1. CASE k \in bucket
    BY <1>1, <2>1 DEF Known
  <2>2. ASSUME NEW s \in Runs, Cleaning(run[s]), k \in run[s].undone PROVE Known(k)'
    <3>1. Cleaning(run'[s]) /\ k \in run'[s].undone
      BY <1>1, <2>2
    <3> QED
      BY <3>1 DEF Known, Cleaning
  <2> QED
    BY <1>4, <2>1, <2>2 DEF Known
<1>5. (\A id \in DOMAIN named : Known(named[id]))'
  <2>1. \A id \in DOMAIN named : Known(named[id])
    BY DEF MediaInv
  <2>2. ASSUME NEW id \in DOMAIN named PROVE Known(named[id])'
    <3>1. PICK k : k = named[id]
      OBVIOUS
    <3>2. Known(k)'
      BY <1>4, <2>1, <3>1
    <3>3. named'[id] = k
      BY <3>1
    <3> QED
      BY <3>2, <3>3 DEF Known
  <2> QED
    BY <2>2
<1>6. ASSUME NEW s \in Runs, run'[s].at = "upload", NEW k \in KeysOf(run'[s]) PROVE Known(k)'
  <2>1. CASE s = r
    <3>1. q.at = "upload" /\ k \in KeysOf(q)
      BY <1>1, <1>6, <2>1
    <3>2. CASE k \in bucket'
      BY <3>2 DEF Known
    <3>3. CASE run[r].at = "upload" /\ k \in KeysOf(run[r])
      BY <1>4, <3>3 DEF MediaInv
    <3> QED
      BY <3>1, <3>2, <3>3
  <2>2. CASE s # r
    BY <1>1, <1>4, <1>6, <2>2 DEF MediaInv
  <2> QED
    BY <2>1, <2>2
<1>7. (\A s \in Runs : run'[s].at # "published") => DOMAIN named' = {}
  BY <1>1 DEF MediaInv
<1>8. ASSUME ~left', ~repeated', NEW k \in bucket' PROVE Named(k)' \/ InHand(k)' \/ k \in inDoubt'
  <2>1. CASE Holding(q) /\ k \in KeysOf(q)
    <3>1. Holding(run'[r]) /\ k \in KeysOf(run'[r])
      BY <1>1, <2>1
    <3> QED
      BY <3>1 DEF InHand, Holding, KeysOf
  <2>2. CASE k \in bucket /\ ~(Holding(run[r]) /\ k \in KeysOf(run[r]))
    <3>1. Named(k) \/ InHand(k) \/ k \in inDoubt
      BY <1>8, <2>2 DEF MediaInv
    <3>2. CASE Named(k)
      BY <3>2 DEF Named
    <3>3. CASE InHand(k)
      <4>1. PICK s \in Runs : Holding(run[s]) /\ k \in KeysOf(run[s])
        BY <3>3 DEF InHand
      <4>2. run'[s] = run[s]
        BY <1>1, <2>2, <4>1
      <4> QED
        BY <4>1, <4>2 DEF InHand, Holding, KeysOf
    <3> QED
      BY <3>1, <3>2, <3>3
  <2> QED
    BY <1>8, <2>1, <2>2
<1>9. \A s \in Runs : run'[s].at = "upload" => \A k \in KeysOf(run'[s]) : Known(k)'
  BY <1>6
<1>10. \A s \in Runs : Shape(run[s])'
  BY <1>3 DEF Shape, DownloadShape, UploadShape, CleanupShape, Unlike
<1>11. \A s \in Runs : (run[s].at = "upload")' => \A k \in KeysOf(run[s])' : Known(k)'
  BY <1>9 DEF KeysOf
<1>12. ~left' /\ ~repeated' => \A k \in bucket' : Named(k)' \/ InHand(k)' \/ k \in inDoubt'
  BY <1>8
<1> QED
  BY <1>2, <1>5, <1>7, <1>10, <1>11, <1>12 DEF MediaInv

\* Keys of one run name distinct images.
LEMMA KeysHaveOwnIds ==
  ASSUME Media!Constants, NEW q, UploadShape(q), NEW j \in KeysOf(q), NEW k \in KeysOf(q), j[2] = k[2]
  PROVE  j = k
<1>1. PICK m \in 1 .. Len(q.stored), n \in 1 .. Len(q.stored) : j = q.stored[m] /\ k = q.stored[n]
  BY DEF KeysOf
<1>2. j = <<m, q.unique[m].id>> /\ k = <<n, q.unique[n].id>>
  BY <1>1 DEF UploadShape
<1>3. /\ q.unique \in Seq(Images) /\ Len(q.stored) \in Nat /\ Len(q.stored) <= Len(q.unique)
      /\ \A a, b \in 1 .. Len(q.unique) : q.unique[a].look = q.unique[b].look => a = b
  BY DEF UploadShape, Unlike
<1>4. m \in 1 .. Len(q.unique) /\ n \in 1 .. Len(q.unique)
  BY <1>3
<1>5. q.unique[m] \in Images /\ q.unique[n] \in Images
  BY <1>3, <1>4
<1>6. q.unique[m].id = q.unique[n].id
  BY <1>2
<1>7. q.unique[m].look = q.unique[n].look
  BY <1>5, <1>6 DEF Images, Media!Constants
<1>8. m = n
  BY <1>3, <1>4, <1>7
<1> QED
  BY <1>1, <1>8

\* The next object is stored: its key is the next one of the run's.
LEMMA StoredGrows ==
  ASSUME NEW q, UploadShape(q), Len(q.stored) < Len(q.unique),
         NEW p, NEW key, key = <<Len(q.stored) + 1, q.unique[Len(q.stored) + 1].id>>,
         p = [q EXCEPT !.stored = Append(@, key)]
  PROVE  UploadShape(p) /\ p.at = "upload" /\ KeysOf(p) = KeysOf(q) \cup {key}
<1>1. /\ q.stored \in Seq(Nat \X {ref.id : ref \in Images}) /\ q.unique \in Seq(Images)
      /\ q = [at |-> "upload", unique |-> q.unique, stored |-> q.stored]
  BY DEF UploadShape, Unlike
<1>2. Len(q.stored) + 1 \in 1 .. Len(q.unique)
  BY <1>1
<1>3. q.unique[Len(q.stored) + 1] \in Images
  BY <1>1, <1>2
<1>4. key \in Nat \X {ref.id : ref \in Images}
  BY <1>1, <1>3
<1> DEFINE u == q.unique
           t == q.stored
<1>5. q = [at |-> "upload", unique |-> u, stored |-> t]
  BY <1>1
<1>6. p = [q EXCEPT !.stored = Append(t, key)]
  OBVIOUS
<1> HIDE DEF u, t
<1>7. p = [at |-> "upload", unique |-> u, stored |-> Append(t, key)]
  BY <1>5, <1>6
<1>8. p.at = "upload" /\ p.unique = u /\ p.stored = Append(t, key)
  BY <1>7
<1>9. t \in Seq(Nat \X {ref.id : ref \in Images}) /\ Len(t) \in Nat
  BY <1>1 DEF t
<1>10. /\ Len(Append(t, key)) = Len(t) + 1 /\ Append(t, key) \in Seq(Nat \X {ref.id : ref \in Images})
       /\ \A i \in 1 .. Len(t) : Append(t, key)[i] = t[i]
       /\ Append(t, key)[Len(t) + 1] = key
  BY <1>4, <1>9
<1>11. /\ \A i \in 1 .. Len(t) : t[i] = <<i, u[i].id>>
       /\ Len(t) < Len(u) /\ Unlike(Images, u) /\ Len(u) \in Nat /\ key = <<Len(t) + 1, u[Len(t) + 1].id>>
  BY <1>1 DEF UploadShape, u, t
<1>12. \A i \in 1 .. Len(Append(t, key)) : Append(t, key)[i] = <<i, u[i].id>>
  BY <1>9, <1>10, <1>11
<1>13. UploadShape(p)
  <2>1. p = [at |-> "upload", unique |-> p.unique, stored |-> p.stored]
    BY <1>7, <1>8
  <2>2. Unlike(Images, p.unique) /\ p.stored \in Seq(Nat \X {ref.id : ref \in Images})
    BY <1>8, <1>10, <1>11
  <2>3. Len(p.stored) <= Len(p.unique)
    BY <1>8, <1>9, <1>10, <1>11
  <2>4. \A i \in 1 .. Len(p.stored) : p.stored[i] = <<i, p.unique[i].id>>
    BY <1>8, <1>12
  <2> QED
    BY <2>1, <2>2, <2>3, <2>4 DEF UploadShape
<1>14. {Append(t, key)[i] : i \in 1 .. Len(Append(t, key))} = {t[i] : i \in 1 .. Len(t)} \cup {key}
  <2> DEFINE w == Append(t, key)
             n == Len(t)
  <2>1. n \in Nat /\ Len(w) = n + 1 /\ (\A i \in 1 .. n : w[i] = t[i]) /\ w[n + 1] = key
    BY <1>9, <1>10
  <2> HIDE DEF w, n
  <2>2. {w[i] : i \in 1 .. (n + 1)} = {t[i] : i \in 1 .. n} \cup {key}
    BY <2>1
  <2> QED
    BY <2>1, <2>2 DEF w, n
<1>15. KeysOf(p) = KeysOf(q) \cup {key}
  BY <1>8, <1>14 DEF KeysOf, t
<1> QED
  BY <1>8, <1>13, <1>15

LEMMA MediaMoves ==
  ASSUME Media!Constants, MediaInv, NEW r \in Runs,
         \/ Media!Start(r) \/ Media!Download(r) \/ Media!DownloadFails(r) \/ Media!Prepared(r)
         \/ Media!Upload(r) \/ Media!UploadRaises(r) \/ Media!Delete(r) \/ Media!DeleteRaises(r)
         \/ Media!Reraise(r) \/ Media!Reject(r) \/ Media!Crash(r)
  PROVE  MediaInv'
<1>0. Shape(run[r])
  BY DEF MediaInv
<1>1. CASE Media!Start(r)
  <2> DEFINE q == [at |-> "download", next |-> 1, processed |-> << >>]
  <2>1. /\ run[r].at = "waiting" /\ run' = [run EXCEPT ![r] = q]
        /\ UNCHANGED <<bucket, named, repeated, left, inDoubt>>
    BY <1>1 DEF Media!Start
  <2>2. q.at = "download" /\ Shape(q)
    BY DEF Shape, DownloadShape
  <2> HIDE DEF q
  <2> QED
    BY <2>1, <2>2, RunMoves DEF Cleaning, Holding
<1>2. ASSUME run[r].at = "download", NEW p, run' = [run EXCEPT ![r] = p], DownloadShape(p),
             UNCHANGED <<bucket, named, repeated, left, inDoubt>>
      PROVE  MediaInv'
  <2>1. p.at = "download" /\ Shape(p)
    BY <1>2 DEF DownloadShape, Shape
  <2> QED
    BY <1>2, <2>1, RunMoves DEF Cleaning, Holding
<1>3. ASSUME run[r].at = "download" PROVE DownloadShape(run[r])
  BY <1>0, <1>3 DEF Shape, UploadShape, CleanupShape
<1>4. CASE Media!Download(r) \/ Media!DownloadFails(r)
  <2>1. /\ run[r].at = "download" /\ run[r].next <= Len(Refs)
        /\ UNCHANGED <<bucket, named, repeated, left, inDoubt>>
    BY <1>4 DEF Media!Download, Media!DownloadFails
  <2> DEFINE n == run[r].next
             d == run[r].processed
  <2>2. run[r] = [at |-> "download", next |-> n, processed |-> d] /\ n \in Nat \ {0} /\ d \in Seq(Images)
    BY <1>3, <2>1 DEF DownloadShape
  <2>3. Refs[n] \in Images
    BY <2>1, <2>2 DEF Images, Media!Constants
  <2>4. CASE Media!Download(r)
    <3> DEFINE e == IF Media!Processable(Refs[n]) THEN Append(d, Refs[n]) ELSE d
               p == [at |-> "download", next |-> n + 1, processed |-> e]
    <3>2. e \in Seq(Images)
      BY <2>2, <2>3
    <3>4. run' = [run EXCEPT ![r] = p]
      BY <2>4 DEF Media!Download
    <3> HIDE DEF n, d, e
    <3>5. DownloadShape(p)
      BY <2>2, <3>2 DEF DownloadShape
    <3> HIDE DEF p
    <3> QED
      BY <1>2, <2>1, <3>4, <3>5
  <2>5. CASE Media!DownloadFails(r)
    <3> DEFINE p == [at |-> "download", next |-> n + 1, processed |-> d]
    <3>1. run' = [run EXCEPT ![r].next = n + 1]
      BY <2>5 DEF Media!DownloadFails
    <3> HIDE DEF n, d
    <3>3. [run[r] EXCEPT !.next = n + 1] = p
      BY <2>2
    <3>4. run' = [run EXCEPT ![r] = p]
      BY <3>1, <3>3
    <3>5. DownloadShape(p)
      BY <2>2 DEF DownloadShape
    <3> HIDE DEF p
    <3> QED
      BY <1>2, <2>1, <3>4, <3>5
  <2> QED
    BY <1>4, <2>4, <2>5
<1>5. CASE Media!Prepared(r)
  <2> DEFINE u == Media!RemoveNearDuplicates(run[r].processed)
             q == [at |-> "upload", unique |-> u, stored |-> << >>]
  <2>1. /\ run[r].at = "download" /\ run' = [run EXCEPT ![r] = q]
        /\ UNCHANGED <<bucket, named, repeated, left, inDoubt>>
    BY <1>5 DEF Media!Prepared
  <2>2. run[r].processed \in Seq(Images)
    BY <1>3, <2>1 DEF DownloadShape
  <2>3. Unlike(Images, u)
    BY <2>2, DuplicatesRemoved
  <2> HIDE DEF u
  <2>4. UploadShape(q) /\ KeysOf(q) = {} /\ q.at = "upload"
    BY <2>3 DEF UploadShape, KeysOf, Unlike
  <2> HIDE DEF q
  <2> QED
    BY <2>1, <2>4, RunMoves DEF Cleaning, Holding, Shape
<1>6. ASSUME run[r].at = "upload" PROVE UploadShape(run[r])
  BY <1>0, <1>6 DEF Shape, DownloadShape, CleanupShape
<1>7. CASE Media!Upload(r)
  <2> DEFINE q == run[r]
             key == Media!NextKey(r)
             p == [q EXCEPT !.stored = Append(@, key)]
  <2>1. /\ q.at = "upload" /\ Len(q.stored) < Len(q.unique) /\ run' = [run EXCEPT ![r] = p]
        /\ bucket' = bucket \cup {key} /\ UNCHANGED <<named, repeated, left, inDoubt>>
    BY <1>7 DEF Media!Upload, Media!Uploading
  <2>2. UploadShape(q)
    BY <1>6, <2>1
  <2>3. key = <<Len(q.stored) + 1, q.unique[Len(q.stored) + 1].id>>
    BY DEF Media!NextKey, Media!ObjectKey
  <2> HIDE DEF key
  <2>4. UploadShape(p) /\ p.at = "upload" /\ KeysOf(p) = KeysOf(q) \cup {key}
    <3> HIDE DEF q
    <3> QED
      BY <2>1, <2>2, <2>3, StoredGrows
  <2> HIDE DEF p
  <2> QED
    BY <2>1, <2>4, RunMoves DEF Cleaning, Holding, Shape
<1>8. CASE Media!UploadRaises(r)
  <2> DEFINE t == run[r].stored
             q == [at |-> "cleanup", stored |-> t, undone |-> {}]
  <2>1. /\ run[r].at = "upload" /\ run' = [run EXCEPT ![r] = q]
        /\ UNCHANGED <<bucket, named, repeated, left>> /\ inDoubt \subseteq inDoubt'
    BY <1>8 DEF Media!UploadRaises, Media!Uploading
  <2>2. t \in Seq(Nat \X {ref.id : ref \in Images})
    BY <1>6, <2>1 DEF UploadShape
  <2>3. KeysOf(run[r]) = {t[i] : i \in 1 .. Len(t)}
    BY DEF KeysOf
  <2> HIDE DEF t
  <2>4. CleanupShape(q) /\ KeysOf(q) = {t[i] : i \in 1 .. Len(t)} /\ q.at = "cleanup"
    BY <2>2 DEF CleanupShape, KeysOf
  <2> HIDE DEF q
  <2> QED
    BY <2>1, <2>3, <2>4, RunMoves DEF Cleaning, Holding, Shape
<1>9. ASSUME run[r].at = "cleanup" PROVE CleanupShape(run[r])
  BY <1>0, <1>9 DEF Shape, DownloadShape, UploadShape
<1>10. ASSUME NEW t \in Seq(Nat \X {ref.id : ref \in Images}), t # << >>
       PROVE  /\ Tail(t) \in Seq(Nat \X {ref.id : ref \in Images})
              /\ {t[i] : i \in 1 .. Len(t)} = {Tail(t)[i] : i \in 1 .. Len(Tail(t))} \cup {Head(t)}
  <2>1. /\ Len(Tail(t)) = Len(t) - 1 /\ \A i \in 1 .. Len(Tail(t)) : Tail(t)[i] = t[i + 1]
        /\ Tail(t) \in Seq(Nat \X {ref.id : ref \in Images}) /\ Head(t) = t[1] /\ Len(t) \in Nat \ {0}
    BY <1>10
  <2> DEFINE w == Tail(t)
             n == Len(t)
  <2> HIDE DEF w, n
  <2>2. /\ n \in Nat \ {0} /\ Len(w) = n - 1 /\ \A i \in 1 .. (n - 1) : w[i] = t[i + 1]
    BY <2>1 DEF w, n
  <2>3. {t[i] : i \in 1 .. n} = {w[i] : i \in 1 .. Len(w)} \cup {t[1]}
    <3>1. ASSUME NEW i \in 1 .. n PROVE t[i] = t[1] \/ \E j \in 1 .. Len(w) : t[i] = w[j]
      <4>1. CASE i = 1
        BY <4>1
      <4>2. CASE i # 1
        <5>1. i - 1 \in 1 .. Len(w) /\ w[i - 1] = t[i]
          BY <2>2, <4>2
        <5> QED
          BY <5>1
      <4> QED
        BY <4>1, <4>2
    <3>2. ASSUME NEW i \in 1 .. Len(w) PROVE \E j \in 1 .. n : w[i] = t[j]
      <4>1. i + 1 \in 1 .. n /\ w[i] = t[i + 1]
        BY <2>2
      <4> QED
        BY <4>1
    <3>3. 1 \in 1 .. n
      BY <2>2
    <3> QED
      BY <3>1, <3>2, <3>3
  <2> QED
    BY <2>1, <2>3 DEF w, n
<1>11. CASE Media!Delete(r) \/ Media!DeleteRaises(r)
  <2> DEFINE t == run[r].stored
             d == run[r].undone
  <2>1. run[r].at = "cleanup" /\ t # << >> /\ UNCHANGED <<named, repeated, inDoubt>>
    BY <1>11 DEF Media!Delete, Media!DeleteRaises
  <2>2. run[r] = [at |-> "cleanup", stored |-> t, undone |-> d] /\ t \in Seq(Nat \X {ref.id : ref \in Images})
    BY <1>9, <2>1 DEF CleanupShape
  <2>3. KeysOf(run[r]) = {t[i] : i \in 1 .. Len(t)} /\ d = run[r].undone
    BY DEF KeysOf
  <2>4. CASE Media!Delete(r)
    <3> DEFINE e == d \cup {Head(t)}
               p == [at |-> "cleanup", stored |-> Tail(t), undone |-> e]
    <3>1. bucket' = bucket \ {Head(t)} /\ left' = left
      BY <2>4 DEF Media!Delete
    <3>3. run' = [run EXCEPT ![r] = p]
      BY <2>4 DEF Media!Delete
    <3> HIDE DEF t, d, e
    <3>4. p.at = "cleanup" /\ p.undone = d \cup {Head(t)} /\ p.stored = Tail(t)
      BY DEF e
    <3>5. CleanupShape(p)
      BY <1>10, <2>1, <2>2 DEF CleanupShape
    <3>6. KeysOf(run[r]) = KeysOf(p) \cup {Head(t)}
      BY <1>10, <2>1, <2>2, <2>3, <3>4 DEF KeysOf
    <3> HIDE DEF p
    <3> QED
      BY <2>1, <2>3, <3>1, <3>3, <3>4, <3>5, <3>6, RunMoves DEF Cleaning, Holding, Shape
  <2>5. CASE Media!DeleteRaises(r)
    <3> DEFINE p == [at |-> "cleanup", stored |-> Tail(t), undone |-> d]
    <3>1. bucket' = bucket /\ left' = TRUE
      BY <2>5 DEF Media!DeleteRaises
    <3>3. run' = [run EXCEPT ![r] = p]
      BY <2>5 DEF Media!DeleteRaises
    <3> HIDE DEF t, d
    <3>4. p.at = "cleanup" /\ p.undone = d
      OBVIOUS
    <3>5. CleanupShape(p)
      BY <1>10, <2>1, <2>2 DEF CleanupShape
    <3> HIDE DEF p
    <3> QED
      BY <2>1, <2>3, <3>1, <3>3, <3>4, <3>5, RunMoves DEF Cleaning, Holding, Shape
  <2> QED
    BY <1>11, <2>4, <2>5
<1>12. CASE Media!Reraise(r)
  <2> DEFINE d == run[r].undone
             q == [at |-> "failed", undone |-> d]
  <2>1. /\ run[r].at = "cleanup" /\ run[r].stored = << >> /\ run' = [run EXCEPT ![r] = q]
        /\ UNCHANGED <<bucket, named, repeated, left, inDoubt>>
    BY <1>12 DEF Media!Reraise
  <2>2. KeysOf(run[r]) = {}
    BY <2>1 DEF KeysOf
  <2>3. q.at = "failed" /\ q.undone = run[r].undone
    OBVIOUS
  <2> HIDE DEF q
  <2> QED
    BY <2>1, <2>2, <2>3, RunMoves DEF Cleaning, Holding, Shape
<1>13. CASE Media!Reject(r)
  <2> DEFINE q == [at |-> "ended", undone |-> {}]
  <2>1. /\ run[r].at = "upload" /\ run' = [run EXCEPT ![r] = q] /\ left' = TRUE
        /\ UNCHANGED <<bucket, named, repeated, inDoubt>>
    BY <1>13 DEF Media!Reject, Media!AllStored
  <2>2. q.at = "ended"
    OBVIOUS
  <2> HIDE DEF q
  <2> QED
    BY <2>1, <2>2, RunMoves DEF Cleaning, Holding, Shape
<1>14. CASE Media!Crash(r)
  <2> DEFINE q == [at |-> "ended", undone |-> IF run[r].at = "cleanup" THEN run[r].undone ELSE {}]
  <2>1. /\ run[r].at \notin {"waiting", "published", "failed", "ended"} /\ run' = [run EXCEPT ![r] = q] /\ left' = TRUE
        /\ UNCHANGED <<bucket, named, repeated, inDoubt>>
    BY <1>14 DEF Media!Crash, Media!Idle
  <2>2. q.at = "ended" /\ (run[r].at = "cleanup" => q.undone = run[r].undone)
    OBVIOUS
  <2> HIDE DEF q
  <2> QED
    BY <2>1, <2>2, RunMoves DEF Cleaning, Holding, Shape
<1> QED
  BY <1>1, <1>4, <1>5, <1>7, <1>8, <1>11, <1>12, <1>13, <1>14

\* A put whose answer did not come arrives.
LEMMA PutCompletes ==
  ASSUME MediaInv, NEW j \in inDoubt, Media!PutCompletes(j)
  PROVE  MediaInv'
<1>1. bucket' = bucket \cup {j} /\ UNCHANGED <<run, named, faults, repeated, left, inDoubt>>
  BY DEF Media!PutCompletes
<1>2. \A k : (Known(k) => Known(k)') /\ (InHand(k) => InHand(k)') /\ (Named(k) => Named(k)')
  BY <1>1 DEF Known, InHand, Named, Cleaning, Holding, KeysOf
<1>3. \A r \in Runs : Shape(run[r])' /\ KeysOf(run[r])' = KeysOf(run[r])
  <2>1. \A r \in Runs : Shape(run[r])
    BY DEF MediaInv
  <2> QED
    BY <1>1, <2>1 DEF Shape, DownloadShape, UploadShape, CleanupShape, Unlike, KeysOf
<1>4. (\A id \in DOMAIN named : Known(named[id]))'
  BY <1>1 DEF MediaInv, Known, Cleaning
<1> QED
  BY <1>1, <1>2, <1>3, <1>4 DEF MediaInv

\* The persisted listing names every key of the run, as they name distinct images.
LEMMA MediaPersisted ==
  ASSUME Media!Constants, MediaInv, NEW r \in Runs, Media!Persist(r)
  PROVE  MediaInv'
<1> DEFINE Keys == {run[r].stored[i] : i \in DOMAIN run[r].stored}
           q == [at |-> "published"]
<1>1. /\ run[r].at = "upload" /\ named' = Media!SavedMedia(Keys) /\ run' = [run EXCEPT ![r] = q]
      /\ repeated' = (repeated \/ \E s \in Runs : run[s].at = "published")
      /\ UNCHANGED <<bucket, left, inDoubt>>
  BY DEF Media!Persist, Media!AllStored
<1>2. UploadShape(run[r])
  <2>1. Shape(run[r])
    BY DEF MediaInv
  <2> QED
    BY <1>1, <2>1 DEF Shape, DownloadShape, CleanupShape
<1>3. Keys = KeysOf(run[r])
  BY <1>2 DEF KeysOf, UploadShape
<1>4. q.at = "published"
  OBVIOUS
<1> HIDE DEF q, Keys
<1>5. \A s \in Runs : run'[s] = IF s = r THEN q ELSE run[s]
  BY <1>1 DEF MediaInv
<1>6. run' = [s \in Runs |-> run'[s]]
  BY <1>1 DEF MediaInv
<1>7. ASSUME NEW k, Known(k) PROVE Known(k)'
  BY <1>1, <1>5, <1>7 DEF Known, Cleaning
<1>8. /\ DOMAIN named' = DOMAIN named \cup {k[2] : k \in Keys}
      /\ \A id \in DOMAIN named : named'[id] = named[id]
      /\ \A id \in DOMAIN named' : id \notin DOMAIN named => named'[id] = CHOOSE k \in Keys : k[2] = id
  BY <1>1 DEF Media!SavedMedia
<1>9. ASSUME NEW k \in Keys, k[2] \notin DOMAIN named PROVE named'[k[2]] = k
  <2>1. k[2] \in DOMAIN named' /\ named'[k[2]] = CHOOSE j \in Keys : j[2] = k[2]
    BY <1>8, <1>9
  <2>2. \A j \in Keys : j[2] = k[2] => j = k
    BY <1>2, <1>3, KeysHaveOwnIds
  <2> QED
    BY <2>1, <2>2
<1>10. ASSUME NEW id \in DOMAIN named' PROVE Known(named[id])'
  <2>1. PICK j : j = named'[id]
    OBVIOUS
  <2>2. Known(j)
    <3>1. CASE id \in DOMAIN named
      BY <1>8, <2>1, <3>1 DEF MediaInv
    <3>2. CASE id \notin DOMAIN named
      <4>1. PICK k \in Keys : k[2] = id
        BY <1>8, <3>2
      <4>2. j = k
        BY <1>9, <2>1, <3>2, <4>1
      <4> QED
        BY <1>1, <1>3, <4>2 DEF MediaInv
    <3> QED
      BY <3>1, <3>2
  <2>3. Known(j)'
    BY <1>7, <2>2
  <2> QED
    BY <2>1, <2>3 DEF Known
<1>11. \A s \in Runs : Shape(run[s])'
  <2>1. \A s \in Runs : Shape(run'[s])
    BY <1>4, <1>5 DEF MediaInv, Shape
  <2> QED
    BY <2>1 DEF Shape, DownloadShape, UploadShape, CleanupShape, Unlike
<1>12. ASSUME NEW s \in Runs, (run[s].at = "upload")', NEW k \in KeysOf(run[s])' PROVE Known(k)'
  <2>1. s # r /\ run'[s] = run[s]
    BY <1>4, <1>5, <1>12
  <2>2. k \in KeysOf(run[s])
    BY <1>12, <2>1 DEF KeysOf
  <2> QED
    BY <1>7, <1>12, <2>1, <2>2 DEF MediaInv
<1>13. ~(\A s \in Runs : run'[s].at # "published")
  BY <1>4, <1>5
<1>14. ASSUME ~left', ~repeated', NEW k \in bucket' PROVE Named(k)' \/ InHand(k)' \/ k \in inDoubt'
  <2>1. ~left /\ ~repeated /\ \A s \in Runs : run[s].at # "published"
    BY <1>1, <1>14
  <2>2. DOMAIN named = {}
    BY <2>1 DEF MediaInv
  <2>3. InHand(k) \/ k \in inDoubt
    BY <1>1, <1>14, <2>1, <2>2 DEF MediaInv, Named
  <2> SUFFICES ASSUME InHand(k) PROVE Named(k)' \/ InHand(k)'
    BY <1>1, <2>3
  <2>4. PICK s \in Runs : Holding(run[s]) /\ k \in KeysOf(run[s])
    BY DEF InHand
  <2>5. CASE s = r
    <3>1. k[2] \in DOMAIN named' /\ named'[k[2]] = k
      BY <1>3, <1>8, <1>9, <2>2, <2>4, <2>5
    <3> QED
      BY <3>1 DEF Named
  <2>6. CASE s # r
    <3>1. run'[s] = run[s]
      BY <1>5, <2>6
    <3> QED
      BY <2>4, <3>1 DEF InHand, Holding, KeysOf
  <2> QED
    BY <2>5, <2>6
<1>15. ~left' /\ ~repeated' => \A k \in bucket' : Named(k)' \/ InHand(k)' \/ k \in inDoubt'
  BY <1>14
<1>16. \A s \in Runs : (run[s].at = "upload")' => \A k \in KeysOf(run[s])' : Known(k)'
  BY <1>12
<1>17. (\A id \in DOMAIN named : Known(named[id]))'
  BY <1>10
<1> QED
  BY <1>6, <1>11, <1>13, <1>15, <1>16, <1>17 DEF MediaInv

\* For any references, number of deliveries and faults: what a listing names is stored or was
\* taken back by another delivery, and at rest nothing else is stored but what an upload that
\* raised left in doubt (prepare_and_store).
THEOREM MediaIsAccounted == ASSUME Media!Constants PROVE Media!Spec => []MediaAccounted
<1>1. Media!Init => MediaInv
  BY DEF Media!Init, MediaInv, Media!Waiting, Shape
<1>2. MediaInv /\ [Media!Next]_(Media!vars) => MediaInv'
  <2> SUFFICES ASSUME MediaInv, [Media!Next]_(Media!vars) PROVE MediaInv'
    OBVIOUS
  <2>1. CASE Media!Next
    BY <2>1, MediaMoves, MediaPersisted, PutCompletes DEF Media!Next
  <2>2. CASE UNCHANGED Media!vars
    <3>1. UNCHANGED <<run, bucket, named, repeated, left, inDoubt>>
      BY <2>2 DEF Media!vars
    <3>2. \A k : (Known(k)' <=> Known(k)) /\ (InHand(k)' <=> InHand(k)) /\ (Named(k)' <=> Named(k))
      BY <3>1 DEF Known, InHand, Named, Cleaning, Holding, KeysOf
    <3>3. \A r \in Runs : Shape(run[r])' /\ KeysOf(run[r])' = KeysOf(run[r])
      <4>1. \A r \in Runs : Shape(run[r])
        BY DEF MediaInv
      <4> QED
        BY <3>1, <4>1 DEF Shape, DownloadShape, UploadShape, CleanupShape, Unlike, KeysOf
    <3>4. (\A id \in DOMAIN named : Known(named[id]))'
      BY <3>1 DEF MediaInv, Known, Cleaning
    <3> QED
      BY <3>1, <3>2, <3>3, <3>4 DEF MediaInv
  <2> QED
    BY <2>1, <2>2
<1>3. MediaInv => MediaAccounted
  <2> SUFFICES ASSUME MediaInv PROVE MediaAccounted
    OBVIOUS
  <2>1. Media!NamedIsStored
    BY DEF MediaInv, Media!NamedIsStored, Known, Cleaning
  <2>2. Media!NothingLeftBehind
    BY DEF MediaInv, Media!NothingLeftBehind, Media!Idle, InHand, Named, Holding
  <2> QED
    BY <2>1, <2>2 DEF MediaAccounted, Media!MediaAccounted
<1> QED
  BY <1>1, <1>2, <1>3, PTL DEF Media!Spec
=============================================================================
