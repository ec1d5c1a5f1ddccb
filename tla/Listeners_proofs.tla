-------------------------- MODULE Listeners_proofs --------------------------
(***************************************************************************)
(* Proofs about what decides which Telegram messages are read: the adapter *)
(* plugins, the login of a session, the parser binding of a source and the *)
(* listener process.  Every theorem is about one part by itself.           *)
(***************************************************************************)
EXTENDS Listeners, TLAPS

-----------------------------------------------------------------------------
(* Adapter plugins                                                         *)

RegInv ==
  /\ disk \in [Plugins -> Nat] /\ plugins \in [Plugins -> Nat] /\ modules \in [Plugins -> Nat]
  /\ edits \in Nat
  /\ Reg!RegisteredIsImported

\* After any sequence of edits, removals and reloads of plugin files, a plugin registered
\* without a reported failure is the module that the listener instantiates
\* (adapters/registry.py, reload and _load_plugin).
THEOREM PluginsImported == Reg!Spec => []RegisteredIsImported
<1>1. Reg!Init => RegInv
  BY DEF Reg!Init, RegInv, Reg!NoFile, Reg!RegisteredIsImported
<1>2. RegInv /\ [Reg!Next]_Reg!registryVars => RegInv'
  <2> SUFFICES ASSUME RegInv, [Reg!Next]_Reg!registryVars PROVE RegInv'
    OBVIOUS
  <2>1. CASE Reg!Reload
    <3>1. /\ plugins' = Reg!Registry /\ failures' = Reg!FailedNow /\ modules' = Reg!LoadModules
          /\ disk' = disk /\ edits' = edits
      BY <2>1 DEF Reg!Reload
    <3>2. plugins' \in [Plugins -> Nat] /\ modules' \in [Plugins -> Nat]
      BY <3>1 DEF RegInv, Reg!Registry, Reg!LoadModules
    <3>3. ASSUME NEW p \in Plugins, plugins'[p] # Reg!NoFile, p \notin failures'
          PROVE  modules'[p] = plugins'[p]
      <4>1. ~Reg!Fails(p)
        BY <3>1, <3>3 DEF Reg!FailedNow
      <4>2. plugins'[p] = disk[p]
        BY <3>1, <4>1 DEF Reg!Registry
      <4> QED
        BY <3>1, <3>3, <4>2 DEF Reg!LoadModules
    <3> QED
      BY <3>1, <3>2, <3>3 DEF RegInv, Reg!RegisteredIsImported, Reg!NoFile
  <2>2. CASE \E p \in Plugins : Reg!Edit(p) \/ Reg!Remove(p)
    BY <2>2 DEF RegInv, Reg!RegisteredIsImported, Reg!NoFile, Reg!Edit, Reg!Remove
  <2>3. CASE UNCHANGED Reg!registryVars
    BY <2>3 DEF RegInv, Reg!RegisteredIsImported, Reg!NoFile, Reg!registryVars
  <2> QED
    BY <2>1, <2>2, <2>3 DEF Reg!Next
<1>3. RegInv => Reg!RegisteredIsImported
  BY DEF RegInv
<1> QED
  BY <1>1, <1>2, <1>3, PTL DEF Reg!Spec, RegisteredIsImported

-----------------------------------------------------------------------------
(* Telegram login                                                          *)

States == [code : Nat, needsPassword : BOOLEAN]

Requests ==
  [op : {"none", "start", "code", "password", "delete"},
   pc : {"idle", "connect", "store", "signIn", "needsPassword", "delete", "signal"},
   seen : States]

AuthType ==
  /\ store \in States /\ req \in [Admins -> Requests]
  /\ codes \in Nat /\ authFaults \in Nat
  /\ authOverlap \in BOOLEAN /\ announced \in BOOLEAN

\* Without an overlap one request is in flight at a time.
OneRequest ==
  ~authOverlap => \A a, b \in Admins : Auth!InFlight(a) /\ Auth!InFlight(b) => a = b

\* A session that is not announced yet has a request that goes on to the signal.
SignalComes ==
  authFaults = 0 /\ file = "authorized" /\ ~announced =>
    \E a \in Admins : req[a].pc \in {"delete", "signal"}

\* A new login asks for no password.
FreshLogins ==
  \A a \in Admins : Auth!At(a, "start", "store") => ~req[a].seen.needsPassword

\* A password is asked for before the session is authorised, and the entry that asks for it is
\* deleted after.
PasswordEntries ==
  authFaults = 0 /\ ~authOverlap /\ file = "authorized" =>
    /\ \A a \in Admins : ~Auth!At(a, "code", "needsPassword")
    /\ store.needsPassword => \E a \in Admins : req[a].pc = "delete"

AuthInv == AuthType /\ OneRequest /\ SignalComes /\ FreshLogins /\ PasswordEntries

\* What a step changes when it moves one request.
LEMMA OneMoves ==
  ASSUME AuthType, NEW a \in Admins, NEW x \in Requests, req' = [req EXCEPT ![a] = x]
  PROVE  /\ req' \in [Admins -> Requests] /\ req'[a] = x
         /\ \A b \in Admins \ {a} : req'[b] = req[b]
BY DEF AuthType

\* What a step of one request has to keep.
LEMMA RequestStep ==
  ASSUME AuthInv, NEW a \in Admins, NEW x \in Requests, req' = [req EXCEPT ![a] = x],
         store' \in States, codes' \in Nat, authFaults' \in Nat, announced' \in BOOLEAN,
         authOverlap' \in BOOLEAN, authOverlap => authOverlap', authFaults' = 0 => authFaults = 0,
         ~authOverlap' /\ x.pc # "idle" => Auth!InFlight(a) \/ Auth!NoRequest,
         authFaults' = 0 /\ file' = "authorized" /\ ~announced' =>
           \/ x.pc \in {"delete", "signal"}
           \/ file = "authorized" /\ ~announced /\ req[a].pc \notin {"delete", "signal"},
         x.op = "start" /\ x.pc = "store" => ~x.seen.needsPassword,
         authFaults' = 0 /\ ~authOverlap' /\ file' = "authorized" =>
           /\ ~(x.op = "code" /\ x.pc = "needsPassword")
           /\ x.pc = "delete" \/ file = "authorized"
           /\ store'.needsPassword => \/ x.pc = "delete"
                                      \/ store.needsPassword /\ req[a].pc # "delete"
  PROVE  AuthInv'
<1> USE DEF Auth!InFlight
<1>1. AuthType /\ OneRequest /\ SignalComes /\ FreshLogins /\ PasswordEntries
  BY DEF AuthInv
<1>2. /\ req' \in [Admins -> Requests] /\ req'[a] = x
      /\ \A b \in Admins \ {a} : req'[b] = req[b]
  BY <1>1, OneMoves
<1>3. AuthType'
  BY <1>2 DEF AuthType, States
<1>4. OneRequest'
  BY <1>1, <1>2 DEF OneRequest, Auth!NoRequest
<1>5. SignalComes'
  BY <1>1, <1>2 DEF SignalComes
<1>6. FreshLogins'
  BY <1>1, <1>2 DEF FreshLogins, Auth!At
<1>7. PasswordEntries'
  <2> SUFFICES ASSUME authFaults' = 0, ~authOverlap', file' = "authorized"
               PROVE  /\ \A b \in Admins : ~(req'[b].op = "code" /\ req'[b].pc = "needsPassword")
                      /\ store'.needsPassword => \E b \in Admins : req'[b].pc = "delete"
    BY DEF PasswordEntries, Auth!At
  <2>1. CASE x.pc = "delete"
    BY <1>2, <1>4, <2>1 DEF OneRequest
  <2>2. CASE x.pc # "delete"
    BY <1>1, <1>2, <2>2 DEF PasswordEntries, Auth!At
  <2> QED
    BY <2>1, <2>2
<1> QED
  BY <1>3, <1>4, <1>5, <1>6, <1>7 DEF AuthInv

\* Every login that went through without a failing call is announced to the listener, and is
\* shown as ready unless two requests overlapped, for any number of admins, codes and requests
\* (telegram_auth.py, confirm_code and confirm_password; admin.py, the login endpoints).
THEOREM LoginsUsable == Auth!Spec => []LoginIsUsable
<1>1. Auth!Init => AuthInv
  <2> SUFFICES ASSUME Auth!Init PROVE AuthInv
    OBVIOUS
  <2>1. Auth!Idle \in Requests /\ Auth!Idle.pc = "idle" /\ Auth!NoState \in States
    BY DEF Auth!Idle, Auth!NoState, Requests, States
  <2>2. AuthType /\ \A a \in Admins : req[a].pc = "idle"
    BY <2>1 DEF Auth!Init, AuthType
  <2>3. OneRequest /\ FreshLogins
    BY <2>2 DEF OneRequest, FreshLogins, Auth!At, Auth!InFlight
  <2> QED
    BY <2>2, <2>3 DEF Auth!Init, AuthInv, SignalComes, PasswordEntries
<1>2. AuthInv /\ [Auth!Next]_Auth!authVars => AuthInv'
  <2> SUFFICES ASSUME AuthInv, [Auth!Next]_Auth!authVars PROVE AuthInv'
    OBVIOUS
  <2> USE DEF Auth!InFlight, Auth!At
  <2>1. AuthType /\ FreshLogins
    BY DEF AuthInv
  <2>2. Auth!Idle \in Requests /\ Auth!Idle.pc = "idle" /\ Auth!NoState \in States
    BY DEF Auth!Idle, Auth!NoState, Requests, States
  <2>3. ASSUME NEW a \in Admins, Auth!StartLogin(a) PROVE AuthInv'
    <3>1. PICK x : x = [op |-> "start", pc |-> "connect", seen |-> Auth!NoState]
      OBVIOUS
    <3>2. x \in Requests
      BY <2>2, <3>1 DEF Requests
    <3> QED
      BY <2>1, <2>3, <3>1, <3>2, RequestStep DEF Auth!StartLogin, Auth!Begin, AuthType
  <2>4. ASSUME NEW a \in Admins, Auth!SendCode(a) PROVE AuthInv'
    <3>1. CASE Auth!Done(a) /\ UNCHANGED <<file, codes, used>>
      BY <2>1, <2>2, <2>4, <3>1, RequestStep DEF Auth!SendCode, Auth!Done, AuthType
    <3>2. CASE /\ codes' = codes + 1 /\ file' = "unauthorized"
               /\ req' = [req EXCEPT ![a].pc = "store", ![a].seen = Auth!State(codes + 1, FALSE)]
      <4>1. PICK x : x = [req[a] EXCEPT !.pc = "store", !.seen = Auth!State(codes + 1, FALSE)]
        OBVIOUS
      <4>2. /\ Auth!State(codes + 1, FALSE) \in States
            /\ Auth!State(codes + 1, FALSE).needsPassword = FALSE
        BY <2>1 DEF AuthType, States, Auth!State
      <4>4. x \in Requests /\ x.pc = "store" /\ x.seen = Auth!State(codes + 1, FALSE)
        BY <2>1, <4>1, <4>2 DEF AuthType, Requests
      <4>3. req' = [req EXCEPT ![a] = x]
        BY <3>2, <4>1
      <4> QED
        <5>1. ~x.seen.needsPassword
          BY <4>2, <4>4
        <5>3. codes' \in Nat
          BY <2>1, <3>2 DEF AuthType
        <5>4. req[a].pc = "connect"
          BY <2>4 DEF Auth!SendCode
        <5>2. UNCHANGED <<store, announced, authFaults, authOverlap>>
          BY <2>4 DEF Auth!SendCode
        <5> QED
          BY <2>1, <3>2, <4>3, <4>4, <5>1, <5>2, <5>3, <5>4, RequestStep DEF AuthType
    <3> QED
      BY <2>4, <3>1, <3>2 DEF Auth!SendCode
  <2>5. ASSUME NEW a \in Admins, Auth!PutLogin(a) PROVE AuthInv'
    <3>1. req[a].seen \in States /\ ~req[a].seen.needsPassword /\ store' = req[a].seen
      BY <2>1, <2>5 DEF AuthType, Requests, FreshLogins, Auth!PutLogin, Auth!Stored
    <3> QED
      BY <2>1, <2>2, <2>5, <3>1, RequestStep DEF Auth!PutLogin, Auth!Done, AuthType
  <2>6. ASSUME NEW a \in Admins, NEW op \in {"code", "password"}, Auth!RequireState(a, op)
        PROVE  AuthInv'
    <3>1. PICK x : x = [op |-> op, pc |-> "signIn", seen |-> store]
      OBVIOUS
    <3>2. x \in Requests /\ x.pc = "signIn"
      BY <2>1, <3>1 DEF Requests, AuthType
    <3> QED
      BY <2>1, <2>6, <3>1, <3>2, RequestStep DEF Auth!RequireState, Auth!Begin, AuthType
  <2>7. \A a \in Admins, pc \in {"delete", "needsPassword", "signal"} :
          Auth!Goto(a, pc) =>
            \E x \in Requests : /\ req' = [req EXCEPT ![a] = x]
                                /\ x.pc = pc /\ x.op = req[a].op /\ x.seen = req[a].seen
    <3> SUFFICES ASSUME NEW a \in Admins, NEW pc \in {"delete", "needsPassword", "signal"},
                        Auth!Goto(a, pc)
                 PROVE  \E x \in Requests : /\ req' = [req EXCEPT ![a] = x]
                                            /\ x.pc = pc /\ x.op = req[a].op /\ x.seen = req[a].seen
      OBVIOUS
    <3>1. PICK x : x = [req[a] EXCEPT !.pc = pc]
      OBVIOUS
    <3>2. x \in Requests /\ x.pc = pc /\ x.op = req[a].op /\ x.seen = req[a].seen
      BY <2>1, <3>1 DEF AuthType, Requests
    <3>3. req' = [req EXCEPT ![a] = x]
      BY <3>1 DEF Auth!Goto
    <3> QED
      BY <3>2, <3>3
  <2>8. ASSUME NEW a \in Admins, Auth!SignIn(a) \/ Auth!SignInPassword(a) PROVE AuthInv'
    <3>0. /\ req[a].pc = "signIn"
          /\ UNCHANGED <<store, codes, authFaults, authOverlap>>
      BY <2>8 DEF Auth!SignIn, Auth!SignInPassword
    <3>1. CASE Auth!Done(a) /\ UNCHANGED <<file, used, announced>>
      BY <2>1, <2>2, <3>0, <3>1, RequestStep DEF Auth!Done, AuthType
    <3>2. CASE file' = "authorized" /\ announced' = FALSE /\ Auth!Goto(a, "delete")
      <4>1. PICK x \in Requests : req' = [req EXCEPT ![a] = x] /\ x.pc = "delete"
        BY <2>7, <3>2
      <4> QED
        BY <2>1, <3>0, <3>2, <4>1, RequestStep DEF AuthType
    <3>3. CASE /\ file # "authorized" /\ UNCHANGED <<file, used, announced>>
               /\ Auth!Goto(a, "needsPassword")
      <4>1. PICK x \in Requests : req' = [req EXCEPT ![a] = x] /\ x.pc = "needsPassword"
        BY <2>7, <3>3
      <4> QED
        BY <2>1, <3>0, <3>3, <4>1, RequestStep DEF AuthType
    <3> QED
      BY <2>8, <3>1, <3>2, <3>3 DEF Auth!SignIn, Auth!SignInPassword, Auth!Accepted
  <2>9. ASSUME NEW a \in Admins, Auth!PutNeedsPassword(a) PROVE AuthInv'
    <3>1. PICK x \in Requests : /\ req' = [req EXCEPT ![a] = x]
                                /\ x.pc = "signal" /\ x.op = req[a].op
      BY <2>7, <2>9 DEF Auth!PutNeedsPassword
    <3>2. store' \in States
      BY <2>1, <2>9 DEF Auth!PutNeedsPassword, Auth!Stored, Auth!State, AuthType, Requests, States
    <3>3. ~(authFaults = 0 /\ ~authOverlap /\ file = "authorized")
      BY <2>9 DEF AuthInv, PasswordEntries, Auth!PutNeedsPassword
    <3> QED
      BY <2>1, <2>9, <3>1, <3>2, <3>3, RequestStep DEF Auth!PutNeedsPassword, AuthType
  <2>10. ASSUME NEW a \in Admins, Auth!DeleteFinished(a) PROVE AuthInv'
    <3>1. PICK x \in Requests : req' = [req EXCEPT ![a] = x] /\ x.pc = "signal"
      BY <2>7, <2>10 DEF Auth!DeleteFinished
    <3>2. store' = Auth!NoState /\ ~Auth!NoState.needsPassword
      BY <2>10 DEF Auth!DeleteFinished, Auth!Deleted, Auth!NoState
    <3> QED
      BY <2>1, <2>2, <2>10, <3>1, <3>2, RequestStep DEF Auth!DeleteFinished, AuthType
  <2>11. ASSUME NEW a \in Admins, Auth!SignalRefresh(a) PROVE AuthInv'
    BY <2>1, <2>2, <2>11, RequestStep DEF Auth!SignalRefresh, Auth!Done, AuthType
  <2>12. ASSUME NEW a \in Admins, Auth!DeleteState(a) PROVE AuthInv'
    <3>1. PICK x : x = [op |-> "delete", pc |-> "delete", seen |-> Auth!NoState]
      OBVIOUS
    <3>2. x \in Requests /\ x.pc = "delete" /\ x.op = "delete"
      BY <2>2, <3>1 DEF Requests
    <3> QED
      BY <2>1, <2>12, <3>1, <3>2, RequestStep DEF Auth!DeleteState, Auth!Begin, AuthType
  <2>13. ASSUME NEW a \in Admins, Auth!RequestFails(a) PROVE AuthInv'
    <3>1. authFaults' \in Nat /\ authFaults' # 0
      BY <2>1, <2>13 DEF Auth!RequestFails, AuthType
    <3> QED
      BY <2>1, <2>2, <2>13, <3>1, RequestStep DEF Auth!RequestFails, Auth!Done, AuthType
  <2>14. CASE Auth!Expire
    BY <2>2, <2>14 DEF Auth!Expire, Auth!Deleted, AuthInv, AuthType, OneRequest, SignalComes,
                       FreshLogins, PasswordEntries
  <2>15. CASE Auth!Revoke \/ Auth!LockChanges
    <3>1. authFaults' \in Nat /\ authFaults' # 0
      BY <2>1, <2>15 DEF Auth!Revoke, Auth!LockChanges, AuthType
    <3>2. announced' \in BOOLEAN /\ UNCHANGED <<store, req, codes, authOverlap>>
      BY <2>1, <2>15 DEF Auth!Revoke, Auth!LockChanges, AuthType
    <3> QED
      BY <3>1, <3>2 DEF AuthInv, AuthType, OneRequest, SignalComes,
                 FreshLogins, PasswordEntries
  <2>16. CASE UNCHANGED Auth!authVars
    BY <2>16 DEF Auth!authVars, AuthInv, AuthType, OneRequest, SignalComes, FreshLogins,
                 PasswordEntries
  <2> QED
    BY <2>3, <2>4, <2>5, <2>6, <2>8, <2>9, <2>10, <2>11, <2>12, <2>13, <2>14, <2>15, <2>16
       DEF Auth!Next
<1>3. AuthInv => Auth!LoginIsUsable
  BY DEF AuthInv, AuthType, SignalComes, PasswordEntries, Auth!LoginIsUsable, Auth!NoRequest,
         Auth!InFlight, Auth!SessionStatus, Auth!Present
<1> QED
  BY <1>1, <1>2, <1>3, PTL DEF Auth!Spec, LoginIsUsable

-----------------------------------------------------------------------------
(* Source bindings                                                         *)

\* A row or a merged source: a record of exactly these columns.
IsRow(r) ==
  /\ r = [exists |-> r.exists, enabled |-> r.enabled, key |-> r.key, profile |-> r.profile,
          version |-> r.version, config |-> r.config, mode |-> r.mode]
  /\ r.exists \in BOOLEAN

\* What a writer loaded: rows are created and never deleted.
Loaded(r) == IsRow(r) /\ (r.exists => row.exists)

BindInv ==
  /\ IsRow(row) /\ rowOverlap \in BOOLEAN
  /\ \A w \in Writers : job[w].pc = "merge" => Loaded(job[w].loaded)
  /\ DOMAIN job = Writers
  /\ ~row.exists => row.config = Bind!NoConfig
  /\ Bind!PolicyStaysWithParser

\* A merge makes a source that exists, and keeps a config only with the parser it was for.
LEMMA MergeKeepsPolicy ==
  ASSUME NEW r, IsRow(r), NEW patch
  PROVE  /\ IsRow(Bind!Merge(r, patch)) /\ Bind!Merge(r, patch).exists
         /\ Bind!ConfigGiven(patch) \/ Bind!Merge(r, patch).config \in {Bind!NoConfig, r.config}
         /\ \/ Bind!ConfigGiven(patch) \/ Bind!Merge(r, patch).config = Bind!NoConfig
            \/ r.exists => Bind!KeyOf(Bind!Merge(r, patch)) = Bind!KeyOf(r)
<1> DEFINE m == Bind!Merge(r, patch)
           key == Bind!Pick(patch, "key", r.key)
           profile == Bind!Pick(patch, "profile", r.profile)
           changed == r.exists /\ Bind!EffectiveKey(key, profile) # Bind!KeyOf(r)
<1>1. /\ m.exists = TRUE /\ m.key = key /\ m.profile = profile
      /\ m.config = IF Bind!ConfigGiven(patch) THEN patch.config
                    ELSE IF changed THEN Bind!NoConfig ELSE r.config
  BY DEF Bind!Merge
<1>2. IsRow(m)
  BY DEF Bind!Merge, IsRow
<1>3. Bind!KeyOf(m) = Bind!EffectiveKey(key, profile)
  BY <1>1 DEF Bind!KeyOf
<1> HIDE DEF m, key, profile
<1>4. /\ Bind!ConfigGiven(patch) \/ m.config \in {Bind!NoConfig, r.config}
      /\ \/ Bind!ConfigGiven(patch) \/ m.config = Bind!NoConfig
         \/ r.exists => Bind!KeyOf(m) = Bind!KeyOf(r)
  BY <1>1, <1>3
<1> QED
  BY <1>1, <1>2, <1>4 DEF m

\* Of a row that is as it was loaded, the columns that differ are the merged ones.
LEMMA FlushWritesMerged ==
  ASSUME NEW m, IsRow(m) PROVE Bind!Flush(row, m) = m
<1>1. Bind!Flush(row, m) = [f \in DOMAIN m |-> m[f]]
  BY DEF Bind!Flush
<1> QED
  BY <1>1 DEF IsRow

\* Through any sequence of partial patches by any number of writers, a parser's config stays with
\* the parser it was given for and the stored binding is one that was validated as a whole, unless
\* a row was committed from a stale load (source_config.py, merge_source_parser_binding;
\* repositories/sqlalchemy.py, create_or_enable_source).
THEOREM PoliciesStay == Bind!Spec => []PolicyStaysWithParser
<1>1. Bind!Init => BindInv
  <2> SUFFICES ASSUME Bind!Init PROVE BindInv
    OBVIOUS
  <2>1. Bind!NoJob.pc = "idle"
    BY DEF Bind!NoJob
  <2>2. IsRow(row) /\ ~row.exists /\ row.config = Bind!NoConfig
    BY DEF Bind!Init, Bind!NoRow, IsRow
  <2> QED
    BY <2>1, <2>2 DEF Bind!Init, BindInv, Bind!PolicyStaysWithParser
<1>2. BindInv /\ [Bind!Next]_Bind!bindingVars => BindInv'
  <2> SUFFICES ASSUME BindInv, [Bind!Next]_Bind!bindingVars PROVE BindInv'
    OBVIOUS
  <2>1. Bind!NoJob.pc = "idle"
    BY DEF Bind!NoJob
  <2>2. ASSUME NEW w \in Writers, Bind!Load(w) PROVE BindInv'
    <3>1. PICK patch : job' = [job EXCEPT ![w] = [pc |-> "merge", patch |-> patch, loaded |-> row]]
      BY <2>2 DEF Bind!Load
    <3>2. \A v \in Writers : job'[v].pc = "merge" => Loaded(job'[v].loaded)
      BY <3>1 DEF BindInv, Loaded
    <3>3. UNCHANGED <<row, givenFor, rowOverlap>> /\ DOMAIN job' = Writers
      BY <2>2, <3>1 DEF Bind!Load, BindInv
    <3> QED
      BY <3>2, <3>3 DEF BindInv, Loaded, IsRow, Bind!PolicyStaysWithParser, Bind!KeyOf, Bind!Binding
  <2>3. ASSUME NEW w \in Writers, Bind!Refuse(w) \/ Bind!InsertConflict(w) PROVE BindInv'
    <3>1. job' = [job EXCEPT ![w] = Bind!NoJob] /\ UNCHANGED <<row, givenFor, rowOverlap>>
      BY <2>3 DEF Bind!Refuse, Bind!InsertConflict
    <3>2. \A v \in Writers : job'[v].pc = "merge" => Loaded(job'[v].loaded)
      BY <2>1, <3>1 DEF BindInv
    <3> QED
      BY <3>1, <3>2 DEF BindInv, Loaded, IsRow, Bind!PolicyStaysWithParser, Bind!KeyOf, Bind!Binding
  <2>4. ASSUME NEW w \in Writers, Bind!Commit(w) PROVE BindInv'
    <3>1. PICK loaded : loaded = job[w].loaded
      OBVIOUS
    <3>2. PICK patch : patch = job[w].patch
      OBVIOUS
    <3>3. PICK m : m = Bind!Merge(loaded, patch)
      OBVIOUS
    <3>4. /\ Bind!Accepts(m) /\ row' = Bind!Flush(loaded, m)
          /\ givenFor' = IF Bind!ConfigGiven(patch) THEN Bind!KeyOf(m) ELSE givenFor
          /\ rowOverlap' = (rowOverlap \/ row # loaded)
          /\ job' = [job EXCEPT ![w] = Bind!NoJob]
          /\ IsRow(loaded) /\ (loaded.exists => row.exists)
          /\ ~(loaded.exists = FALSE /\ row.exists)
      BY <2>4, <3>1, <3>2, <3>3 DEF Bind!Commit, BindInv, Loaded
    <3>5. /\ IsRow(m) /\ m.exists
          /\ Bind!ConfigGiven(patch) \/ m.config \in {Bind!NoConfig, loaded.config}
          /\ \/ Bind!ConfigGiven(patch) \/ m.config = Bind!NoConfig
             \/ loaded.exists => Bind!KeyOf(m) = Bind!KeyOf(loaded)
      BY <3>3, <3>4, MergeKeepsPolicy
    <3>6. \A v \in Writers : job'[v].pc = "merge" => Loaded(job'[v].loaded)
      BY <2>1, <3>4 DEF BindInv
    <3>7. IsRow(row') /\ row'.exists
      <4>1. row' = [f \in DOMAIN m |-> IF m[f] # loaded[f] THEN m[f] ELSE row[f]]
        BY <3>4 DEF Bind!Flush
      <4>2. DOMAIN m = {"exists", "enabled", "key", "profile", "version", "config", "mode"}
        BY <3>5 DEF IsRow
      <4>3. row'.exists = TRUE
        BY <3>4, <3>5, <4>1, <4>2 DEF IsRow, BindInv
      <4> QED
        BY <4>1, <4>2, <4>3 DEF IsRow
    <3>8. Bind!PolicyStaysWithParser'
      <4>1. CASE rowOverlap'
        BY <4>1 DEF Bind!PolicyStaysWithParser
      <4>2. CASE ~rowOverlap'
        <5>1. loaded = row /\ ~rowOverlap
          BY <3>4, <4>2
        <5>2. row' = m
          BY <3>4, <3>5, <5>1, FlushWritesMerged
        <5>3. m.config # Bind!NoConfig => givenFor' = Bind!KeyOf(m)
          BY <3>4, <3>5, <5>1 DEF BindInv, Bind!PolicyStaysWithParser
        <5>4. Bind!ValidBinding(Bind!Binding(m))
          BY <3>4 DEF Bind!Accepts
        <5> QED
          BY <5>2, <5>3, <5>4 DEF Bind!PolicyStaysWithParser, Bind!KeyOf, Bind!Binding
      <4> QED
        BY <4>1, <4>2
    <3> QED
      BY <3>4, <3>6, <3>7, <3>8 DEF BindInv, Loaded, IsRow
  <2>5. CASE Bind!Disable
    <3>1. /\ row' = [row EXCEPT !.enabled = FALSE]
          /\ UNCHANGED <<job, givenFor, rowOverlap>>
      BY <2>5 DEF Bind!Disable
    <3>2. /\ IsRow(row') /\ row'.exists = row.exists /\ row'.key = row.key
          /\ row'.profile = row.profile /\ row'.config = row.config /\ row'.mode = row.mode
      BY <3>1 DEF BindInv, Loaded, IsRow
    <3>3. Bind!KeyOf(row') = Bind!KeyOf(row) /\ Bind!Binding(row') = Bind!Binding(row)
      BY <3>2 DEF Bind!KeyOf, Bind!Binding
    <3> QED
      BY <3>1, <3>2, <3>3 DEF BindInv, Loaded, IsRow, Bind!PolicyStaysWithParser, Bind!KeyOf, Bind!Binding
  <2>6. CASE UNCHANGED Bind!bindingVars
    BY <2>6 DEF Bind!bindingVars, BindInv, Loaded, IsRow, Bind!PolicyStaysWithParser, Bind!KeyOf,
                Bind!Binding
  <2> QED
    BY <2>2, <2>3, <2>4, <2>5, <2>6 DEF Bind!Next
<1>3. BindInv => Bind!PolicyStaysWithParser
  BY DEF BindInv
<1> QED
  BY <1>1, <1>2, <1>3, PTL DEF Bind!Spec, PolicyStaysWithParser

-----------------------------------------------------------------------------
(* The listener process                                                    *)

Pcs == {"off", "read", "evaluate", "stopping", "snapshot", "version", "watch", "idle",
        "subscribing", "dead"}

SourceMaps == [Sources -> Bindings \cup {Lis!Off}]

TaskRecords == [pc : Pcs, seen : SourceMaps, at : Nat, old : Nat]

Listening == [Bindings -> {"none", "connecting", "up", "ended"}]

LisType ==
  /\ config \in SourceMaps /\ version \in Nat /\ lastVersion \in Nat
  /\ channel \in Seq(Nat)
  /\ task \in [Lis!Tasks -> TaskRecords]
  /\ sup \in Seq(Listening) /\ current \in Nat
  /\ up \in BOOLEAN /\ overlapped \in BOOLEAN /\ missed \in BOOLEAN /\ unsignalled \in BOOLEAN

\* Nobody knows a version that was not signalled.
VersionsBehind ==
  /\ lastVersion <= version /\ \A t \in Lis!Tasks : task[t].at <= version
  /\ \A i \in 1..Len(channel) : channel[i] <= version

\* The two loops start when the main coroutine has refreshed and read the version.
StartsFirst ==
  /\ task["main"].pc \in {"off", "read", "evaluate", "stopping", "snapshot", "version", "watch",
                          "dead"}
  /\ task["main"].pc # "watch" => task["poll"].pc = "off" /\ task["pubsub"].pc = "off"
  /\ up /\ task["main"].pc # "watch" => ~missed
  /\ \A t \in {"poll", "pubsub"} : task[t].pc # "version"
  /\ up => task["main"].pc # "off"

\* Without an overlap one refresh is in flight, and while it stops a supervisor no other is current.
OneRefresh ==
  ~overlapped =>
    /\ \A t, u \in Lis!Tasks : Lis!Refreshing(t) /\ Lis!Refreshing(u) => t = u
    /\ \A t \in Lis!Tasks : task[t].pc = "stopping" => current = 0

\* Only the current supervisor, or the one that a refresh is stopping, has live listeners, unless
\* one could not be stopped.
OthersEnded ==
  ~overlapped /\ stranded = {} =>
    \A i \in 1..Len(sup) :
      \/ Lis!Live(i) = {}
      \/ i = current
      \/ \E t \in Lis!Tasks : task[t].pc = "stopping" /\ task[t].old = i

\* The newest version has not led to a refresh yet.
Behind == IF task["main"].pc = "watch" THEN version # lastVersion ELSE version # task["main"].at

Unread == \E t \in Lis!Tasks : task[t].pc = "read"
Underway == \E t \in Lis!Tasks : task[t].pc \in {"evaluate", "stopping"} /\ task[t].seen = Lis!Visible
Settled ==
  /\ applied = Lis!Visible
  /\ \A t \in Lis!Tasks : task[t].pc \notin {"read", "evaluate", "stopping"}

\* A configuration that is not applied is on its way.
OnItsWay ==
  up /\ ~overlapped /\ ~missed /\ ~unsignalled =>
    \/ Behind \/ Unread \/ Underway \/ Settled
    \/ \E t \in Lis!Tasks : task[t].pc = "dead"

LisInv == LisType /\ VersionsBehind /\ StartsFirst /\ OneRefresh /\ OthersEnded /\ OnItsWay

\* The three tasks of the coordinator.
LEMMA TasksAre == Lis!Tasks = {"main", "pubsub", "poll"}
BY DEF Lis!Tasks

\* What a step that moves one coroutine leaves of the others.
LEMMA OneTaskMoves ==
  ASSUME LisType, NEW t \in Lis!Tasks, NEW x \in TaskRecords, task' = [task EXCEPT ![t] = x]
  PROVE  /\ task' \in [Lis!Tasks -> TaskRecords] /\ task'[t] = x
         /\ \A u \in Lis!Tasks \ {t} : task'[u] = task[u]
BY DEF LisType

\* The invariant implies both properties.
LEMMA LisInvSafe ==
  ASSUME LisInv PROVE Lis!QuietIsApplied /\ Lis!OneClientWithoutOverlap
<1>1. LisType /\ StartsFirst /\ OneRefresh /\ OthersEnded /\ OnItsWay
  BY DEF LisInv
<1>2. Lis!QuietIsApplied
  BY <1>1, TasksAre DEF OnItsWay, Behind, Unread, Underway, Settled, LisType,
     Lis!QuietIsApplied, Lis!Quiet, Lis!LoopsAlive
<1>3. Lis!OneClientWithoutOverlap
  <2> SUFFICES ASSUME ~overlapped, stranded = {},
                      NEW i \in DOMAIN sup, NEW j \in DOMAIN sup, i # j
               PROVE  {Lis!Session(b) : b \in Lis!Live(i)} \cap {Lis!Session(b) : b \in Lis!Live(j)} = {}
    BY <1>1 DEF Lis!OneClientWithoutOverlap, LisType
  <2>1. i \in 1..Len(sup) /\ j \in 1..Len(sup)
    BY <1>1 DEF LisType
  <2>2. Lis!Live(i) = {} \/ Lis!Live(j) = {}
    BY <1>1, <2>1 DEF OthersEnded, OneRefresh, Lis!Refreshing
  <2> QED
    BY <2>2
<1> QED
  BY <1>2, <1>3

\* Nothing runs and nothing was signalled at first.
LEMMA LisInitInv == ASSUME Lis!Constants, Lis!Init PROVE LisInv
<1>1. Lis!NoSources \in SourceMaps
  BY DEF Lis!NoSources, SourceMaps
<1>2. Lis!Resting \in TaskRecords /\ Lis!Resting.pc = "off" /\ Lis!Resting.at = 0
  BY <1>1 DEF Lis!Resting, TaskRecords, Pcs
<1>3. LisType
  <2>1. config \in SourceMaps
    BY DEF Lis!Init, Lis!Constants, SourceMaps
  <2>2. task \in [Lis!Tasks -> TaskRecords]
    BY <1>2 DEF Lis!Init
  <2>3. channel \in Seq(Nat) /\ sup \in Seq(Listening)
    BY DEF Lis!Init
  <2> QED
    BY <2>1, <2>2, <2>3 DEF Lis!Init, LisType
<1>4. \A t \in Lis!Tasks : task[t].pc = "off" /\ task[t].at = 0
  BY <1>2 DEF Lis!Init
<1>5. VersionsBehind /\ StartsFirst
  BY <1>4, TasksAre DEF Lis!Init, VersionsBehind, StartsFirst
<1>6. OneRefresh /\ OthersEnded /\ OnItsWay
  BY <1>4 DEF Lis!Init, OneRefresh, OthersEnded, OnItsWay, Lis!Refreshing
<1> QED
  BY <1>3, <1>5, <1>6 DEF LisInv

\* What the coroutines, supervisors and histories are; the admin API changes none of them.
processVars == <<up, task, lastVersion, applied, current, sup, overlapped, stranded, missed>>

\* Changes by admins and their signals keep the invariant.
LEMMA AdminKeeps ==
  ASSUME LisInv,
         Lis!EnableSource \/ Lis!Bootstrap \/ Lis!RequestRefresh \/ Lis!SetListenerFlag \/ Lis!Incr
           \/ Lis!PublishVersion \/ Lis!SignalFails
  PROVE  LisInv'
<1>1. LisType /\ VersionsBehind /\ StartsFirst /\ OneRefresh /\ OthersEnded /\ OnItsWay
  BY DEF LisInv
<1>2. UNCHANGED processVars
  BY DEF Lis!EnableSource, Lis!Bootstrap, Lis!RequestRefresh, Lis!SetListenerFlag, Lis!Incr,
         Lis!PublishVersion, Lis!SignalFails, processVars
<1>3. /\ config' \in SourceMaps /\ version' \in Nat /\ version <= version'
      /\ unsignalled' \in BOOLEAN
  <2>1. CASE Lis!EnableSource \/ Lis!Bootstrap
    <3>1. PICK s \in Sources, b \in Bindings : Lis!CreateOrEnableSource(s, b)
      BY <2>1 DEF Lis!EnableSource, Lis!Bootstrap
    <3>2. config' = [config EXCEPT ![s] = b] /\ unsignalled' = TRUE
      BY <3>1 DEF Lis!CreateOrEnableSource
    <3>3. version' = version
      BY <2>1 DEF Lis!EnableSource, Lis!Bootstrap
    <3> QED
      BY <1>1, <3>2, <3>3 DEF LisType, SourceMaps
  <2>2. CASE Lis!RequestRefresh \/ Lis!SetListenerFlag \/ Lis!Incr \/ Lis!PublishVersion
               \/ Lis!SignalFails
    <3>1. version' \in Nat /\ version <= version'
      BY <1>1, <2>2 DEF Lis!RequestRefresh, Lis!SetListenerFlag, Lis!Incr, Lis!PublishVersion,
                        Lis!SignalFails, LisType
    <3>2. config' = config /\ (unsignalled' = unsignalled \/ unsignalled' \in BOOLEAN)
      BY <2>2 DEF Lis!RequestRefresh, Lis!SetListenerFlag, Lis!Incr, Lis!PublishVersion,
                  Lis!SignalFails
    <3> QED
      BY <1>1, <3>1, <3>2 DEF LisType
  <2> QED
    BY <2>1, <2>2
<1>4. channel' \in Seq(Nat) /\ \A i \in 1..Len(channel') : channel'[i] <= version'
  <2>1. CASE channel' = Append(channel, version) /\ version' = version
    BY <1>1, <2>1 DEF LisType, VersionsBehind
  <2>2. CASE channel' = channel
    BY <1>1, <1>3, <2>2 DEF LisType, VersionsBehind
  <2> QED
    BY <2>1, <2>2 DEF Lis!EnableSource, Lis!Bootstrap, Lis!RequestRefresh, Lis!SetListenerFlag,
                      Lis!Incr, Lis!PublishVersion, Lis!SignalFails
<1>5. LisType' /\ VersionsBehind' /\ StartsFirst'
  <2>1. \A t \in Lis!Tasks : task[t].at \in Nat
    BY <1>1 DEF LisType, TaskRecords
  <2>2. LisType'
    BY <1>1, <1>2, <1>3, <1>4 DEF LisType, processVars, Lis!Tasks
  <2>3. VersionsBehind'
    BY <1>1, <1>2, <1>3, <1>4, <2>1 DEF LisType, VersionsBehind, Lis!Tasks, processVars
  <2> QED
    BY <1>1, <1>2, <2>2, <2>3 DEF StartsFirst, processVars
<1>6. OneRefresh' /\ OthersEnded'
  BY <1>1, <1>2 DEF OneRefresh, OthersEnded, Lis!Refreshing, Lis!Live, Lis!Tasks, processVars
<1>7. OnItsWay'
  <2>1. CASE Lis!EnableSource \/ Lis!Bootstrap \/ Lis!SetListenerFlag
    BY <2>1 DEF Lis!EnableSource, Lis!Bootstrap, Lis!CreateOrEnableSource, Lis!SetListenerFlag,
                OnItsWay
  <2>2. CASE Lis!Incr
    <3>1. lastVersion # version' /\ task["main"].at # version'
      BY <1>1, <2>2, TasksAre DEF Lis!Incr, LisType, TaskRecords, VersionsBehind
    <3> QED
      BY <1>2, <3>1 DEF OnItsWay, Behind, processVars
  <2>3. CASE Lis!RequestRefresh \/ Lis!PublishVersion \/ Lis!SignalFails
    BY <1>1, <1>2, <2>3 DEF Lis!RequestRefresh, Lis!PublishVersion, Lis!SignalFails, OnItsWay, Behind, Unread, Underway, Settled,
                            Lis!Visible, Lis!NoSources, Lis!Off, Lis!Tasks, processVars
  <2> QED
    BY <2>1, <2>2, <2>3
<1> QED
  BY <1>5, <1>6, <1>7 DEF LisInv

\* A listener that connects or fails does not come back to life.
LEMMA ListenersKeep ==
  ASSUME LisInv, NEW i \in DOMAIN sup, NEW b \in Bindings,
         \/ Lis!ListenerConnects(i, b) \/ Lis!ListenerReceives(i, b)
         \/ \E to \in {"flood_wait", "banned", "reconnecting"} : Lis!ListenerFails(i, b, to)
         \/ Lis!LeftoverEnds(i, b)
  PROVE  LisInv'
<1>1. LisType /\ VersionsBehind /\ StartsFirst /\ OneRefresh /\ OthersEnded /\ OnItsWay
  BY DEF LisInv
<1>2. /\ UNCHANGED <<config, flag, version, channel, admin, up, task, lastVersion, applied,
                     current, overlapped, stranded, missed, unsignalled>>
      /\ b \in Lis!Live(i)
      /\ \E to \in {"up", "ended"} : sup' = [sup EXCEPT ![i][b] = to]
  BY DEF Lis!ListenerConnects, Lis!ListenerReceives, Lis!ListenerFails, Lis!LeftoverEnds, Lis!ListenerUnchanged, Lis!adminVars, Lis!Live
<1>3. PICK to \in {"up", "ended"} : sup' = [sup EXCEPT ![i][b] = to]
  BY <1>2
<1>4. PICK x : x = [sup[i] EXCEPT ![b] = to]
  OBVIOUS
<1>5. i \in 1..Len(sup) /\ sup[i] \in Listening
  BY <1>1 DEF LisType
<1>6. x \in Listening
  BY <1>3, <1>4, <1>5 DEF Listening
<1>7. sup' = [sup EXCEPT ![i] = x]
  BY <1>3, <1>4
<1>8. sup' \in Seq(Listening) /\ Len(sup') = Len(sup)
  BY <1>1, <1>5, <1>6, <1>7 DEF LisType
<1>9. ASSUME NEW k \in 1..Len(sup), Lis!Live(k) = {} PROVE Lis!Live(k)' = {}
  <2>1. k # i
    BY <1>2, <1>9
  <2>2. sup'[k] = sup[k]
    BY <1>1, <1>5, <1>7, <2>1 DEF LisType
  <2> QED
    BY <1>9, <2>2 DEF Lis!Live
<1>10. OthersEnded'
  BY <1>1, <1>2, <1>8, <1>9 DEF OthersEnded, Lis!Tasks
<1>11. LisType' /\ VersionsBehind' /\ StartsFirst' /\ OneRefresh'
  BY <1>1, <1>2, <1>8 DEF LisType, VersionsBehind, StartsFirst, OneRefresh, Lis!Refreshing,
                          Lis!Tasks
<1>12. OnItsWay'
  BY <1>1, <1>2 DEF OnItsWay, Behind, Unread, Underway, Settled, Lis!Visible, Lis!NoSources,
                    Lis!Off, Lis!Tasks
<1> QED
  BY <1>10, <1>11, <1>12 DEF LisInv

RefreshPcs == {"read", "evaluate", "stopping", "snapshot"}

\* What a step of one coroutine has to keep, apart from the supervisors and the configuration.
LEMMA TaskStep ==
  ASSUME LisInv, NEW t \in Lis!Tasks, NEW x \in TaskRecords, task' = [task EXCEPT ![t] = x],
         up, UNCHANGED <<config, version, up, missed>>, task[t].pc # "off",
         channel' \in Seq(Nat), \A i \in 1..Len(channel') : channel'[i] <= version,
         lastVersion' \in Nat, lastVersion' <= version, x.at <= version,
         sup' \in Seq(Listening), current' \in Nat,
         overlapped' \in BOOLEAN, unsignalled' \in BOOLEAN, overlapped => overlapped',
         \/ t = "main" /\ task[t].pc # "watch"
              /\ x.pc \in {"evaluate", "stopping", "snapshot", "version", "dead"}
         \/ t # "main" /\ x.pc # "version",
         ~overlapped' /\ x.pc \in RefreshPcs => (Lis!Refreshing(t) \/ ~Lis!AnyRefresh),
         ~overlapped' /\ x.pc = "stopping" => current' = 0,
         current' = current \/ Lis!Refreshing(t)
  PROVE  LisType' /\ VersionsBehind' /\ StartsFirst' /\ OneRefresh'
<1>1. LisType /\ VersionsBehind /\ StartsFirst /\ OneRefresh
  BY DEF LisInv
<1>2. /\ task' \in [Lis!Tasks -> TaskRecords] /\ task'[t] = x
      /\ \A u \in Lis!Tasks \ {t} : task'[u] = task[u]
  BY <1>1, OneTaskMoves
<1>3. LisType'
  BY <1>1, <1>2 DEF LisType, Lis!Tasks
<1>4. VersionsBehind'
  BY <1>1, <1>2 DEF VersionsBehind, Lis!Tasks
<1>5. StartsFirst'
  BY <1>1, <1>2, TasksAre DEF StartsFirst
<1>6. OneRefresh'
  <2> USE DEF Lis!Refreshing, RefreshPcs
  <2> SUFFICES ASSUME ~overlapped'
               PROVE  /\ \A v, u \in Lis!Tasks :
                           task'[v].pc \in RefreshPcs /\ task'[u].pc \in RefreshPcs => v = u
                      /\ \A v \in Lis!Tasks : task'[v].pc = "stopping" => current' = 0
    BY DEF OneRefresh, Lis!Tasks
  <2>1. /\ \A v, u \in Lis!Tasks : Lis!Refreshing(v) /\ Lis!Refreshing(u) => v = u
        /\ \A v \in Lis!Tasks : task[v].pc = "stopping" => current = 0
    BY <1>1 DEF OneRefresh
  <2>2. \A v, u \in Lis!Tasks :
          task'[v].pc \in RefreshPcs /\ task'[u].pc \in RefreshPcs => v = u
    BY <1>2, <2>1 DEF Lis!AnyRefresh
  <2>3. \A v \in Lis!Tasks : task'[v].pc = "stopping" => current' = 0
    BY <1>2, <2>1
  <2> QED
    BY <2>2, <2>3
<1> QED
  BY <1>3, <1>4, <1>5, <1>6

\* A coroutine that stops no supervisor leaves them as they are.
LEMMA SupervisorsRest ==
  ASSUME LisInv, NEW t \in Lis!Tasks, NEW x \in TaskRecords, task' = [task EXCEPT ![t] = x],
         UNCHANGED <<sup, current>>, task[t].pc # "stopping", overlapped => overlapped',
         overlapped \in BOOLEAN, overlapped' \in BOOLEAN, stranded' = stranded
  PROVE  OthersEnded'
<1>1. /\ task' \in [Lis!Tasks -> TaskRecords] /\ task'[t] = x
      /\ \A u \in Lis!Tasks \ {t} : task'[u] = task[u]
  BY OneTaskMoves DEF LisInv
<1>2. OthersEnded
  BY DEF LisInv
<1> SUFFICES ASSUME ~overlapped', stranded = {}, NEW i \in 1..Len(sup)
             PROVE  \/ Lis!Live(i) = {}
                    \/ i = current
                    \/ \E u \in Lis!Tasks : task'[u].pc = "stopping" /\ task'[u].old = i
  BY DEF OthersEnded, Lis!Live, Lis!Tasks
<1> QED
  BY <1>1, <1>2 DEF OthersEnded

\* A step of one coroutine that neither begins nor reads loses no configuration.
LEMMA StaysOnItsWay ==
  ASSUME LisInv, NEW t \in Lis!Tasks, NEW x \in TaskRecords, task' = [task EXCEPT ![t] = x],
         UNCHANGED <<config, flag, version, up, missed, unsignalled, lastVersion, overlapped>>,
         task[t].pc \notin {"read", "dead", "watch"}, x.pc \notin {"read", "watch"},
         t = "main" => x.at = task[t].at,
         task[t].pc \in {"evaluate", "stopping"} =>
           \/ x.pc = "dead"
           \/ x.pc \in {"evaluate", "stopping"} /\ x.seen = task[t].seen
           \/ x.pc \notin {"evaluate", "stopping"} /\ applied' = task[t].seen,
         task[t].pc \notin {"evaluate", "stopping"} =>
           x.pc \notin {"evaluate", "stopping"} /\ applied' = applied
  PROVE  OnItsWay'
<1>1. /\ task' \in [Lis!Tasks -> TaskRecords] /\ task'[t] = x
      /\ \A u \in Lis!Tasks \ {t} : task'[u] = task[u]
  BY OneTaskMoves DEF LisInv
<1> SUFFICES ASSUME up, ~overlapped, ~missed, ~unsignalled
             PROVE  \/ Behind' \/ Unread' \/ Underway' \/ Settled'
                    \/ \E u \in Lis!Tasks : task'[u].pc = "dead"
  BY DEF OnItsWay, Lis!Tasks
<1>2. \/ Behind \/ Unread \/ Underway \/ Settled
      \/ \E u \in Lis!Tasks : task[u].pc = "dead"
  BY DEF LisInv, OnItsWay
<1>3. \A u \in Lis!Tasks : Lis!Refreshing(t) /\ Lis!Refreshing(u) => u = t
  BY DEF LisInv, OneRefresh
<1>4. Lis!Visible' = Lis!Visible
  BY DEF Lis!Visible, Lis!NoSources, Lis!Off
<1>5. CASE Behind
  BY <1>1, <1>5, TasksAre DEF Behind
<1>6. CASE Unread
  BY <1>1, <1>6 DEF Unread, Lis!Tasks
<1>7. CASE Underway
  <2>1. PICK u \in Lis!Tasks : task[u].pc \in {"evaluate", "stopping"} /\ task[u].seen = Lis!Visible
    BY <1>7 DEF Underway
  <2>2. CASE u # t
    BY <1>1, <1>4, <2>1, <2>2 DEF Underway, Lis!Tasks
  <2>3. CASE u = t /\ x.pc \in {"evaluate", "stopping"}
    BY <1>1, <1>4, <2>1, <2>3 DEF Underway, Lis!Tasks
  <2>4. CASE u = t /\ x.pc = "dead"
    BY <1>1, <2>4
  <2>5. CASE u = t /\ x.pc \notin {"evaluate", "stopping", "dead"}
    <3>1. applied' = Lis!Visible
      BY <2>1, <2>5
    <3>2. \A v \in Lis!Tasks : task'[v].pc \notin {"read", "evaluate", "stopping"}
      BY <1>1, <1>3, <2>1, <2>5 DEF Lis!Refreshing
    <3> QED
      BY <1>4, <3>1, <3>2 DEF Settled, Lis!Tasks
  <2> QED
    BY <2>2, <2>3, <2>4, <2>5
<1>8. CASE Settled
  BY <1>1, <1>4, <1>8 DEF Settled, Lis!Tasks
<1>9. CASE \E u \in Lis!Tasks : task[u].pc = "dead"
  BY <1>1, <1>9
<1> QED
  BY <1>2, <1>5, <1>6, <1>7, <1>8, <1>9

\* A coroutine whose program counter moves.
LEMMA PcMoves ==
  ASSUME LisType, NEW t \in Lis!Tasks, NEW pc \in Pcs, NEW x, x = [task[t] EXCEPT !.pc = pc]
  PROVE  /\ x \in TaskRecords /\ x.pc = pc
         /\ x.seen = task[t].seen /\ x.at = task[t].at /\ x.old = task[t].old
BY DEF LisType, TaskRecords

\* What a coroutine knows is typed and not newer than the version.
LEMMA TaskFacts ==
  ASSUME LisInv, NEW t \in Lis!Tasks
  PROVE  /\ task[t] \in TaskRecords /\ task[t].at \in Nat /\ task[t].at <= version
         /\ task[t].seen \in SourceMaps /\ task[t].old \in Nat
<1>1. task[t] \in TaskRecords /\ version \in Nat /\ task[t].at <= version
  BY DEF LisInv, LisType, VersionsBehind
<1> QED
  BY <1>1 DEF TaskRecords

\* So does reading the sources.
LEMMA ReadKeeps ==
  ASSUME LisInv, NEW t \in Lis!Tasks, Lis!ReadSources(t) PROVE LisInv'
<1>1. LisType /\ VersionsBehind /\ StartsFirst
  BY DEF LisInv
<1>2. Lis!Visible \in SourceMaps
  BY <1>1 DEF Lis!Visible, Lis!NoSources, SourceMaps, LisType
<1>3. PICK x : x = [task[t] EXCEPT !.pc = "evaluate", !.seen = Lis!Visible, !.at = version]
  OBVIOUS
<1>4. x \in TaskRecords /\ x.pc = "evaluate" /\ x.seen = Lis!Visible /\ x.at = version
  BY <1>1, <1>2, <1>3, TaskFacts DEF LisType, TaskRecords, Pcs
<1>5. task' = [task EXCEPT ![t] = x]
  BY <1>3 DEF Lis!ReadSources
<1>6. /\ up /\ task[t].pc = "read" /\ unsignalled' = FALSE
      /\ UNCHANGED <<config, flag, version, channel, admin, up, lastVersion, applied, current, sup,
                     overlapped, stranded, missed>>
  BY DEF Lis!ReadSources, Lis!RefreshUnchanged, Lis!adminVars
<1>7. LisType' /\ VersionsBehind' /\ StartsFirst' /\ OneRefresh'
  <2>1. /\ channel' \in Seq(Nat) /\ \A i \in 1..Len(channel') : channel'[i] <= version
        /\ lastVersion' \in Nat /\ lastVersion' <= version /\ x.at <= version
    BY <1>1, <1>4, <1>6 DEF LisType, VersionsBehind
  <2>2. /\ sup' \in Seq(Listening) /\ current' \in Nat
        /\ overlapped' \in BOOLEAN /\ unsignalled' \in BOOLEAN
    BY <1>1, <1>6 DEF LisType
  <2>3. Lis!Refreshing(t)
    BY <1>6 DEF Lis!Refreshing
  <2> QED
    BY <1>4, <1>5, <1>6, <2>1, <2>2, <2>3, TaskStep
<1>8. OthersEnded'
  BY <1>1, <1>4, <1>5, <1>6, SupervisorsRest DEF LisType
<1>9. OnItsWay'
  <2>1. task'[t] = x
    BY <1>1, <1>4, <1>5, OneTaskMoves
  <2>2. Lis!Visible' = Lis!Visible
    BY <1>6 DEF Lis!Visible, Lis!NoSources, Lis!Off
  <2> QED
    BY <1>4, <2>1, <2>2 DEF OnItsWay, Underway, Lis!Tasks
<1> QED
  BY <1>7, <1>8, <1>9 DEF LisInv

\* So does comparing the configuration read with the one applied.
LEMMA EvaluateKeeps ==
  ASSUME LisInv, NEW t \in Lis!Tasks, Lis!SameFingerprint(t) \/ Lis!Reconcile(t) PROVE LisInv'
<1>1. LisType /\ VersionsBehind /\ StartsFirst /\ OneRefresh /\ OthersEnded
  BY DEF LisInv
<1>2. /\ up /\ task[t].pc = "evaluate"
      /\ UNCHANGED <<config, flag, version, channel, admin, up, lastVersion, applied, sup,
                     overlapped, stranded, missed, unsignalled>>
  BY DEF Lis!SameFingerprint, Lis!Reconcile, Lis!RefreshUnchanged, Lis!adminVars
<1>4. ASSUME NEW pc \in {"snapshot", "dead"}, task' = [task EXCEPT ![t].pc = pc],
             pc = "snapshot" => task[t].seen = applied, current' = current
      PROVE  LisInv'
  <2>0. PICK x : x = [task[t] EXCEPT !.pc = pc]
    OBVIOUS
  <2>1. /\ x \in TaskRecords /\ task' = [task EXCEPT ![t] = x]
        /\ x.pc = pc /\ x.seen = task[t].seen /\ x.at = task[t].at
    <3>1. pc \in Pcs
      BY DEF Pcs
    <3>2. task' = [task EXCEPT ![t] = x]
      BY <1>4, <2>0
    <3> QED
      BY <1>1, <2>0, <3>1, <3>2, PcMoves
  <2>2. LisType' /\ VersionsBehind' /\ StartsFirst' /\ OneRefresh'
    BY <1>1, <1>2, <1>4, <2>1, TaskStep, TaskFacts
       DEF LisType, VersionsBehind, Lis!Refreshing
  <2>3. OthersEnded'
    BY <1>1, <1>2, <1>4, <2>1, SupervisorsRest DEF LisType
  <2>4. OnItsWay'
    BY <1>2, <1>4, <2>1, StaysOnItsWay
  <2> QED
    BY <2>2, <2>3, <2>4 DEF LisInv
<1>5. ASSUME task' = [task EXCEPT ![t].pc = "stopping", ![t].old = current], current' = 0
      PROVE  LisInv'
  <2>1. PICK x : x = [task[t] EXCEPT !.pc = "stopping", !.old = current]
    OBVIOUS
  <2>2. /\ x \in TaskRecords /\ x.pc = "stopping" /\ x.old = current
        /\ x.seen = task[t].seen /\ x.at = task[t].at
    BY <1>1, <2>1, TaskFacts DEF LisType, TaskRecords, Pcs
  <2>3. task' = [task EXCEPT ![t] = x]
    BY <1>5, <2>1
  <2>4. LisType' /\ VersionsBehind' /\ StartsFirst' /\ OneRefresh'
    BY <1>1, <1>2, <1>5, <2>2, <2>3, TaskStep, TaskFacts
       DEF LisType, VersionsBehind, Lis!Refreshing
  <2>5. OthersEnded'
    <3>1. /\ task'[t] = x /\ \A u \in Lis!Tasks \ {t} : task'[u] = task[u]
      BY <1>1, <2>2, <2>3, OneTaskMoves
    <3> SUFFICES ASSUME ~overlapped, stranded = {}, NEW i \in 1..Len(sup)
                 PROVE  \/ Lis!Live(i) = {}
                        \/ \E u \in Lis!Tasks : task'[u].pc = "stopping" /\ task'[u].old = i
      BY <1>2 DEF OthersEnded, Lis!Live, Lis!Tasks
    <3> QED
      BY <1>1, <1>2, <2>2, <3>1 DEF OthersEnded
  <2>6. OnItsWay'
    BY <1>2, <2>2, <2>3, StaysOnItsWay
  <2> QED
    BY <2>4, <2>5, <2>6 DEF LisInv
<1>6. CASE Lis!SameFingerprint(t)
  BY <1>4, <1>6 DEF Lis!SameFingerprint, Lis!Unchanged
<1>7. CASE Lis!Reconcile(t)
  BY <1>4, <1>5, <1>7 DEF Lis!Reconcile
<1> QED
  BY <1>6, <1>7

\* _stop_supervisor and the start of the new listeners.
LEMMA RestartKeeps ==
  ASSUME LisInv, NEW t \in Lis!Tasks, Lis!Restart(t) PROVE LisInv'
<1>1. LisType /\ VersionsBehind /\ StartsFirst /\ OneRefresh /\ OthersEnded
  BY DEF LisInv
<1>2. /\ up /\ task[t].pc = "stopping" /\ applied' = task[t].seen
      /\ UNCHANGED <<config, flag, version, channel, admin, up, lastVersion, overlapped, stranded, missed,
                     unsignalled>>
      /\ task' = [task EXCEPT ![t].pc = "snapshot", ![t].old = 0]
      /\ \/ sup' = Lis!SupAfterStop(t) /\ current' = current
         \/ /\ sup' = Append(Lis!SupAfterStop(t), Lis!NewSupervisor(task[t].seen))
            /\ current' = Len(sup) + 1
  BY DEF Lis!Restart, Lis!RefreshUnchanged, Lis!adminVars
<1>3. PICK x : x = [task[t] EXCEPT !.pc = "snapshot", !.old = 0]
  OBVIOUS
<1>4. x \in TaskRecords /\ x.pc = "snapshot" /\ x.seen = task[t].seen /\ x.at = task[t].at
  BY <1>1, <1>3, TaskFacts DEF LisType, TaskRecords, Pcs
<1>5. task' = [task EXCEPT ![t] = x]
  BY <1>2, <1>3
<1>6. PICK old \in Nat : old = task[t].old
  BY TaskFacts
<1>7. PICK s : s = Lis!SupAfterStop(t)
  OBVIOUS
<1>8. PICK none : none = [b \in Bindings |-> "none"]
  OBVIOUS
<1>9. s = IF old = 0 THEN sup ELSE [sup EXCEPT ![old] = none]
  BY <1>6, <1>7, <1>8 DEF Lis!SupAfterStop
<1>10. /\ s \in Seq(Listening) /\ Len(s) = Len(sup)
       /\ \A i \in 1..Len(sup) : s[i] = IF i = old THEN none ELSE sup[i]
  <2>1. none \in Listening
    BY <1>8 DEF Listening
  <2>2. sup \in Seq(Listening)
    BY <1>1 DEF LisType
  <2>3. CASE old \in 1..Len(sup)
    <3>1. s = [sup EXCEPT ![old] = none]
      BY <1>9, <2>3
    <3>2. s \in Seq(Listening)
      BY <2>1, <2>2, <2>3, <3>1
    <3> QED
      BY <2>2, <2>3, <3>1, <3>2
  <2>4. CASE old \notin 1..Len(sup)
    <3>1. s = sup
      BY <1>9, <2>2, <2>4
    <3> QED
      BY <2>2, <2>4, <3>1
  <2> QED
    BY <2>3, <2>4
<1>11. PICK new : new = Lis!NewSupervisor(task[t].seen)
  OBVIOUS
<1>12. new \in Listening
  BY <1>11 DEF Lis!NewSupervisor, Listening
<1>13. \/ sup' = s /\ current' = current
       \/ sup' = Append(s, new) /\ current' = Len(sup) + 1
  BY <1>2, <1>7, <1>11
<1>14. sup' \in Seq(Listening) /\ current' \in Nat
  <2>1. sup \in Seq(Listening) /\ current \in Nat
    BY <1>1 DEF LisType
  <2>2. Append(s, new) \in Seq(Listening) /\ Len(sup) + 1 \in Nat
    BY <1>10, <1>12, <2>1
  <2> QED
    BY <1>10, <1>13, <2>1, <2>2
<1>15. LisType' /\ VersionsBehind' /\ StartsFirst' /\ OneRefresh'
  BY <1>1, <1>2, <1>4, <1>5, <1>14, TaskStep, TaskFacts DEF LisType, VersionsBehind, Lis!Refreshing
<1>16. OthersEnded'
  <2> SUFFICES ASSUME ~overlapped, stranded = {}, NEW i \in 1..Len(sup')
               PROVE  Lis!Live(i)' = {} \/ i = current'
    BY <1>2 DEF OthersEnded
  <2>1. \A u \in Lis!Tasks : task[u].pc = "stopping" => u = t
    BY <1>1, <1>2 DEF OneRefresh, Lis!Refreshing
  <2>2. current = 0
    BY <1>1, <1>2 DEF OneRefresh
  <2>3. \A k \in 1..Len(sup) : k # old => Lis!Live(k) = {}
    BY <1>1, <1>6, <2>1, <2>2 DEF OthersEnded
  <2>4. CASE i \in 1..Len(sup)
    <3>1. sup'[i] = IF i = old THEN none ELSE sup[i]
      BY <1>10, <1>13, <2>4
    <3>2. CASE i = old
      BY <1>8, <3>1, <3>2 DEF Lis!Live
    <3>3. CASE i # old
      BY <2>3, <2>4, <3>1, <3>3 DEF Lis!Live
    <3> QED
      BY <3>2, <3>3
  <2>5. CASE i \notin 1..Len(sup)
    BY <1>10, <1>13, <2>5
  <2> QED
    BY <2>4, <2>5
<1>17. OnItsWay'
  BY <1>2, <1>4, <1>5, StaysOnItsWay
<1> QED
  BY <1>15, <1>16, <1>17 DEF LisInv

\* The end of a refresh, a refresh that raises, and the start of the subscription.
LEMMA EndKeeps ==
  ASSUME LisInv, NEW t \in Lis!Tasks, Lis!WriteSnapshot(t) \/ Lis!RefreshRaises(t) PROVE LisInv'
<1>1. LisType /\ VersionsBehind /\ StartsFirst /\ OneRefresh /\ OthersEnded
  BY DEF LisInv
<1>2. /\ up
      /\ UNCHANGED <<config, flag, version, channel, admin, up, lastVersion, applied, current, sup,
                     overlapped, stranded, missed, unsignalled>>
  BY DEF Lis!WriteSnapshot, Lis!RefreshRaises, Lis!RefreshUnchanged, Lis!adminVars
<1>3. CASE Lis!WriteSnapshot(t)
  <2>1. PICK x : x = [Lis!Resting EXCEPT !.pc = Lis!NextPc(t),
                                        !.at = IF t = "main" THEN task[t].at ELSE 0]
    OBVIOUS
  <2>2. /\ x \in TaskRecords /\ x.pc = Lis!NextPc(t)
        /\ x.at = IF t = "main" THEN task[t].at ELSE 0
    <3>1. task[t].at \in Nat /\ Lis!NoSources \in SourceMaps /\ Lis!NextPc(t) \in Pcs
      BY TaskFacts DEF Lis!NoSources, SourceMaps, Lis!NextPc, Pcs
    <3> QED
      BY <2>1, <3>1 DEF Lis!Resting, TaskRecords
  <2>3. x.pc = (IF t = "main" THEN "version" ELSE "idle") /\ x.at <= version
    BY <1>1, <2>2, TaskFacts DEF Lis!NextPc, LisType
  <2>4. task' = [task EXCEPT ![t] = x] /\ task[t].pc = "snapshot"
    BY <1>3, <2>1 DEF Lis!WriteSnapshot
  <2>5. LisType' /\ VersionsBehind' /\ StartsFirst' /\ OneRefresh'
    BY <1>1, <1>2, <2>2, <2>3, <2>4, TaskStep DEF LisType, VersionsBehind, RefreshPcs
  <2>6. OthersEnded'
    BY <1>1, <1>2, <2>2, <2>4, SupervisorsRest DEF LisType
  <2>7. OnItsWay'
    BY <1>2, <2>2, <2>3, <2>4, StaysOnItsWay
  <2> QED
    BY <2>5, <2>6, <2>7 DEF LisInv
<1>4. CASE Lis!RefreshRaises(t)
  <2>1. PICK x : x = [task[t] EXCEPT !.pc = "dead"]
    OBVIOUS
  <2>2. x \in TaskRecords /\ x.pc = "dead" /\ x.at = task[t].at
    BY <1>1, <2>1, PcMoves DEF Pcs
  <2>3. /\ task' = [task EXCEPT ![t] = x]
        /\ task[t].pc \in {"read", "snapshot", "version", "subscribing", "idle"}
    BY <1>4, <2>1 DEF Lis!RefreshRaises
  <2>4. LisType' /\ VersionsBehind' /\ StartsFirst' /\ OneRefresh'
    BY <1>1, <1>2, <2>2, <2>3, TaskStep, TaskFacts DEF LisType, VersionsBehind, RefreshPcs
  <2>5. OthersEnded'
    BY <1>1, <1>2, <2>2, <2>3, SupervisorsRest DEF LisType
  <2>6. OnItsWay'
    <3>1. task'[t] = x
      BY <1>1, <2>2, <2>3, OneTaskMoves
    <3> QED
      BY <2>2, <3>1 DEF OnItsWay, Lis!Tasks
  <2> QED
    BY <2>4, <2>5, <2>6 DEF LisInv
<1> QED
  BY <1>3, <1>4

\* _stop_supervisor raises: the coroutine is dead and its supervisor stranded.
LEMMA StopRaisesKeeps ==
  ASSUME LisInv, NEW t \in Lis!Tasks, Lis!StopRaises(t) PROVE LisInv'
<1>1. LisType /\ VersionsBehind /\ StartsFirst /\ OneRefresh
  BY DEF LisInv
<1>2. PICK old \in Nat : old = task[t].old
  BY TaskFacts
<1>3. /\ up /\ task[t].pc = "stopping"
      /\ task' = [task EXCEPT ![t].pc = "dead"] /\ stranded' = stranded \cup {old}
      /\ UNCHANGED <<config, flag, version, channel, admin, up, lastVersion, applied, current,
                     overlapped, missed, unsignalled>>
  BY <1>2 DEF Lis!StopRaises, Lis!adminVars
<1>4. PICK left \in SUBSET Lis!Live(old) :
        sup' = [sup EXCEPT ![old] = [b \in Bindings |-> IF b \in left THEN sup[old][b] ELSE "none"]]
  BY <1>2 DEF Lis!StopRaises
<1>5. PICK x : x = [task[t] EXCEPT !.pc = "dead"]
  OBVIOUS
<1>6. x \in TaskRecords /\ x.pc = "dead" /\ x.at = task[t].at
  BY <1>1, <1>5, PcMoves DEF Pcs
<1>7. task' = [task EXCEPT ![t] = x]
  BY <1>3, <1>5
<1>8. sup' \in Seq(Listening)
  <2>1. PICK s : s = [b \in Bindings |-> IF b \in left THEN sup[old][b] ELSE "none"]
    OBVIOUS
  <2>2. sup' = [sup EXCEPT ![old] = s]
    BY <1>4, <2>1
  <2>3. sup \in Seq(Listening)
    BY <1>1 DEF LisType
  <2>4. s \in Listening
    <3>1. \A b \in left : sup[old][b] \in {"connecting", "up"}
      BY DEF Lis!Live
    <3> QED
      BY <2>1, <3>1 DEF Listening
  <2>5. CASE old \in 1..Len(sup)
    BY <2>2, <2>3, <2>4, <2>5
  <2>6. CASE old \notin 1..Len(sup)
    <3>1. DOMAIN sup = 1..Len(sup)
      BY <2>3
    <3>2. sup' = sup
      BY <2>2, <2>3, <2>6, <3>1
    <3> QED
      BY <2>3, <3>2
  <2> QED
    BY <2>5, <2>6
<1>9. current' \in Nat /\ overlapped' \in BOOLEAN /\ unsignalled' \in BOOLEAN
  BY <1>1, <1>3 DEF LisType
<1>10. LisType' /\ VersionsBehind' /\ StartsFirst' /\ OneRefresh'
  BY <1>1, <1>3, <1>6, <1>7, <1>8, <1>9, TaskStep, TaskFacts
     DEF LisType, VersionsBehind, RefreshPcs
<1>11. OthersEnded'
  BY <1>3 DEF OthersEnded
<1>12. OnItsWay'
  <2>1. task'[t] = x
    BY <1>1, <1>6, <1>7, OneTaskMoves
  <2> QED
    BY <1>6, <2>1 DEF OnItsWay, Lis!Tasks
<1> QED
  BY <1>10, <1>11, <1>12 DEF LisInv

\* _pubsub_loop and _poll_loop
LEMMA BeginKeeps ==
  ASSUME LisInv, Lis!Poll \/ Lis!PubSub \/ Lis!Subscribe PROVE LisInv'
<1>1. LisType /\ VersionsBehind /\ StartsFirst /\ OneRefresh /\ OthersEnded
  BY DEF LisInv
<1>2. ASSUME NEW t \in {"poll", "pubsub"}, NEW v \in Nat, v <= version, Lis!Begin(t, v), up,
             task[t].pc = "idle", channel' \in Seq(Nat),
             \A i \in 1..Len(channel') : channel'[i] <= version
      PROVE  LisInv'
  <2>0. t \in Lis!Tasks
    BY TasksAre
  <2>1. PICK x : x = [task[t] EXCEPT !.pc = "read"]
    OBVIOUS
  <2>2. x \in TaskRecords /\ x.pc = "read" /\ x.at = task[t].at
    BY <1>1, <2>0, <2>1, PcMoves DEF Pcs
  <2>3. /\ task' = [task EXCEPT ![t] = x] /\ lastVersion' = v
        /\ overlapped' = (overlapped \/ Lis!AnyRefresh)
        /\ UNCHANGED <<config, flag, version, admin, up, applied, current, sup, stranded, missed,
                       unsignalled>>
    BY <1>2, <2>1 DEF Lis!Begin
  <2>4. overlapped' \in BOOLEAN /\ overlapped \in BOOLEAN /\ (overlapped => overlapped')
    BY <1>1, <2>3 DEF LisType
  <2>5. LisType' /\ VersionsBehind' /\ StartsFirst' /\ OneRefresh'
    <3>1. sup' \in Seq(Listening) /\ current' \in Nat /\ unsignalled' \in BOOLEAN
      BY <1>1, <2>3 DEF LisType
    <3>2. x.at <= version
      BY <2>0, <2>2, TaskFacts
    <3>3. ~overlapped' => ~Lis!AnyRefresh
      BY <2>3
    <3> QED
      BY <1>2, <2>0, <2>2, <2>3, <2>4, <3>1, <3>2, <3>3, TaskStep
  <2>6. OthersEnded'
    BY <1>2, <2>0, <2>2, <2>3, <2>4, SupervisorsRest
  <2>7. OnItsWay'
    <3>1. task'[t] = x
      BY <1>1, <2>0, <2>2, <2>3, OneTaskMoves
    <3> QED
      BY <2>0, <2>2, <3>1 DEF OnItsWay, Unread, Lis!Tasks
  <2> QED
    BY <2>5, <2>6, <2>7 DEF LisInv
<1>3. CASE Lis!Poll
  BY <1>1, <1>2, <1>3 DEF Lis!Poll, LisType, VersionsBehind
<1>4. CASE Lis!PubSub
  <2>1. channel \in Seq(Nat) /\ channel # << >> /\ channel' = Tail(channel)
    BY <1>1, <1>4 DEF Lis!PubSub, LisType
  <2>2. Head(channel) \in Nat /\ Head(channel) <= version
    BY <1>1, <2>1 DEF VersionsBehind
  <2>3. channel' \in Seq(Nat) /\ \A i \in 1..Len(channel') : channel'[i] <= version
    BY <1>1, <2>1 DEF VersionsBehind
  <2> QED
    BY <1>2, <1>4, <2>2, <2>3 DEF Lis!PubSub
<1>5. CASE Lis!Subscribe
  <2>0. "pubsub" \in Lis!Tasks
    BY TasksAre
  <2>1. PICK x : x = [task["pubsub"] EXCEPT !.pc = "idle"]
    OBVIOUS
  <2>2. x \in TaskRecords /\ x.pc = "idle" /\ x.at = task["pubsub"].at
    BY <1>1, <2>0, <2>1, PcMoves DEF Pcs
  <2>3. /\ up /\ task' = [task EXCEPT !["pubsub"] = x] /\ task["pubsub"].pc = "subscribing"
        /\ UNCHANGED <<config, flag, version, channel, admin, up, lastVersion, applied, current,
                       sup, overlapped, stranded, missed, unsignalled>>
    BY <1>5, <2>1 DEF Lis!Subscribe, Lis!RefreshUnchanged, Lis!adminVars
  <2>4. LisType' /\ VersionsBehind' /\ StartsFirst' /\ OneRefresh'
    BY <1>1, <2>0, <2>2, <2>3, TaskStep, TaskFacts DEF LisType, VersionsBehind, RefreshPcs
  <2>5. OthersEnded'
    BY <1>1, <2>0, <2>2, <2>3, SupervisorsRest DEF LisType
  <2>6. OnItsWay'
    BY <2>0, <2>2, <2>3, StaysOnItsWay
  <2> QED
    BY <2>4, <2>5, <2>6 DEF LisInv
<1> QED
  BY <1>3, <1>4, <1>5

\* run_forever: start-up, the start of the loops and the exit of the process
LEMMA LifecycleKeeps ==
  ASSUME LisInv, Lis!Boot \/ Lis!StartLoops \/ Lis!Exit PROVE LisInv'
<1>1. LisType /\ VersionsBehind /\ StartsFirst /\ OneRefresh /\ OthersEnded /\ OnItsWay
  BY DEF LisInv
<1>2. Lis!NoSources \in SourceMaps
  BY DEF Lis!NoSources, SourceMaps
<1>3. Lis!Resting \in TaskRecords /\ Lis!Resting.pc = "off" /\ Lis!Resting.at = 0
  BY <1>2 DEF Lis!Resting, TaskRecords, Pcs
<1>4. \A pc \in Pcs : /\ [Lis!Resting EXCEPT !.pc = pc] \in TaskRecords
                      /\ [Lis!Resting EXCEPT !.pc = pc].pc = pc
                      /\ [Lis!Resting EXCEPT !.pc = pc].at = 0
  BY <1>3 DEF TaskRecords
<1>5. CASE Lis!Boot
  <2>1. /\ up' = TRUE /\ lastVersion' = version /\ current' = 0 /\ sup' = << >>
        /\ overlapped' = FALSE /\ stranded' = {} /\ missed' = FALSE
        /\ UNCHANGED <<config, flag, version, channel, admin, unsignalled>>
    BY <1>5 DEF Lis!Boot, Lis!adminVars
  <2>2. task' = [t \in Lis!Tasks |-> IF t = "main" THEN [Lis!Resting EXCEPT !.pc = "read"]
                                                   ELSE Lis!Resting]
    BY <1>5 DEF Lis!Boot
  <2>3. "read" \in Pcs
    BY DEF Pcs
  <2>4. /\ task' \in [Lis!Tasks -> TaskRecords]
        /\ \A t \in Lis!Tasks : /\ task'[t].pc = (IF t = "main" THEN "read" ELSE "off")
                                /\ task'[t].at = 0
    BY <1>3, <1>4, <2>2, <2>3
  <2>5. sup' \in Seq(Listening) /\ Len(sup') = 0
    BY <2>1
  <2>6. LisType'
    BY <1>1, <2>1, <2>4, <2>5 DEF LisType, Lis!Tasks
  <2>7. VersionsBehind' /\ StartsFirst'
    BY <1>1, <2>1, <2>4, TasksAre DEF LisType, VersionsBehind, StartsFirst, Lis!Tasks
  <2>8. OneRefresh' /\ OthersEnded'
    BY <2>4, <2>5 DEF OneRefresh, OthersEnded, Lis!Refreshing, Lis!Tasks
  <2>9. OnItsWay'
    BY <2>4, TasksAre DEF OnItsWay, Unread, Lis!Tasks
  <2> QED
    BY <2>6, <2>7, <2>8, <2>9 DEF LisInv
<1>6. CASE Lis!StartLoops
  <2>1. /\ up /\ task["main"].pc = "version" /\ lastVersion' = version
        /\ missed' = (version # task["main"].at)
        /\ UNCHANGED <<config, flag, version, channel, admin, up, applied, current, sup,
                       overlapped, stranded, unsignalled>>
    BY <1>6 DEF Lis!StartLoops, Lis!adminVars
  <2>2. /\ task' \in [Lis!Tasks -> TaskRecords]
        /\ \A t \in Lis!Tasks :
             /\ task'[t].pc = CASE t = "main" -> "watch" [] t = "poll" -> "idle"
                                [] t = "pubsub" -> "subscribing"
             /\ task'[t].at = 0
    BY <1>4, <1>6, TasksAre DEF Lis!StartLoops, Pcs
  <2>3. /\ task'["main"].pc = "watch" /\ task'["poll"].pc = "idle"
        /\ task'["pubsub"].pc = "subscribing"
    BY <2>2, TasksAre
  <2>4. \A t \in Lis!Tasks : /\ task'[t].pc \in {"watch", "idle", "subscribing"}
                             /\ ~Lis!Refreshing(t)
    BY <1>1, <2>1, <2>3, TasksAre DEF StartsFirst, Lis!Refreshing
  <2>5. missed' \in BOOLEAN
    BY <2>1
  <2>6. LisType'
    BY <1>1, <2>1, <2>2, <2>5 DEF LisType, Lis!Tasks
  <2>7. VersionsBehind'
    BY <1>1, <2>1, <2>2 DEF LisType, VersionsBehind, Lis!Tasks
  <2>8. StartsFirst'
    BY <2>3 DEF StartsFirst
  <2>9. OneRefresh' /\ OthersEnded'
    BY <1>1, <2>1, <2>4 DEF OneRefresh, OthersEnded, Lis!Refreshing, Lis!Live, Lis!Tasks
  <2>10. OnItsWay'
    <3> SUFFICES ASSUME ~overlapped, version = task["main"].at, ~unsignalled
                 PROVE  Settled'
      BY <2>1 DEF OnItsWay
    <3>1. ~missed /\ ~Behind
      BY <1>1, <2>1 DEF StartsFirst, Behind
    <3>2. Settled
      BY <1>1, <2>1, <3>1, TasksAre DEF OnItsWay, StartsFirst, Unread, Underway
    <3> QED
      BY <2>1, <2>4, <3>2 DEF Settled, Lis!Visible, Lis!NoSources, Lis!Off, Lis!Tasks
  <2> QED
    BY <2>6, <2>7, <2>8, <2>9, <2>10 DEF LisInv
<1>7. CASE Lis!Exit
  <2>1. /\ up' = FALSE /\ current' = 0 /\ sup' = << >> /\ channel' = << >>
        /\ task' = [t \in Lis!Tasks |-> Lis!Resting]
        /\ UNCHANGED <<config, flag, version, admin, lastVersion, overlapped, stranded, missed, unsignalled>>
    BY <1>7 DEF Lis!Exit
  <2>2. /\ task' \in [Lis!Tasks -> TaskRecords]
        /\ \A t \in Lis!Tasks : task'[t].pc = "off" /\ task'[t].at = 0
    BY <1>3, <2>1
  <2>3. sup' \in Seq(Listening) /\ Len(sup') = 0 /\ channel' \in Seq(Nat) /\ Len(channel') = 0
    BY <2>1
  <2>4. LisType'
    BY <1>1, <2>1, <2>2, <2>3 DEF LisType, Lis!Tasks
  <2>5. VersionsBehind' /\ StartsFirst'
    BY <1>1, <2>1, <2>2, <2>3, TasksAre DEF LisType, VersionsBehind, StartsFirst, Lis!Tasks
  <2>6. OneRefresh' /\ OthersEnded' /\ OnItsWay'
    BY <2>1, <2>2, <2>3 DEF OneRefresh, OthersEnded, OnItsWay, Lis!Refreshing, Lis!Tasks
  <2> QED
    BY <2>4, <2>5, <2>6 DEF LisInv
<1> QED
  BY <1>5, <1>6, <1>7

\* The coordinator keeps its invariant.
LEMMA LisInvariant ==
  ASSUME Lis!Constants PROVE Lis!Spec => []LisInv
<1>1. Lis!Init => LisInv
  BY LisInitInv
<1>2. LisInv /\ [Lis!Next]_Lis!listenerVars => LisInv'
  <2> SUFFICES ASSUME LisInv, [Lis!Next]_Lis!listenerVars PROVE LisInv'
    OBVIOUS
  <2>1. CASE UNCHANGED Lis!listenerVars
    BY <2>1 DEF Lis!listenerVars, LisInv, LisType, VersionsBehind, StartsFirst, OneRefresh,
       OthersEnded, OnItsWay, Behind, Unread, Underway, Settled, Lis!Refreshing, Lis!Live,
       Lis!Visible, Lis!NoSources, Lis!Off, Lis!Tasks
  <2> QED
    BY <2>1, AdminKeeps, ListenersKeep, ReadKeeps, EvaluateKeeps, RestartKeeps, StopRaisesKeeps,
       EndKeeps, BeginKeeps, LifecycleKeeps DEF Lis!Next
<1> QED
  BY <1>1, <1>2, PTL DEF Lis!Spec

\* A listener process that rests has applied the enabled sources, for any number of sources,
\* accounts, changes, restarts and failures, unless refreshes overlapped, a signal fell between
\* the start-up refresh and the version read, or a change still waits for a signal: the flag, the
\* bootstrap job, an approved suggestion, or a request that ended before its INCR
\* (listener_refresh.py, refresh and run_forever).
THEOREM SignalledIsApplied == ASSUME Lis!Constants PROVE Lis!Spec => []QuietIsApplied
BY LisInvariant, LisInvSafe, PTL DEF QuietIsApplied

\* No session is held by live listeners of two supervisors, across every restart, unless
\* refreshes overlapped or a stop raised (listener_refresh.py, _stop_supervisor).
THEOREM OneClientPerSession ==
  ASSUME Lis!Constants PROVE Lis!Spec => []OneClientWithoutOverlap
BY LisInvariant, LisInvSafe, PTL DEF OneClientWithoutOverlap
=============================================================================
