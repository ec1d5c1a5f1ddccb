-------------------------- MODULE ListenerRefresh --------------------------
(***************************************************************************)
(* The listener process: TelegramListenerCoordinator with its pub/sub and  *)
(* poll loops, the TelegramListenerSupervisor it replaces on a refresh,    *)
(* one TelegramAccountListener per (adapter, session), the account pool    *)
(* (ListenerAssignmentService, in memory in this process), and the admin   *)
(* API that edits the sources and signals a refresh through Redis          *)
(* (services/listener_refresh.py, listener_pool.py, telegram_listener.py). *)
(*                                                                         *)
(* refresh() is a coroutine: it suspends at the read of the sources, while *)
(* the old supervisor stops and at the topology write, and the two loops   *)
(* call it without a lock.                                                 *)
(***************************************************************************)
EXTENDS Naturals, Sequences, FiniteSets, SequencesExt

CONSTANTS Sources, Accounts,
          Bindings,       \* the pairs <<adapter, session>>; a session is an account of the pool
          InitialSources, \* the configurations the process may start from
          MaxChanges,   \* bound: admin changes
          MaxStarts,    \* bound: supervisors created
          MaxFaults     \* bound: listener failures and failing calls

VARIABLES
  config,       \* ingestion_sources: the binding of each enabled source
  flag,         \* the listener_sources feature flag
  version,      \* the refresh version in Redis
  channel,      \* published versions the subscription has not handed over yet
  admin,        \* the admin request: "idle", "incr" or "publish"
  up,           \* the process runs
  task,         \* the coroutines "main", "pubsub", "poll": [pc, seen, at]
  lastVersion,  \* _last_refresh_version
  applied,      \* _last_fingerprint
  current,      \* _supervisor and _supervisor_task: an index of sup, or 0
  sup,          \* supervisors created by this process
  health,       \* listener account health
  assigned,     \* active channel assignments
  snapshot,     \* the groups of the topology snapshot in Redis
  changes, starts, faults,
  overlapped,   \* history: two refreshes were in flight at once
  stranded,     \* history: the supervisors that could not be stopped and were let go of
  missed,       \* history: the version read at startup skipped a signal
  unsignalled   \* history: sources or flag changed, were not read, and no signal followed

listenerVars == <<config, flag, version, channel, admin, up, task, lastVersion, applied, current,
                  sup, health, assigned, snapshot, changes, starts, faults, overlapped, stranded,
                  missed, unsignalled>>
adminVars == <<config, flag, version, channel, admin, changes>>

Off == <<>>
Session(b) == b[2]
Tasks == {"main", "pubsub", "poll"}
Constants ==
  /\ \A b \in Bindings : Session(b) \in Accounts
  /\ InitialSources \subseteq [Sources -> Bindings \cup {Off}]

NoSources == [s \in Sources |-> Off]
Never == [s \in Sources |-> <<"never">>]  \* the fingerprint ""
Resting == [pc |-> "off", seen |-> NoSources, at |-> 0, old |-> 0]
Assignable == {a \in Accounts : health[a] = "online"}

Init ==
  /\ config \in InitialSources /\ flag = TRUE
  /\ version = 0 /\ channel = <<>> /\ admin = "idle"
  /\ up = FALSE
  /\ task = [t \in Tasks |-> Resting]
  /\ lastVersion = 0 /\ applied = Never /\ current = 0
  /\ sup = <<>>
  /\ health = [a \in Accounts |-> "online"]
  /\ assigned = NoSources
  /\ snapshot = {}
  /\ changes = 0 /\ starts = 0 /\ faults = 0
  /\ overlapped = FALSE /\ stranded = {} /\ missed = FALSE /\ unsignalled = FALSE

(***************************************************************************)
(* The writers.  POST /admin/sources/enable commits the row, then INCRs    *)
(* the version and PUBLISHes it, and a failing Redis or a crash may fall   *)
(* before either command.  The bootstrap job and the approval of a source  *)
(* suggestion write rows, POST /admin/release/flags the flag, and signal   *)
(* nobody.                                                                 *)
(***************************************************************************)
CreateOrEnableSource(s, b) ==
  /\ config' = [config EXCEPT ![s] = b]
  /\ unsignalled' = TRUE

EnableSource ==
  /\ admin = "idle" /\ changes < MaxChanges
  /\ \E s \in Sources, b \in Bindings : CreateOrEnableSource(s, b)
  /\ admin' = "incr" /\ changes' = changes + 1
  /\ UNCHANGED <<flag, version, channel, up, task, lastVersion, applied, current, sup, health,
                 assigned, snapshot, starts, faults, overlapped, stranded, missed>>

\* bootstrap_sources, and SourceSuggestionService.approve
Bootstrap ==
  /\ changes < MaxChanges
  /\ \E s \in Sources, b \in Bindings : CreateOrEnableSource(s, b)
  /\ changes' = changes + 1
  /\ UNCHANGED <<flag, version, channel, admin, up, task, lastVersion, applied, current, sup,
                 health, assigned, snapshot, starts, faults, overlapped, stranded, missed>>

\* POST /admin/listeners/refresh, and the endpoints that signal without touching a source
RequestRefresh ==
  /\ admin = "idle" /\ changes < MaxChanges
  /\ admin' = "incr" /\ changes' = changes + 1
  /\ UNCHANGED <<config, flag, version, channel, up, task, lastVersion, applied, current, sup,
                 health, assigned, snapshot, starts, faults, overlapped, stranded, missed,
                 unsignalled>>

SetListenerFlag ==
  /\ changes < MaxChanges
  /\ flag' = ~flag /\ unsignalled' = TRUE /\ changes' = changes + 1
  /\ UNCHANGED <<config, version, channel, admin, up, task, lastVersion, applied, current, sup,
                 health, assigned, snapshot, starts, faults, overlapped, stranded, missed>>

\* RedisListenerRefreshStore.signal: two commands
Incr ==
  /\ admin = "incr"
  /\ version' = version + 1 /\ admin' = "publish" /\ unsignalled' = FALSE
  /\ UNCHANGED <<config, flag, channel, up, task, lastVersion, applied, current, sup, health,
                 assigned, snapshot, changes, starts, faults, overlapped, stranded, missed>>
Subscribed == up /\ task["pubsub"].pc \notin {"off", "subscribing", "dead"}
PublishVersion ==
  /\ admin = "publish" /\ admin' = "idle"
  /\ channel' = IF Subscribed THEN Append(channel, version) ELSE channel
  /\ UNCHANGED <<config, flag, version, up, task, lastVersion, applied, current, sup, health,
                 assigned, snapshot, changes, starts, faults, overlapped, stranded, missed,
                 unsignalled>>
\* the request ends before one of the two commands
SignalFails ==
  /\ admin \in {"incr", "publish"} /\ faults < MaxFaults
  /\ admin' = "idle" /\ faults' = faults + 1
  /\ UNCHANGED <<config, flag, version, channel, up, task, lastVersion, applied, current, sup,
                 health, assigned, snapshot, changes, starts, overlapped, stranded, missed,
                 unsignalled>>

(***************************************************************************)
(* The pool.  reconcile releases the assignments of sources that went away *)
(* and of accounts that are not assignable, then gives every unassigned    *)
(* source to the least loaded assignable account, in source order, and     *)
(* raises NoHealthyListenerAccountError when there is none.                *)
(***************************************************************************)
Load(f, a) == Cardinality({s \in Sources : f[s] = a})
SelectAccount(f) ==
  CHOOSE a \in Assignable : \A b \in Assignable : Load(f, a) <= Load(f, b)
Released(seen) ==
  [s \in Sources |-> IF seen[s] = Off \/ assigned[s] \notin Assignable THEN Off ELSE assigned[s]]
Unassigned(f, seen) == {s \in Sources : seen[s] # Off /\ f[s] = Off}
NoHealthyAccount(seen) == Assignable = {} /\ Unassigned(Released(seen), seen) # {}
Reconciled(seen) ==
  LET f == Released(seen) IN
  IF NoHealthyAccount(seen) THEN f
  ELSE FoldSeq(LAMBDA s, g : [g EXCEPT ![s] = SelectAccount(g)], f, SetToSeq(Unassigned(f, seen)))

\* ALLOWED_HEALTH_TRANSITIONS: nothing leaves "banned".
MayTurn(from, to) ==
  \/ from \in {"online", "reconnecting", "flood_wait"}
  \/ from = "disabled" /\ to \in {"online", "disabled"}
  \/ from = to
TransitionHealth(a, to) ==
  health' = IF MayTurn(health[a], to) THEN [health EXCEPT ![a] = to] ELSE health

(***************************************************************************)
(* One listener per (adapter, session): _build_listeners.  Two adapters on *)
(* one session have a client each.  A supervisor's task is done when all   *)
(* of its listeners have ended: gather waits for the last one.             *)
(***************************************************************************)
Groups(seen) == {seen[s] : s \in Sources} \ {Off}
NewSupervisor(seen) == [b \in Bindings |-> IF b \in Groups(seen) THEN "connecting" ELSE "none"]
Live(i) == {b \in Bindings : sup[i][b] \in {"connecting", "up"}}
TaskDone(i) == Live(i) = {}

ListenerUnchanged == UNCHANGED <<adminVars, up, task, lastVersion, applied, current, assigned,
                                 snapshot, starts, overlapped, stranded, missed, unsignalled>>
ListenerConnects(i, b) ==
  /\ up /\ sup[i][b] = "connecting"
  /\ sup' = [sup EXCEPT ![i][b] = IF MayTurn(health[Session(b)], "online") THEN "up" ELSE "ended"]
  /\ TransitionHealth(Session(b), "online")
  /\ UNCHANGED faults /\ ListenerUnchanged

\* handle_update: the message is published, then record_successful_event puts the account
\* online, also when another listener of its session was refused meanwhile; it raises for a
\* banned one.  A listener that was asked to stop handles no message.
ListenerReceives(i, b) ==
  /\ up /\ sup[i][b] = "up" /\ i \notin stranded
  /\ sup' = [sup EXCEPT ![i][b] = IF MayTurn(health[Session(b)], "online") THEN "up" ELSE "ended"]
  /\ TransitionHealth(Session(b), "online")
  /\ UNCHANGED faults /\ ListenerUnchanged

\* TelegramFloodWaitError, TelegramAuthorizationError, TelegramConnectionError
ListenerFails(i, b, to) ==
  /\ up /\ b \in Live(i) /\ faults < MaxFaults
  /\ faults' = faults + 1
  /\ sup' = [sup EXCEPT ![i][b] = "ended"]
  /\ TransitionHealth(Session(b), to)
  /\ ListenerUnchanged

(***************************************************************************)
(* The coordinator.                                                        *)
(***************************************************************************)
Visible == IF flag THEN config ELSE NoSources
Refreshing(t) == task[t].pc \in {"read", "evaluate", "stopping", "snapshot"}
AnyRefresh == \E t \in Tasks : Refreshing(t)
NextPc(t) == IF t = "main" THEN "version" ELSE "idle"

Boot ==
  /\ ~up /\ up' = TRUE
  /\ task' = [t \in Tasks |-> IF t = "main" THEN [Resting EXCEPT !.pc = "read"] ELSE Resting]
  /\ lastVersion' = version /\ applied' = Never /\ current' = 0 /\ sup' = <<>>
  /\ health' = [a \in Accounts |-> "online"] /\ assigned' = NoSources
  /\ overlapped' = FALSE /\ stranded' = {} /\ missed' = FALSE
  /\ UNCHANGED <<adminVars, snapshot, starts, faults, unsignalled>>

RefreshUnchanged == UNCHANGED <<adminVars, up, stranded, missed>>

\* list_active_sources through the FeatureGatedSourceProvider
ReadSources(t) ==
  /\ up /\ task[t].pc = "read"
  /\ task' = [task EXCEPT ![t].pc = "evaluate", ![t].seen = Visible, ![t].at = version]
  /\ unsignalled' = FALSE
  /\ UNCHANGED <<lastVersion, applied, current, sup, health, assigned, snapshot, starts, faults,
                 overlapped>>
  /\ RefreshUnchanged

\* Mutant: the fingerprint covers the source ids only.
SameSourceIds(t) ==
  /\ \A s \in Sources : (task[t].seen[s] = Off) = (applied[s] = Off)
  /\ current # 0 /\ ~TaskDone(current)
\* _fingerprint: ids and bindings; the supervisor has to be running.
Unchanged(t) == task[t].seen = applied /\ current # 0 /\ ~TaskDone(current)

SameFingerprint(t) ==
  /\ up /\ task[t].pc = "evaluate" /\ Unchanged(t)
  /\ task' = [task EXCEPT ![t].pc = "snapshot"]
  /\ UNCHANGED <<lastVersion, applied, current, sup, health, assigned, snapshot, starts, faults,
                 overlapped, unsignalled>>
  /\ RefreshUnchanged

\* reconcile, then _stop_supervisor takes the supervisor over and waits for it
Reconcile(t) ==
  /\ up /\ task[t].pc = "evaluate" /\ ~Unchanged(t)
  /\ assigned' = Reconciled(task[t].seen)
  /\ IF NoHealthyAccount(task[t].seen)
       THEN /\ task' = [task EXCEPT ![t].pc = "dead"]
            /\ UNCHANGED current
       ELSE /\ task' = [task EXCEPT ![t].pc = "stopping", ![t].old = current]
            /\ current' = 0
  /\ UNCHANGED <<lastVersion, applied, sup, health, snapshot, starts, faults,
                 overlapped, unsignalled>>
  /\ RefreshUnchanged

\* Mutant: the old supervisor runs on.
SupNotStopped(t) == sup
\* _stop_supervisor
SupAfterStop(t) == IF task[t].old = 0 THEN sup
                   ELSE [sup EXCEPT ![task[t].old] = [b \in Bindings |-> "none"]]

\* the old listeners are down; the new ones are built and started without a suspension
Restart(t) ==
  /\ up /\ task[t].pc = "stopping" /\ starts < MaxStarts
  /\ LET seen == task[t].seen IN
     /\ applied' = seen
     /\ IF Groups(seen) = {}
          THEN sup' = SupAfterStop(t) /\ UNCHANGED <<current, starts>>
          ELSE /\ sup' = Append(SupAfterStop(t), NewSupervisor(seen))
               /\ current' = Len(sup) + 1
               /\ starts' = starts + 1
  /\ task' = [task EXCEPT ![t].pc = "snapshot", ![t].old = 0]
  /\ UNCHANGED <<lastVersion, health, assigned, snapshot, faults, overlapped, unsignalled>>
  /\ RefreshUnchanged

\* a failing write of the snapshot is logged and ignored
WriteSnapshot(t) ==
  /\ up /\ task[t].pc = "snapshot"
  /\ \/ snapshot' = Groups(task[t].seen) /\ UNCHANGED faults
     \/ faults < MaxFaults /\ faults' = faults + 1 /\ UNCHANGED snapshot
  /\ task' = [task EXCEPT ![t] = [Resting EXCEPT !.pc = NextPc(t),
                                                !.at = IF t = "main" THEN task[t].at ELSE 0]]
  /\ UNCHANGED <<lastVersion, applied, current, sup, health, assigned, starts, overlapped, unsignalled>>
  /\ RefreshUnchanged

\* supervisor.stop() raises: a listener's album buffer cannot be flushed.  The coroutine is gone;
\* the listeners that did not get to their disconnect stay, and nothing refers to them.
StopRaises(t) ==
  /\ up /\ task[t].pc = "stopping" /\ task[t].old # 0 /\ faults < MaxFaults
  /\ faults' = faults + 1
  /\ \E left \in SUBSET Live(task[t].old) :
       sup' = [sup EXCEPT ![task[t].old] =
                 [b \in Bindings |-> IF b \in left THEN sup[task[t].old][b] ELSE "none"]]
  /\ task' = [task EXCEPT ![t].pc = "dead"]
  /\ stranded' = stranded \cup {task[t].old}
  /\ UNCHANGED <<adminVars, up, lastVersion, applied, current, health, assigned, snapshot, starts,
                 overlapped, missed, unsignalled>>

\* A listener left behind was asked to stop: it ends at its next message.
LeftoverEnds(i, b) ==
  /\ up /\ i \in stranded /\ b \in Live(i)
  /\ sup' = [sup EXCEPT ![i][b] = "ended"]
  /\ UNCHANGED <<health, faults>> /\ ListenerUnchanged

\* a database or Redis call raises: the coroutine that made it is gone
RefreshRaises(t) ==
  /\ up /\ task[t].pc \in {"read", "snapshot", "version", "subscribing", "idle"}
  /\ faults < MaxFaults
  /\ faults' = faults + 1
  /\ task' = [task EXCEPT ![t].pc = "dead"]
  /\ UNCHANGED <<adminVars, up, lastVersion, applied, current, sup, health, assigned, snapshot,
                 starts, overlapped, stranded, missed, unsignalled>>

\* run_forever: the version is read after the startup refresh, then the loops start
StartLoops ==
  /\ up /\ task["main"].pc = "version"
  /\ lastVersion' = version
  /\ missed' = (version # task["main"].at)
  /\ task' = [t \in Tasks |-> [Resting EXCEPT !.pc = CASE t = "main" -> "watch"
                                                       [] t = "poll" -> "idle"
                                                       [] t = "pubsub" -> "subscribing"]]
  /\ UNCHANGED <<adminVars, up, applied, current, sup, health, assigned, snapshot, starts, faults,
                 overlapped, stranded, unsignalled>>

Subscribe ==
  /\ up /\ task["pubsub"].pc = "subscribing"
  /\ task' = [task EXCEPT !["pubsub"].pc = "idle"]
  /\ UNCHANGED <<lastVersion, applied, current, sup, health, assigned, snapshot, starts, faults,
                 overlapped, unsignalled>>
  /\ RefreshUnchanged

Begin(t, v) ==
  /\ lastVersion' = v
  /\ task' = [task EXCEPT ![t].pc = "read"]
  /\ overlapped' = (overlapped \/ AnyRefresh)
  /\ UNCHANGED <<config, flag, version, admin, up, applied, current, sup, health, assigned,
                 snapshot, changes, starts, faults, stranded, missed, unsignalled>>
Poll ==
  /\ up /\ task["poll"].pc = "idle" /\ version # lastVersion
  /\ Begin("poll", version)
  /\ UNCHANGED channel
PubSub ==
  /\ up /\ task["pubsub"].pc = "idle" /\ channel # <<>>
  /\ Begin("pubsub", Head(channel))
  /\ channel' = Tail(channel)

\* the main loop finds the supervisor's task done, or the main coroutine raised: the process
\* exits and is started again
Exit ==
  /\ up
  /\ \/ task["main"].pc = "watch" /\ current # 0 /\ TaskDone(current)
     \/ task["main"].pc = "dead"
  /\ up' = FALSE
  /\ task' = [t \in Tasks |-> Resting]
  /\ current' = 0 /\ sup' = <<>> /\ channel' = <<>>
  /\ UNCHANGED <<config, flag, version, admin, lastVersion, applied, health, assigned, snapshot,
                 changes, starts, faults, overlapped, stranded, missed, unsignalled>>

Next ==
  \/ EnableSource \/ Bootstrap \/ RequestRefresh \/ SetListenerFlag
  \/ Incr \/ PublishVersion \/ SignalFails
  \/ \E i \in DOMAIN sup, b \in Bindings :
       \/ ListenerConnects(i, b) \/ ListenerReceives(i, b)
       \/ \E to \in {"flood_wait", "banned", "reconnecting"} : ListenerFails(i, b, to)
       \/ LeftoverEnds(i, b)
  \/ \E t \in Tasks :
       \/ ReadSources(t) \/ SameFingerprint(t) \/ Reconcile(t) \/ Restart(t)
       \/ StopRaises(t) \/ WriteSnapshot(t) \/ RefreshRaises(t)
  \/ Boot \/ StartLoops \/ Subscribe \/ Poll \/ PubSub \/ Exit

Spec == Init /\ [][Next]_listenerVars

-----------------------------------------------------------------------------
LoopsAlive == up /\ task["main"].pc = "watch" /\ task["poll"].pc = "idle" /\ task["pubsub"].pc = "idle"
Quiet == LoopsAlive /\ admin = "idle" /\ channel = <<>> /\ lastVersion = version

\* A signalled change reaches the listeners: when both loops are idle and have seen the newest
\* version, the fingerprint that is applied is that of the enabled sources.  The process rests on
\* another configuration only after refreshes that overlapped, after a signal that fell between
\* the startup refresh and the version read after it, or while a change waits for a signal that
\* nobody sent: that of the flag, of the bootstrap job, of an approved suggestion, or of a request
\* that ended between its commit and the INCR (listener_refresh.py, refresh and run_forever;
\* admin.py:1219-1238; ingestion_bootstrap/main.py, bootstrap_sources).
QuietIsApplied ==
  Quiet /\ ~overlapped /\ ~missed /\ ~unsignalled => applied = Visible

\* Across every restart of the supervisor no session is held by live listeners of two of them.
\* The two exceptions: refreshes that overlapped, where each takes the supervisor over and starts
\* its own, and the first one's is never stopped; and a supervisor whose stop() raised after the
\* coordinator had let go of it.  Within one supervisor the code holds one client per (adapter,
\* session), so two adapters bound to one session do have two.
OneClientWithoutOverlap ==
  \/ overlapped \/ stranded # {}
  \/ \A i, j \in DOMAIN sup :
       i # j => {Session(b) : b \in Live(i)} \cap {Session(b) : b \in Live(j)} = {}
=============================================================================
