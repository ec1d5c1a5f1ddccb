# A TLA+ verification project for EstateFlow

EstateFlow collects rental listings from Telegram channels, extracts their fields with
language models, removes duplicates, stores them, and tells users whose saved filters match.
It is a pipeline of Python asyncio processes over RabbitMQ, PostgreSQL and Redis. This
directory models the pipeline's own control: what it does with every message, record and row
when processes interleave, crash, lose their connections or get errors from each other.

Paths below are relative to `src/`; `services/x.py` stands for `src/estateflow/services/x.py`.

## 1. Inventory

| Part | State it keeps | Operations | Talks to |
|---|---|---|---|
| Telegram ingestion (`services/telegram_listener.py`, `media_buffer.py`) | per listener: album groups and debounce timers in memory; per post: an idempotency key in Redis | `run`, `stop`, `handle_update`, `publish`, `flush`, `flush_all`, the idempotent queue publisher | Telegram, Redis, raw queue |
| Listener pool and refresh (`listener_pool.py`, `listener_refresh.py`) | accounts with a health status, channel assignments, the running supervisor, a version counter in Redis | `reconcile`, `transition_health`, `signal`, `refresh` from three loops | database, Redis pub/sub, ingestion |
| Telegram login (`telegram_auth.py`), source registry (`source_config.py`, `ingestion_bootstrap`), plugin registry (`adapters/registry.py`) | login state with a time to live; source rows; loaded modules | start, code, password; enable, bootstrap; reload | Telegram, Redis, database, files |
| Event bus (`queue.py`, `stage_consumer.py`, `queue_consumer.py`) | durable queues, dead-letter queues, unacknowledged deliveries; lists in Redis | `publish`, `pop`, `ack`, `retry`, the stage loops | every stage |
| Pre-AI stage (`ingestion_pipeline.py`, `pre_ai_dedup.py`, `source_parsing/`) | fingerprints in memory | route, parse, split, evaluate, quarantine, publish candidates | raw queue to AI queue |
| AI stage (`ai_worker.py`, `worker_ai/main.py`) | processing records in memory | look up, extract, save, publish, mark | AI queue to post-AI queue |
| Model fallback and gates (`ai_client.py`, `ai_worker.py`) | responses of the models tried so far | `complete_json`, fallback decision, rental and quality gates | model providers |
| Media storage (`media_storage.py`) | objects in a bucket, keys in listings | download, thin out, upload, clean up | Telegram, object storage |
| Post-AI stage (`post_ai_dedup.py`, `repositories/post_ai_dedup.py`) | announcements, parent links, decisions, review cases | score candidates, save or link, publish, review | database, persisted queue |
| Notifications (`notifications.py`, `telegram_notifications.py`, `repositories/sqlalchemy.py`) | job rows with status, attempts, `next_attempt_at` | match, create, publish, claim, send, record | database, delivery queue, Telegram |
| Search (`search.py`, `nlp_search.py`, `extraction.py`) | none | normalise a listing, normalise a query, match, sort | database |
| Bot (`bot/`) and saved filters (`saved_filters.py`, `api/webapp.py`) | dialogue state of a user in memory, filter rows | wizard, free text, source and filter flows | search, database |
| Referrals (`referrals.py`) | referral events, counters, awards, premium dates | start, activate, award | database |
| Source suggestions, audience tags | rows, an audit log with idempotency keys | submit, approve, reject, merge | database |
| Content automation | posts per day and kind | create once, publish, save | Telegram channel, database |
| Release controls | versioned flags with an audit trail, an allowlist | set, gate | database |
| Analytics, operator alerts | events by key; buckets in memory | record, snapshot; notify | database, Telegram |
| APIs, health, composition root, schema tools, frontends | none of their own | | |

`PROJECT.json` lists all of them under `components`, with what is left out and why.

What is hard here:

* *Delivery.* A handler's effects and its acknowledgement are separate; a broken connection
  hands the message to a second worker while the first goes on.
* *Check then act.* Redis keys, job rows, source rows, filters and admin decisions are read, then
  written after an await, with only some of these pairs guarded by a constraint or a lock.
* *Memory and durability.* Processing records, fingerprints, album buffers and dialogues end with
  their process; queues and rows do not.
* *Errors as values.* Some failures are exceptions (retried by the bus), others are stored as
  a record or a row status and acknowledged.
* *The same idea written several times.* What a filter matches, what a duplicate is and how a district is
  spelt are each defined in more than one place.

The `hazards` in `PROJECT.json` place each of these at its line with the properties for it.

What makes each part correct, in a sentence: the bus loses nothing and dead-letters only
what is exhausted; the AI stage lets a message go only with a listing queued or a verdict on
it; the fallback chain returns the best answer it got; ingestion loses no part of an album, and the
pre-AI stage no listing of a post; deduplication hides an announcement only behind a visible parent or
in front of an admin; a notification is created once and sent once; awards and rewards are given
once; the listener process runs the configuration it was told of; searches, filters and snapshots
agree with each other; and where the code has a race that breaks one of these, the property names it
and holds without it.

## 2. Modules

| Module | Models | Kind |
|---|---|---|
| `AtLeastOnce` | what a queue promises its users | abstract specification |
| `EventBus` | `RabbitMQEventQueue` and `RabbitStageConsumer.run_forever` | component |
| `AiStage` | `AiExtractionWorker.process_raw_queue_message` inside the bus' handler | extends `EventBus` |
| `QueueConsumer` | the combined worker, its split stages and `RedisEventQueue` | component |
| `ListingExtraction` | `ModelFallbackLLMClient.complete_json` and the gates after it | component |
| `DedupScoring` | the duplicate score, its caps and thresholds, and the candidate query | algorithm |
| `PostAiDedup` | `PostAiDedupProcessor`, the announcement repository, manual review | component |
| `AlbumBuffer` | `TelegramAccountListener`, `TelegramAlbumBuffer`, `QueueRawTelegramEventPublisher` | component |
| `SourceParsing` | router, recipes and candidate policies | algorithm |
| `PreAiIngestion` | `PreAiIngestionProcessor`, the fingerprint index, quarantine | extends `SourceParsing` |
| `Notifications` | `NotificationMatchingEngine`, `NotificationDeliveryWorker` and their repositories | component |
| `Referrals`, `SourceSuggestions`, `AudienceTags`, `ContentAutomation` | the services of the same names | components |
| `TelegramAuth`, `SourceBinding`, `AdapterRegistry`, `ListenerRefresh` | login, parser binding of a source, plugin registry, listener coordinator with its pool | components |
| `ReleaseControls`, `MediaStorage`, `Metrics`, `OpsAlerts` | flags, media of a listing, product metrics, operator alerts | components |
| `SearchMatching` | normalisation of listings and queries, three matchers, three orders | algorithm |
| `BotDialogue` | wizard, free-text, source and filter flows of one user, with the Mini App beside them | component |
| `EventBus_proofs`, `AiStage_proofs`, `Notifications_proofs` | the modules they extend | theorems |
| `Decisions`, `Ingestion`, `Growth`, `Listeners`, `Platform` | the parts that share a run and a proof module, side by side, with what is claimed of each | instances of components |
| `Decisions_proofs`, `Ingestion_proofs`, `Growth_proofs`, `Listeners_proofs`, `Platform_proofs` | the modules they extend | theorems |
| `MC*` | constants, inputs and symmetry for TLC | instances |

A mutant (an operator whose comment begins with "Mutant") is a plausible mistake in the definition
next to it; it is not part of any specification. For every checked property one of them
must make TLC find a violation.

### EventBus, AtLeastOnce and QueueConsumer

The broker's side of a message is a *copy slot* with a place (`ready`, `unacked`, `dead`), a
holder and a `retry_count`; the worker's side is the point its loop has reached and the copy
its delivery token stands for. `Pop`, `HandlerReturns`/`HandlerRaises`, `Ack`, `Retry` and
`DeadLetter` are the loop. `Retry` follows the code's order: the successor is published before the
failed delivery is acknowledged. `Crash` and `ConnectionLost` requeue what the broker still
counts as delivered to the worker (`Requeue`, external: RabbitMQ); after `ConnectionLost` the worker goes on
and its later settlement reaches nothing (`SettleStale`). `PublishInDoubt` raises with or
without the message stored. `AtLeastOnce` has no copies and no workers: a message is accepted,
then completed or parked, and `ImplementsPromise` is the refinement.

`QueueConsumer` is the other deployment: one process polls the three queues in turn, or one process
a stage, over RabbitMQ or Redis lists. What the handlers decide is left open there, since the
stages' own modules model it; what it adds is the acknowledgement whatever the record says, the
AI stage without a model key, and a queue that keeps no copy of what was popped.

### AiStage

`AiStage` opens the handler between `Pop` and its end: `Lookup` (reuse of a publishable
record), `Extract`/`ExtractFails`/`ExtractRaises`, `PublishPostAi`, `Mark`, and the translation
of the returned record into return or raise (`RetriesOn`: all models failed, storage
retryable). The records are per process and die with it (`Forget`), as deployed, or are in a store the
processes share, which the repository protocol allows and only under which a saved record is ever
published again by a later delivery; a behaviour starts with one or the other (`shared`). The publish inside
the `try` block and the one for a reused record outside it are different actions, because a
`QueuePublishError` is a `RuntimeError`: the first is swallowed, the second leaves the handler.

### ListingExtraction, DedupScoring and PostAiDedup

`ListingExtraction` is one extraction: the models are asked in turn; each answers with a response (rental flag,
listing type, core signals, required fields, confidence, valid or not), a retryable or a final transport error or
another model error. Confidence is an integer percentage. `QualityRank` is compared as Python compares tuples. After
the chain, `RentalGate` and `Status` are the worker's decisions on the response returned. The number of core signals is
the whole count of the eight fields, as the code ranks by it; the instance has answers below, at and above the other limits.

`DedupScoring` compares an announcement with stored candidates. A comparison is a record of what matches (image equal,
near or far; price within, on the rim, off, of another period; and so on), from which the signals, the weighted total,
the anchors and the decision follow as in `post_ai_dedup.py`; `InCandidateQuery` is the SQL `where` clause of
`list_candidates` over the same record, and `Newest` its `order by` and `limit`: of the stored announcements that pass the
clause only the newest are scored (the deployed limit is 50, the instance's is small).

`PostAiDedup` is workers and an admin over rows. What a pair of announcements scores is an input; taking a message,
evaluating, choosing the parent, saving, publishing, linking, opening a case and acknowledging are separate steps,
because each is a transaction of its own, and a failure or redelivery may fall between any two. Every message that is read
gets the time at which it is parsed as its `created_at` (`since`, `clock`), which breaks the tie between two listings as
complete; a row keeps the time it was stored with. The clocks of two worker hosts are taken to be one. After
`LoseConnection` the broker has the message back while the worker goes on with it, up to an acknowledgement that raises
(`outlived`). An admin's action changes the
announcement and then the case (`StoreItem`), with a possible restart between the two (`AdminRestart`). `crossed` and `interrupted` record that
a decision was carried out on rows another actor had changed since (an admin's merge into a candidate that is no parent
any more included), or that an announcement was processed again.

### AlbumBuffer, SourceParsing and PreAiIngestion

`AlbumBuffer` is one post, an album or a single message, seen by several listeners. The shared state is the
post's idempotency key and the raw queue. A flush is a *flight* that passes through the key check, the
publish and the mark as separate steps; `Fails` covers an error in any of the three, after
which an album is put back (without a timer) and a single message is gone. `Stop` and the `finally` clause of
`run` both flush. For a part of an album `handle_update` asks for the key of the single message, which is never
marked, so only the flush's own check can drop it.

`SourceParsing` takes a text as its blocks, with the markers, signals and lengths the regular expressions would find
there, and computes what the router does with it under a binding: recipe, mode, candidates, drops,
split limit, media policy. `PreAiIngestion` runs it inside the raw queue's handler: the
candidates are looked up in the fingerprint index of the process, published one by one or
quarantined, and stored; a failure leaves the rest to the retry, a restart empties the index. What a recipe
asks to be left out (`DropAsked`) is a drop policy, an exclude marker, a block that is too short, or a text that its
patterns do not cut and `keep_unsplit_if_no_match` does not keep.

### Notifications

One announcement and its filters. Each SQL statement, publish and send is a step.
`Absent`/`Insert` are the select and the insert of `create_pending`, `Select`/`Claim` the select
and the commit of `mark_sending`, which updates by primary key. The check constraint on the status
is part of the state (`schema`): the repository creates it in two ways, and one of them does not
allow `sending`. `Poll`/`Pick` are `process_batch` of the compatibility worker, which delivers from `list_ready`
instead of from messages and drops the rest of its batch when one job raises; `polling` says whether a deployment
runs it. The queues are those of `EventBus`, reduced to copies waiting, retries used and dead letters.

### Referrals, SourceSuggestions, AudienceTags, ContentAutomation

Each service is a set of concurrent calls that read, decide and write in the order of the code, one step a
transaction. `Referrals` walks up the chain of referrers event by event before it inserts; `activate_once` is one
locked transaction. The decisions on suggestions and tags write their audit row first, then
change state in further transactions, and may stop after any of them. Three writers refer to a tag: the AI stage with the
tag service, which keeps approved tags only; the AI workers that are built without it (`worker_ai/main.py`,
`worker_stages.py`), which keep the seed tags whatever became of them (`ResolveSeed`); and the filters, which take any
well-formed key (`SaveFilter`). `unchecked` is what the last two left.

`ContentAutomation` counts, publishes, then saves. There are two clocks: the day of a post's key is one of Tashkent, the
date `count_posts` compares it with is that of the row's `created_at` in the database. `clock` passes through the hours
in which they differ; a row created there is `astray`, and rows of other days' keys may get this date (`strays`). The
count is of rows of any status: a failed row uses up the cap, so that a failed post is not tried again once the limit is
reached, its own row included. `save_post` selects by `post_id`, hence a second new row of one key breaks the unique key
(`KeyTaken`). A "dry_run" is taken as published. The cap decides anything only for a limit of one: three kinds are planned,
the default limit is two, and `district_stats` is never rendered because its repository method returns nothing. `enqueue_daily`
and `process_scheduled_message` are modelled as the operations they are; nothing in `src/` calls them, and the daily run is an admin's request.

### TelegramAuth, SourceBinding, AdapterRegistry, ListenerRefresh

`TelegramAuth` interleaves admin requests over the Redis state, the session file and Telegram's own
record of codes. `SourceBinding` is one source row and writers (the admin API and the bootstrap) that load,
merge a partial patch, validate and commit. `AdapterRegistry` tells the registered version of a plugin from
the one in the module table. `ListenerRefresh` is the coordinator: three tasks (startup, poll, pub/sub) that
each run `refresh` step by step without a lock, supervisors that start and stop listeners, the pool's
assignment and health (a message that is received puts the account online again, `ListenerReceives`), and the admin's change-then-signal. A source is bound to a pair of adapter and session, a supervisor
has one listener a pair, and health is the session's. A change is committed, counted and published in three steps, of which
the last two may not happen (`SignalFails`); the bootstrap job, the approval of a suggestion and the flag write without a
signal. `StopRaises` is a `stop()` that raises after the coordinator has let go of the supervisor: some of its listeners stay, each until its
next message (`LeftoverEnds`).

### ReleaseControls, MediaStorage, SearchMatching, BotDialogue, Metrics, OpsAlerts

Flag changes carry the version of the form they come from and either value, the stored one included (the toggle is the
frontend's). Media runs download, thin out
near-duplicates, upload under keys numbered by what is left, and clean up on failure, with a second delivery of the
same message beside them; an upload that raises leaves its key `inDoubt`, and the store may complete the put then or later.
`SearchMatching` chooses a raw listing and a query from one of the four
ways in, normalises both by their own tables and compares the three matchers and the three orders. Its words for districts
are one for every way in which the extraction's, the wizard's and the free-text search's table may know a word or
not, Cyrillic ones among them. `BotDialogue` has one
user's four flows with the awaits that may finish after a cancel or a new start, and the Mini App's
writes of the same filters; what the wizard has no question about (`min_price`) is dropped when such a filter is run.
`Metrics` counts time in half days and dates a registration by the user's row.
`OpsAlerts` has tasks that notify at the same time, and refusals that each ask for a wait of their own: the
last to arrive sets the cooldown, a shorter one too.

## 3. Runs

| Run | Instance | Shows |
|---|---|---|
| `EventBus` | one good and one malformed message, 2 workers, 4 slots, 2 retries, 1 fault | `NoMessageLost`, `DeadLetterOnlyExhausted`, refinement of `AtLeastOnce`, `EventuallySettled` |
| `AiStage` | one message, 2 workers, 1 retry, 2 faults, 1 post-AI outage, records per process and shared | `LeavesWithReason`, `PublishedMeansQueued` |
| `Decisions` | 2 models with answers on both sides of every threshold and 1, 2, 5 or 6 core signals; every comparison alone and pairs around the score's thresholds, under a candidate limit of 1 and of 2; 3 announcements over 3 fields, 2 workers, 1 failure or lost connection, 1 admin action | `BestResponseReturned`, `OnlyRentalsLeave`; `EvidenceNeverHurts`, `QueryGapsKnown`; `NoRingAlone`, `ParentCoversChild`, `HandledIsReachable`, `FlaggedIsReviewed`, `VisibleIsPublished` |
| `Ingestion` | 2 listeners, up to 2 parts or a single message, 2 faults; one pre-AI worker, 2 of 13 posts, 1 retry, 2 faults | `SeenMeansQueued`, `PartsAccounted`, `StrandedOnlyByFailure`; `AckedIsAccounted`, `IdentitiesDistinct` |
| `Notifications` | 2 filters, 2 matchers, 2 senders, both schemas, 1 retry, 2 faults, 1 overlap | `NoDuplicateWithoutOverlap`, `JobReachesQueue` |
| `NotificationsLive` | 1 filter, 1 matcher, 1 sender, with and without a poller, 1 retry, 2 faults, 1 overlap | `EventuallyAttempted` |
| `Growth` | 3 users and 2 starts; 2 users and 2 decisions; 3 tags, a listing, a filter and 2 decisions; 3 kinds of post at a limit of 1, 2 callers, 2 runs, 1 row of another day | `AwardMatchesCount`, `CycleOnlyByRace`, `RewardedOnce`, `RefsApproved`, `CappedUnlessOverlap` |
| `Listeners` | 2 admin requests; 2 writers, 3 writes; 2 plugins, 3 edits; 2 sources, 3 bindings (two adapters on one of the 2 accounts), 2 changes, 2 starts, 1 fault | `LoginIsUsable`, `PolicyStaysWithParser`, `RegisteredIsImported`, `QuietIsApplied`, `OneClientWithoutOverlap` |
| `Platform` | 2 admins and 3 flag versions; 4 images and 2 deliveries; the small sets of listings and queries; 3 filters at a limit of 2; 1 post and 2 faults; one user over ten days; 2 reasons, 2 tasks, a window of 2, refusals for 1 or 3 | `AuditIsAChain`, `MediaAccounted`, `SearchGapsKnown`, `FiltersAreAsked`, `PostAccounted`, `SnapshotIsComplete`, `AlertsAreSpaced` |

`Decisions`, `Ingestion`, `Growth`, `Listeners` and `Platform` run several independent parts side by side: an initial
choice (`which`) decides which part a behaviour is about, and the others rest. Nothing is assumed of a part by
another. The properties are those of `Decisions`, `Ingestion`, `Growth`, `Listeners` and `Platform`, which the MC modules and the proof
modules both extend, so that TLC and TLAPS speak of the same formulas.

Three runs end in a violation, each of a sentence in the repository's code, documents, schema or
tests; the quotations are the `findings` of `PROJECT.json`.

| Run | What TLC shows |
|---|---|
| `AiStageLostPublish` | A failed publish to the post-AI queue ends as a failed record and an acknowledgement: the listing is lost. |
| `NotificationsSchema` | Under the Alembic schema every claim is refused and every delivery message is dead-lettered. |
| `SearchNullPrice` | A search with a price bound returns listings without a price and says that it does not. |

### What the exceptions in the properties stand for

A property that says "unless" names a race or failure in which the code does break it; TLC finds the
counterexample as soon as the exception is taken out. They are, with where they bite:

* Two listeners flush the same post before either marks the key: two raw events (`telegram_listener.py:501`, against
  `docs/raw_ingestion_contract.md:24`). Parts put back after a failed flush are dropped when a later flush marks the
  key (`media_buffer.py:112`, against line 106 of the same document).
* Two pre-AI workers, each of which published part of its copy of a forward before a failure, skip the rest of the other's
  copy on the retry and acknowledge it (`docs/raw_ingestion_contract.md:86`): `AckedIsAccounted` is claimed for one worker, as
  the compose files start.
* Two dedup workers decide on rows that change under them, or an admin merges what a worker is linking: chains,
  rings, and gathered fields left behind. An admin approves the merge into a candidate that was itself merged since
  the case was opened (`post_ai_dedup.py:1161`): the link goes to a child, and what that child gathers goes no further up. A candidate with the phone and the complete fingerprint, which
  `docs/post_ai_dedup_contract.md:73` calls a high-confidence duplicate, is passed over when another has the higher
  score (`post_ai_dedup.py:556`).
* A dedup worker whose connection was lost goes on with what it read, beside the worker that has the message now; it can
  close a ring of parents (`post_ai_dedup.py:860`), since the announcement's row and the copy in its hand were created
  at different times. Fifty newer listings, related to the incoming one or not, hide a duplicate from the engine
  (`repositories/post_ai_dedup.py:156`).
* Two senders select the same pending row (`sqlalchemy.py:1205`, against `docs/manual_test_checklist_uz.md:204`).
  A sender and a poller do so too when both run. Rate-limited notifications return to `pending`, and only the
  compatibility worker reads them again: the split deployment has no dispatcher (`docs/operations.md:24` says so).
* Two users refer each other at once; two admins decide one suggestion at once; a listing in flight
  misses a tag's merge; two `generate` calls pass the daily cap.
* Filters refer to tags nobody approved: no route looks at the status of the key it is given (`api/webapp.py:314`). An AI
  worker without the tag service hands on a seed tag an admin rejected or merged (`extraction.py:237`).
* The channel's daily cap is counted by the database's date (`sqlalchemy.py:1028`). From midnight to five in Tashkent a post
  gets the date of the day before, which `count_posts` of the new day does not see, and the cap is passed without any race.
* `refresh` runs from two loops at once: an orphaned supervisor, or the older configuration applied last (against
  `docs/source_parser_policies.md:4`). A signal between the startup refresh and the version read after it is missed; a
  refresh that raises ends its loop silently. Changes that nobody signals wait for somebody else's signal: a request that fails or dies
  between its commit (`api/admin.py:1219`) and the signal (1238), rows of the bootstrap job
  (`services/ingestion_bootstrap/main.py:261`), an approved suggestion, and a flag.
* A `stop()` that raises leaves listeners nobody refers to (`listener_refresh.py:519`): the restart adds a second client to
  their sessions. Two adapters bound to one session have two clients by construction (`listener_refresh.py:371`, against
  `docs/source_parser_policies.md:4`), which the property, about two supervisors, allows.
* Two writers of a source row store a key and a config nobody validated together. A code confirmed
  while the password is being confirmed leaves a stale `needs_password`; a Redis failure after `sign_in` leaves
  the login unannounced.
* A redelivered media run that fails deletes objects a persisted listing names. An upload that raised may have been stored
  (`media_storage.py:304`): `_cleanup` does not know of it, and the object stays.
* Two alerts in flight are both refused: the answer that comes last sets the cooldown, and when it asks for a shorter
  wait a request is made inside the longer one (`ops_notifications.py:242`).
* A search and the notifications of the same filter differ for unpriced listings and for excluded audiences; the two
  tables of districts spell Mirzo Ulug'bek differently, and each knows words the others do not ("chilanazar" is left as written in a
  listing, the Cyrillic Yashnobod in a listing and by the wizard), so that a listing and a query written alike need not meet; the
  API takes the word it is given, and any but the name of the district misses the listing; the free-text search drops
  a district it does not know. Of two listings at one price the cheapest-first order of the raw SQL repository (`repositories/search.py:11`, which no entry point
  constructs) has the newer first, the others the older; the dearest-first order puts unpriced listings first in SQL.
* The wizard holds no `min_price` and no sort: a Mini App filter that the bot runs is run without them (`bot/search_wizard.py:237`),
  which `FiltersAreAsked`, about what the wizard held, does not see.
* Two creations of a filter both find room for one more.
* On Redis a popped message is gone with its process, and a used-up one without a trace.

Seen while modelling, without a property: the AI handler acknowledges permanent storage,
validation and model errors, which `docs/sprint_2_ai_handoff.md:73` sends to the dead-letter queue. The combined runtime
gives the post-AI processor no event queue and the matching engine a publisher that does nothing, so no
subscriber hears of what it stores. `build_runtime` wires the bot without its wizard, free text and
filters. `/cancel` leaves a pending filter name behind. Of the gates of the release controls only the one over
sources is wired, and the beta allowlist is per process. The metrics' daily buckets are UTC days although the
window is Tashkent's. An alert in the cooldown is not counted, and a failed send loses the count it carried.

### Bounds

Named constants bound what the code leaves unbounded: `Copies` (slots), `MaxFaults`,
`MaxOutages`, `MaxOverlaps`, `MaxArrivals`, `MaxActions`, `MaxAttempts`, `MaxSubmits`, `MaxRuns`, `MaxPermanent`,
`MaxCodes`, `MaxRequests`, `MaxWrites`, `MaxEdits`, `MaxChanges`, `MaxStarts`, `MaxVersion`, `MaxInputs`, `MaxEvents`,
`MaxTime`, `MaxStrays`; `Limits` and `RetryAfter` stand for the deployed limit of 50 candidates and for any wait Telegram may ask for; `completions` saturates at two. Two workers, listeners, senders, admins or calls give every pairwise
race; three users give a cycle of referrals longer than a pair, three announcements a chain and a ring; one fault
more than a failure lets a failure meet the recovery from another one; two parts let one arrive while
the other is being flushed; two filters let a matcher fail between two jobs; three filters at a limit of two reach it
and pass it. A limit of one among two stored
announcements hides one, two refusals that ask for different times come in either order, and with 1, 2, 5 or 6 core signals two answers
are ranked apart on both sides of the two signals at which an answer becomes plausible, and well above them. `MaxRetries` is one or two
instead of the deployed three, which keeps first, middle and exhausted attempts apart. In `EventBus` one fault and four slots go together: with two faults the slots, which are a
bound, run out before the last retry and liveness would fail for that reason alone. Two models give first, fallback and
exhausted; every combination of their answers is an initial choice. The clock of `Metrics` runs past the
end of day seven of the last registration. `CHECK_DEADLOCK FALSE` is said where an empty queue, a finished
post or a used-up bound is the end of the behaviour.

### Fairness

`EventBus` assumes weak fairness of each worker's own loop (it never returns while the
process lives, and a supervisor restarts it). `NotificationsLive` assumes it of each matcher, sender and poller and
of the clock passing `next_attempt_at`. Faults, publishes by producers and deletions by users are never fair.

## 4. Theorems

TLAPS proves these for every value of the constants: any number of messages, workers, rows, users and faults, and every
bound.

| Module | Theorem | States | Argument |
|---|---|---|---|
| `EventBus_proofs` | `TypeCorrect` | `TypeOK` | |
| | `MessagesSurvive`, `DeadLettersExhausted` | `NoMessageLost`, `DeadLetterOnlyExhausted` | `Bookkeeping`: an unacknowledged copy is the one its holder has in hand, a worker about to acknowledge has a handled message, and `retry_count` never exceeds the handler runs that raised. A worker whose connection was lost does not own the copy any more, so its late acknowledgement removes nothing |
| | `BusImplementsPromise` | `ImplementsPromise` | the refinement of `AtLeastOnce`: every step accepts, completes, parks or stutters, by the same invariant |
| `AiStage_proofs` | `AiStageIsEventBus`, `AiTypeCorrect`, `AiMessagesSurvive`, `AiKeepsPromise` | the bus' promises for the opened-up handler | every step of the stage is one of the bus or a stutter |
| | `PublishedRecordsQueued` | `PublishedMeansQueued` | `MarkAfterPublish` |
| | `HandledMessagesHaveReason` | `LeavesWithReason` | `ReturnKnown`: a handler that returns a publishable record has its message queued |
| `Ingestion_proofs` | `TypeCorrect`, `MarkedPostsQueued`, `AlbumsNotStranded`, `AlbumPartsAccounted` | `TypeOK`, `SeenMeansQueued`, `StrandedOnlyByFailure`, `PartsAccounted` | a flight at its mark has stored the post; a listener that has not started has handed over nothing |
| | `CandidateIdentities` | `IdentitiesDistinct` | `PreType`: every event in the AI queue and in an index is that of a candidate of its message; and what the parser returns is `WellParsed`: candidates with one index tell the same, and the raw key is kept only by a candidate that is alone |
| | `ListingsNotLost` | `AckedIsAccounted`, for one worker | `MessageCovered`: the parser drops nothing but what its recipe asks for. `PreInv`: what a worker has passed is kept, or its index holds another copy of the forward (`RunOf`); an index holds one copy of each forward, which is under way, dead or settled (`IndexOk`) |
| `Notifications_proofs` | `TypeCorrect`, `NotificationsNotRepeated`, `JobsReachQueue` | `TypeOK`, `NoDuplicateWithoutOverlap`, `JobReachesQueue` | a job is published once, so without an overlap its message is waiting or in one sender's hand, and that sender's position says what Telegram has seen |
| `Growth_proofs` | `AwardsMatchCounts` | `AwardMatchesCount` | counter, award and event change in one step; cardinality of the referred users |
| | `CyclesOnlyByRace` | `CycleOnlyByRace` | `ChainInv`: without a race no set of users is closed under referrers, and a start that walks up the chain has passed only users above its referrer, never the user it is about |
| | `ChannelRewardedOnce` | `RewardedOnce` | without an overlap one call is in flight, and what it read is what is stored |
| | `SavedTagsApproved` | `RefsApproved` | a tag stops being approved only by an outright rejection or a merge, and the merge rewrites every reference first; what the writers that look at no status leave is in `unchecked` until a decision puts it right |
| | `ChannelCapped` | `CappedUnlessOverlap` | the rows that `count_posts` counts, and the one a lone call is about to save, are no more than the limit; a row outside the count was created in the hours when the dates differ |
| `Listeners_proofs` | `PluginsImported`, `LoginsUsable`, `PoliciesStay` | `RegisteredIsImported`, `LoginIsUsable`, `PolicyStaysWithParser` | what each request or writer holds is related to what it read |
| | `SignalledIsApplied`, `OneClientPerSession` | `QuietIsApplied`, `OneClientWithoutOverlap` | without an overlap at most one of the three tasks is inside `refresh`; where it is says which supervisor runs and which configuration it applies. A change is `unsignalled` from its commit until a signal or a read of it; a listener of an older supervisor is one of the `stranded` |
| `Platform_proofs` | `AuditTrailIsChain`, `AlertsSpaced`, `PostsAccounted` | `AuditIsAChain`, `AlertsAreSpaced`, `PostAccounted` | the last audit row is the stored one; a bucket holds the last request of its reason, and the stored cooldown is that of the last refusal, so that any longer one before it was cut short by an answer that was in flight; a post is in a queue, with a process or settled |
| | `SnapshotsComplete` | `SnapshotIsComplete` | the lookup reaches past the day seven of the last registration of the window; a user registers once, so windows that meet share none |
| | `BotFiltersAreAsked` | `FiltersAreAsked` | `BotInv`: a write that waits carries criteria that were agreed to for its filter, and without an overlap a creation that waits found room |
| | `SearchesGapsKnown` | `SearchGapsKnown` | `SearchInv`: a stored listing and the criteria are what normalisation makes of the raw ones; then the matchers are compared clause by clause |
| | `MediaIsAccounted` | `MediaAccounted` | `MediaInv`: a key that a listing names or a run uploads is in the bucket or was taken back by a run that cleaned up; without leftovers and repetitions an object is named, in a run's hands or that of an upload in doubt |
| `Decisions_proofs` | `BestReturned`, `RentalsOnly` | `BestResponseReturned`, `OnlyRentalsLeave` | ranks are totally ordered; the candidates are the usable ones of the responses received |
| | `EvidenceHelps`, `GapsKnown` | `EvidenceNeverHurts`, `QueryGapsKnown` | score and anchors are monotone in the matched signals, except that the manual-review anchor gives way to a complete fingerprint, which merges; a stored announcement that is not scored fails a clause of the query or has `limit` newer ones before it |
| | `HandledReachable`, `FlaggedReviewed`, `VisiblePublished` | `HandledIsReachable`, `FlaggedIsReviewed`, `VisibleIsPublished` | `PostInv`: a message is ready or with one worker; each worker's position says what its announcement's row, case and event already are (`Sound`); and no step of anybody else takes that back (`Grows`, `CasesStay`) |
| | `ParentsCover` | `ParentCoversChild` | `CalmInv`: until a write crosses a decision, every planned link goes to a parent and carries the fields the child's row has |
| | `RingsNeverAlone` | `NoRingAlone` | `AloneInv`: a parent has gathered the fields of its children (`Gathered`), and a planned link goes to an announcement with at least as many fields that is no child; of two with as many, to the one created first, and while no worker outlives its connection these times only grow down a chain (`Above`, `Aged`); only the one announcement whose processing was interrupted may lag behind. A new link then closes no ring from below or from above (`NoRingBelow`, `NoRingAbove`) |

`ParentCoversChild` was found not to be inductive, and then, with a third field, not to hold, as it stood: an admin's merge into a
candidate that had become a child breaks it. It now names that case, and the run has inputs that reach it.

The assumptions are what the code gives: bounds are natural numbers, a "none" is none of the others, the malformed messages are
messages, the sets of processes do not overlap, inputs have the fields the code reads. They are `BusAssumption`, `AiAssumption`,
`ExtractionAssumption`, `AlbumAssumption` and `NotificationsAssumption` in the modules that are extended, and `Constants` in those
that are instantiated, which the theorem assumes and the MC module asserts of TLC's values. Three are about the world
rather than the code: copies of one Telegram forward tell of the same listings, the dedup workers' hosts agree on the time
(`RingsNeverAlone`: `created_at` of two workers' messages is compared), and (`ListingsNotLost` only, as `OneWorker`) one
pre-AI process runs.

Model-checked only:

* `EventuallySettled`, `EventuallyAttempted`: liveness; fairness and `ENABLED` are out of the prover's reach.
* The three runs that end in a violation.

`AckedIsAccounted` does not hold with two workers: TLC finds the behaviour of section 3 as soon as `Workers` has a second member.

Every invariant a passing run checks, and the refinement, are proved. What a recursive function computes (`RemoveNearDuplicates` of
`MediaStorage`) is proved by taking the least number at which it would go wrong; what a sequence in ascending order holds
(`InOrder` of `SourceParsing`), by cardinality. Chains of any length need no recursion at all: a nonempty set closed under
referrers or parents (`Ring`) is there exactly when some chain never ends, which with finitely many users or announcements is a
cycle.

## 5. What is abstracted

Payloads, texts, prompts and formatting are model values. Time is the order of steps, except in `Metrics` and
`OpsAlerts`, which are about it; a timer may fire at any moment after it was set. Queue order is modelled only in
`QueueConsumer`, as requeues and several workers leave none to rely on elsewhere. Logging is left out. RabbitMQ, Redis,
PostgreSQL constraints and Telegram are modelled from how the code uses them.

## 6. Not modelled

Rendering, HTTP authentication and responses, image conversion, HTML scraping, regular expressions over texts, health
probes, schema tools and frontends (reasons in `PROJECT.json`). The raw SQL (asyncpg) repositories other than that of the announcements, and the Redis flag store, are not what the
deployed entry points construct; of them only the search's matching and order is modelled. `approve_merge` and
`approve_canonical_update` have no caller.

## 7. Plan

The modules of the first plan exist, and every invariant of their runs is proved. Next: a composition of the raw, AI and post-AI
queues under one `AtLeastOnce`; the admin API's remaining handlers; an index that pre-AI workers share, which `AckedIsAccounted`
would need with more than one.
