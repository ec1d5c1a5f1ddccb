-------------------------- MODULE ContentAutomation --------------------------
(***************************************************************************)
(* The channel posts of one day (services/content_automation.py with its   *)
(* SQLAlchemy repository): an admin's generate_daily runs through the      *)
(* planned kinds, a scheduled message asks for one of them (the service's  *)
(* operation; no worker of src/ consumes that queue).  Each asks the store *)
(* for the post and for the number of rows of the day, renders the text,   *)
(* publishes it to Telegram and saves the outcome.  The day is one of the  *)
(* schedule's time zone, the date of a row one of the database's clock.    *)
(***************************************************************************)
EXTENDS Naturals, Sequences, FiniteSets

CONSTANTS
  Planned, Callers,  \* the kinds of a day in their order, and the calls that may run
  DailyPostLimit,  \* daily_post_limit, 1 or 2
  MaxRuns,         \* calls that may be made in the day
  MaxPermanent,    \* permanent refusals by Telegram
  MaxStrays,       \* rows other days' keys may get on the database's date of this day
  None

VARIABLES
  clock,    \* the day begins at 0, the database's date of it at 1; they end at 2 and at 3
  post,     \* kind -> status of its row: None, "published" (or "dry_run"), "failed"
  astray,   \* kinds whose row was created on another date of the database
  strays,   \* rows of other days' keys created on the database's date of this day
  backoff,  \* kinds whose next_attempt_at lies in the future
  queue,    \* the kinds of the scheduled messages
  caller,   \* what each caller still has to do
  runs,     \* calls so far
  sent,     \* messages Telegram accepted, per kind
  refusals, \* permanent refusals so far
  overlap   \* a call began while another ran, or ended without saving what it sent

vars == <<clock, post, astray, strays, backoff, queue, caller, runs, sent, refusals, overlap>>

Free == [at |-> None, todo |-> << >>, seen |-> None]

Kinds == {Planned[i] : i \in DOMAIN Planned}

\* A day has at least one kind of post; None is no kind, no status and no step of a call.
Constants ==
  /\ Planned \in Seq(Kinds) /\ Planned # << >> /\ DailyPostLimit \in Nat
  /\ None \notin {"published", "failed", "get", "count", "publish",
                  "ok", "lost", "retryable", "permanent"}

Init ==
  /\ clock = 0
  /\ post = [k \in Kinds |-> None]
  /\ astray = {}
  /\ strays = 0
  /\ backoff = {}
  /\ queue = {}
  /\ caller = [c \in Callers |-> Free]
  /\ runs = 0
  /\ sent = [k \in Kinds |-> 0]
  /\ refusals = 0
  /\ overlap = FALSE

rows == <<clock, post, astray, strays>>

\* Asia/Tashkent is ahead of the database's UTC.
LocalToday == clock \in {0, 1}
DatabaseToday == clock \in {1, 2}

TimePasses ==
  /\ clock < 3
  /\ clock' = clock + 1
  /\ UNCHANGED <<post, astray, strays, backoff, queue, caller, runs, sent, refusals, overlap>>

\* A late message of the day before, or generate_daily of the next, creates its row on this date.
OtherDaysRow ==
  /\ DatabaseToday /\ strays < MaxStrays
  /\ strays' = strays + 1
  /\ UNCHANGED <<clock, post, astray, backoff, queue, caller, runs, sent, refusals, overlap>>

Begin(c, kinds) ==
  /\ caller[c] = Free /\ runs < MaxRuns
  /\ runs' = runs + 1
  /\ caller' = [caller EXCEPT ![c] = [Free EXCEPT !.at = "get", !.todo = kinds]]
  /\ overlap' = (overlap \/ \E o \in Callers : caller[o] # Free)

\* POST /admin/content/daily
GenerateDaily(c) ==
  /\ LocalToday
  /\ Begin(c, Planned)
  /\ UNCHANGED <<rows, backoff, queue, sent, refusals>>

\* ContentScheduleService.enqueue_daily
EnqueueDaily ==
  /\ LocalToday
  /\ queue = {} /\ runs < MaxRuns
  /\ queue' = Kinds
  /\ UNCHANGED <<rows, backoff, caller, runs, sent, refusals, overlap>>

\* process_scheduled_message: the day is the message's, however late it comes.
ProcessScheduled(c, k) ==
  /\ k \in queue
  /\ queue' = queue \ {k}
  /\ Begin(c, <<k>>)
  /\ UNCHANGED <<rows, backoff, sent, refusals>>

\* The caller is done with the kind at the head of its list.
NextKind(c) ==
  caller' = [caller EXCEPT ![c] = IF Len(@.todo) = 1 THEN Free
                                  ELSE [Free EXCEPT !.at = "get", !.todo = Tail(caller[c].todo)]]

\* get_by_idempotency_key: a published post, or one whose next attempt is not due, is returned
\* as it is.
Settled(k) == post[k] = "published" \/ (post[k] = "failed" /\ k \in backoff)

Get(c) ==
  LET k == Head(caller[c].todo)
  IN  /\ caller[c].at = "get"
      /\ IF Settled(k) THEN NextKind(c)
         ELSE caller' = [caller EXCEPT ![c].at = "count", ![c].seen = post[k]]
      /\ UNCHANGED <<rows, backoff, queue, runs, sent, refusals, overlap>>

\* count_posts: the rows created on the database's date of the day, whatever their status and
\* whichever day's key they have.
PostsToday == Cardinality({k \in Kinds : post[k] # None} \ astray) + strays

\* Mutant: one post more than the limit is allowed.
CapReachedLate == PostsToday > DailyPostLimit

CapReached == PostsToday >= DailyPostLimit

\* _render finds nothing to say of offers when no listing of the day qualifies; the report is
\* always there, and the repository's district_stats is always empty.
Renders(k, text) ==
  /\ k = "transparency_report" => text
  /\ k = "district_stats" => ~text

\* Over the limit, or with nothing to say, the kind is left alone.
Count(c, text) ==
  LET k == Head(caller[c].todo)
  IN  /\ caller[c].at = "count"
      /\ Renders(k, text)
      /\ IF CapReached \/ ~text THEN NextKind(c)
         ELSE caller' = [caller EXCEPT ![c].at = "publish"]
      /\ UNCHANGED <<rows, backoff, queue, runs, sent, refusals, overlap>>

\* The call to Telegram: accepted, refused for now, refused for good, or accepted with the
\* answer lost, which the code takes for a retryable failure.
Publish(c, outcome) ==
  LET k == Head(caller[c].todo)
  IN  /\ caller[c].at = "publish"
      /\ outcome = "permanent" => refusals < MaxPermanent
      /\ sent' = IF outcome \in {"ok", "lost"} THEN [sent EXCEPT ![k] = @ + 1] ELSE sent
      /\ refusals' = IF outcome = "permanent" THEN refusals + 1 ELSE refusals
      /\ caller' = [caller EXCEPT ![c].at = outcome]
      /\ overlap' = (overlap \/ outcome = "lost")
      /\ UNCHANGED <<rows, backoff, queue, runs>>

Outcomes == {"ok", "lost", "retryable", "permanent"}

\* save_post of the repository selects by post_id: the row the call has seen, which keeps its
\* created_at, or else a new one.
Saved(k, seen, status, later) ==
  /\ post' = [post EXCEPT ![k] = status]
  /\ astray' = IF seen = None /\ ~DatabaseToday THEN astray \cup {k} ELSE astray
  /\ backoff' = IF later THEN backoff \cup {k} ELSE backoff \ {k}

\* A new row for a key that got one meanwhile breaks the unique key, and the call ends.
KeyTaken(c) == caller[c].seen = None /\ post[Head(caller[c].todo)] # None

\* Only a retryable failure gets a next_attempt_at.
SavePost(c) ==
  LET k == Head(caller[c].todo)
  IN  /\ caller[c].at \in Outcomes
      /\ IF KeyTaken(c)
         THEN caller' = [caller EXCEPT ![c] = Free] /\ UNCHANGED <<post, astray, backoff>>
         ELSE /\ Saved(k, caller[c].seen, IF caller[c].at = "ok" THEN "published" ELSE "failed",
                       caller[c].at \in {"lost", "retryable"})
              /\ NextKind(c)
      /\ UNCHANGED <<clock, strays, queue, runs, sent, refusals, overlap>>

BackoffPasses(k) ==
  /\ k \in backoff
  /\ backoff' = backoff \ {k}
  /\ UNCHANGED <<rows, queue, caller, runs, sent, refusals, overlap>>

\* The process stops, or a statement fails and the call with it.
Crash(c) ==
  /\ caller[c] # Free
  /\ overlap' = (overlap \/ caller[c].at = "ok")
  /\ caller' = [caller EXCEPT ![c] = Free]
  /\ UNCHANGED <<rows, backoff, queue, runs, sent, refusals>>

Next ==
  \/ TimePasses \/ OtherDaysRow \/ EnqueueDaily
  \/ \E c \in Callers :
       \/ GenerateDaily(c) \/ \E k \in Kinds : ProcessScheduled(c, k)
       \/ Get(c) \/ SavePost(c) \/ Crash(c) \/ \E text \in BOOLEAN : Count(c, text)
       \/ \E outcome \in Outcomes : Publish(c, outcome)
  \/ \E k \in Kinds : BackoffPasses(k)

Spec == Init /\ [][Next]_vars

----------------------------------------------------------------------------

\* The channel gets each kind of post of a day at most once, and no more posts than the limit of
\* those whose row is created on the database's date of the day, through retries, refusals and
\* repeated schedules, unless two calls overlap or the answer to a post that was accepted is lost
\* ("Content automation must be capped at 1-2 posts per day").  The posts that escape the cap are
\* those of the hours in which the two dates differ: from midnight to five in Tashkent.
CappedUnlessOverlap ==
  \/ overlap
  \/ /\ \A k \in Kinds : sent[k] <= 1
     /\ Cardinality({k \in Kinds : sent[k] > 0} \ astray) <= DailyPostLimit
=============================================================================
