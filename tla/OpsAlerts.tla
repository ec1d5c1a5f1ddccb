----------------------------- MODULE OpsAlerts -----------------------------
(***************************************************************************)
(* Alerts to the operators' chat (services/ops_notifications.py): one      *)
(* message a reason and window, the repeats counted and reported with the  *)
(* next one, and silence after a 429.  Tasks call notify at the same time; *)
(* each runs at once up to the request and waits for its answer.           *)
(***************************************************************************)
EXTENDS Integers, Sequences

CONSTANTS
  Reasons,    \* (severity, redacted reason)
  Tasks,
  Window,     \* rate_limit_window_seconds
  RetryAfter, \* what a 429 may ask for: its Retry-After header, 60 without one
  MaxTime     \* bound: the clock

\* Times are whole units; the header counts as 1 at least (line 289).
Constants == Window \in Nat /\ RetryAfter \subseteq Nat \ {0}

VARIABLES
  now,
  bucket,     \* _buckets: [lastSent, suppressed], lastSent -1 before the first
  blocked,    \* _blocked_until
  task,       \* what each task waits for
  requests,   \* history: when requests were made for each reason
  refused     \* history: the 429s in the order they came, when each came, how
              \* long it asked to wait, when the request it answers was made

vars == <<now, bucket, blocked, task, requests, refused>>

NoBucket == [lastSent |-> -1, suppressed |-> 0]
Idle == [reason |-> "none", made |-> 0]

Init ==
  /\ now = 0
  /\ bucket = [r \in Reasons |-> NoBucket]
  /\ blocked = 0
  /\ task = [t \in Tasks |-> Idle]
  /\ requests = [r \in Reasons |-> << >>]
  /\ refused = << >>

Tick ==
  /\ now < MaxTime
  /\ now' = now + 1
  /\ UNCHANGED <<bucket, blocked, task, requests, refused>>

Limited(r) == bucket[r].lastSent >= 0 /\ now - bucket[r].lastSent < Window

\* A repeat is counted; in the cooldown it is dropped and changes nothing.
Suppress(t, r) ==
  /\ task[t].reason = "none"
  /\ now >= blocked /\ Limited(r)
  /\ bucket[r].suppressed < 1      \* bound: the count decides nothing, the next message names it
  /\ bucket' = [bucket EXCEPT ![r].suppressed = @ + 1]
  /\ UNCHANGED <<now, blocked, task, requests, refused>>

Request(t, r) ==
  /\ task' = [task EXCEPT ![t] = [reason |-> r, made |-> now]]
  /\ requests' = [requests EXCEPT ![r] = Append(@, now)]

\* Mutant: the window starts when the message has been accepted.
SendMarksLater(t, r) ==
  /\ task[t].reason = "none"
  /\ now >= blocked /\ ~Limited(r)
  /\ Request(t, r)
  /\ UNCHANGED <<now, bucket, blocked, refused>>

\* The window starts, and the count is taken off, before the request is made.
Send(t, r) ==
  /\ task[t].reason = "none"
  /\ now >= blocked /\ ~Limited(r)
  /\ bucket' = [bucket EXCEPT ![r] = [lastSent |-> now, suppressed |-> 0]]
  /\ Request(t, r)
  /\ UNCHANGED <<now, blocked, refused>>

\* Accepted, refused with another status, or failed: all the same to the state,
\* so the alert and the repeats it counted are gone when it was not accepted.
Answered(t) ==
  /\ task[t].reason # "none"
  /\ task' = [task EXCEPT ![t] = Idle]
  /\ UNCHANGED <<now, bucket, blocked, requests, refused>>

\* 429: the cooldown counts from this answer and takes the place of the one there
\* was, a longer one too.
RateLimited(t) ==
  /\ task[t].reason # "none"
  /\ \E wait \in RetryAfter :
       /\ blocked' = now + wait
       /\ refused' = Append(refused, [at |-> now, until |-> now + wait, made |-> task[t].made])
  /\ task' = [task EXCEPT ![t] = Idle]
  /\ UNCHANGED <<now, bucket, requests>>

Next ==
  \/ Tick
  \/ \E t \in Tasks : \/ Answered(t) \/ RateLimited(t)
                      \/ \E r \in Reasons : Suppress(t, r) \/ Send(t, r)

Spec == Init /\ [][Next]_vars

-----------------------------------------------------------------------------
(* Properties                                                              *)

\* The answer of a request made before the 429 i came cut its cooldown short: it
\* came later and its own cooldown was over by time m.
CutShort(i, m) ==
  \E j \in i + 1 .. Len(refused) : refused[j].made <= refused[i].at /\ refused[j].until <= m

WindowsApart ==
  \A r \in Reasons : \A i \in 2 .. Len(requests[r]) :
    requests[r][i] - requests[r][i - 1] >= Window

CooldownsKept ==
  \A r \in Reasons : \A n \in DOMAIN requests[r], i \in DOMAIN refused :
    requests[r][n] > refused[i].at /\ requests[r][n] < refused[i].until =>
      CutShort(i, requests[r][n])

\* Whatever tasks fail at the same time, two requests for one reason are a window
\* apart, also while an answer is awaited, and none is made in the cooldown any
\* 429 began, unless a request in flight with it was refused later for a shorter
\* time.
AlertsAreSpaced == WindowsApart /\ CooldownsKept
=============================================================================
