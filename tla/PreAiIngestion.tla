--------------------------- MODULE PreAiIngestion ---------------------------
(***************************************************************************)
(* The pre-AI stage (services/worker_pre_ai, ingestion_pipeline.py,        *)
(* pre_ai_dedup.py): a worker takes a raw message, parses it, quarantines  *)
(* what the parser set aside, and for every candidate asks the duplicate   *)
(* filter, publishes it to the AI queue and adds its fingerprints to an    *)
(* index that lives in the worker process.                                 *)
(*                                                                         *)
(* Messages of one forward origin carry the same post.  Two texts have the *)
(* same hash when they tell of the same listings; the weak signals (near   *)
(* text, shared phone, media hash) only mark an event for review.          *)
(***************************************************************************)
EXTENDS SourceParsing

CONSTANTS
  Messages, EventOf, BindingOf, OriginOf, \* the posts that may arrive: event, binding, forward origin
  Workers, MaxRetries, MaxArrivals, MaxFaults

VARIABLES
  raw,      \* the raw queue: message -> "new", "ready", "taken", "acked", "dead"
  tries,    \* redeliveries so far, metadata "attempts"
  proc,     \* what each worker process is doing
  index,    \* the fingerprints in each worker's memory, oldest first
  ai,       \* the events in the AI queue, in the order they were published
  quarantine, \* the (message, listings) pairs in the quarantine queue
  faults    \* crashes and doubtful publishes so far, at most MaxFaults

vars == <<raw, tries, proc, index, ai, quarantine, faults>>

ListingsOf(m) == UNION {EventOf[m].segs[i].listings : i \in DOMAIN EventOf[m].segs}

Policies == {"emit", "quarantine", "drop"}

\* A text is a finite sequence of blocks; copies of one forward tell of the same listings; the
\* policies of a recipe are those its contract admits.
Constants ==
  /\ Unset \notin Messages
  /\ \A m \in Messages :
       LET segs == EventOf[m].segs
       IN  /\ segs \in Seq({segs[i] : i \in DOMAIN segs})
           /\ \A r \in ResolveRecipe(BindingOf[m]) :
                {r.unmatched, r.below, r.empty, r.excluded} \subseteq Policies
  /\ \A m, n \in Messages :
       OriginOf[m] # Unset /\ OriginOf[m] = OriginOf[n] => ListingsOf(m) = ListingsOf(n)

Idle == [msg |-> Unset, quar |-> << >>, cands |-> << >>, adding |-> FALSE]

EffectiveOf(m) == Effective(EventOf[m], Parse(EventOf[m], BindingOf[m]))

\* Mutant: the candidates of a digest keep the raw message's source identity.
ToEventNotIsolated(m, c) ==
  [parent |-> m, key |-> IF c.raw_id THEN <<m>> ELSE <<m, c.index>>, slot |-> 0,
   origin |-> OriginOf[m], text |-> c.listings,
   album |-> IF ~c.media THEN Unset ELSE IF OriginOf[m] # Unset THEN OriginOf[m] ELSE m]

ToEvent(m, c) ==
  LET isolate == c.slot # 0 \/ Len(EffectiveOf(m).cands) > 1
  IN  [parent |-> m, key |-> IF c.raw_id THEN <<m>> ELSE <<m, c.index>>,
       slot |-> IF isolate THEN c.index ELSE 0,
       origin |-> OriginOf[m], text |-> c.listings,
       album |-> IF ~c.media THEN Unset ELSE IF OriginOf[m] # Unset THEN OriginOf[m] ELSE m]

Init ==
  /\ raw = [m \in Messages |-> "new"]
  /\ tries = [m \in Messages |-> 0]
  /\ proc = [w \in Workers |-> Idle]
  /\ index = [w \in Workers |-> << >>]
  /\ ai = << >>
  /\ quarantine = {}
  /\ faults = 0

----------------------------------------------------------------------------
(* The duplicate filter *)

Siblings(e, f) == e.parent = f.parent /\ e.key # f.key

ForwardMatch(e, seen) ==
  /\ e.origin # Unset
  /\ \E i \in DOMAIN seen : seen[i].origin = e.origin /\ ~Siblings(e, seen[i])

TextMatch(e, seen) == e.text # {} /\ \E i \in DOMAIN seen : seen[i].text = e.text

\* The weak signals: some but not all words, or the same media.
Ambiguous(e, seen) ==
  \E i \in DOMAIN seen : \/ seen[i].text \cap e.text # {}
                         \/ e.album # Unset /\ seen[i].album = e.album

Decision(e, seen) ==
  IF ForwardMatch(e, seen) \/ TextMatch(e, seen) THEN "high_confidence_duplicate"
  ELSE IF Ambiguous(e, seen) THEN "needs_reviewable_signal"
  ELSE "proceed_to_ai"

----------------------------------------------------------------------------
(* The raw queue *)

Arrive(m) ==
  /\ raw[m] = "new"
  /\ Cardinality({n \in Messages : raw[n] # "new"}) < MaxArrivals
  /\ raw' = [raw EXCEPT ![m] = "ready"]
  /\ UNCHANGED <<tries, proc, index, ai, quarantine, faults>>

Take(w, m) ==
  /\ proc[w] = Idle /\ raw[m] = "ready"
  /\ raw' = [raw EXCEPT ![m] = "taken"]
  /\ LET outcome == Parse(EventOf[m], BindingOf[m])
         effective == Effective(EventOf[m], outcome)
     IN  proc' = [proc EXCEPT ![w] =
           [msg |-> m, quar |-> Quarantines(EventOf[m], outcome), adding |-> FALSE,
            cands |-> IF effective.decision = "emit" THEN effective.cands ELSE << >>]]
  /\ UNCHANGED <<tries, index, ai, quarantine, faults>>

\* RabbitStageConsumer: an exception retries the message, up to MaxRetries times.
Failed(w) ==
  LET m == proc[w].msg
  IN  /\ proc' = [proc EXCEPT ![w] = Idle]
      /\ IF tries[m] < MaxRetries
         THEN /\ raw' = [raw EXCEPT ![m] = "ready"]
              /\ tries' = [tries EXCEPT ![m] = @ + 1]
         ELSE /\ raw' = [raw EXCEPT ![m] = "dead"]
              /\ UNCHANGED tries

PublishQuarantine(w) ==
  /\ proc[w] # Idle /\ proc[w].quar # << >>
  /\ quarantine' = quarantine \cup {<<proc[w].msg, Head(proc[w].quar).listings>>}
  /\ proc' = [proc EXCEPT ![w].quar = Tail(@)]
  /\ UNCHANGED <<raw, tries, index, ai, faults>>

\* The publish to the quarantine queue or to the AI queue raises, nothing stored.
PublishRaises(w) ==
  /\ proc[w] # Idle /\ ~proc[w].adding
  /\ proc[w].quar # << >> \/ proc[w].cands # << >>
  /\ proc[w].quar = << >> =>
       Decision(ToEvent(proc[w].msg, Head(proc[w].cands)), index[w]) # "high_confidence_duplicate"
  /\ Failed(w)
  /\ UNCHANGED <<index, ai, quarantine, faults>>

Current(w) == ToEvent(proc[w].msg, Head(proc[w].cands))

AtCandidate(w) == proc[w].quar = << >> /\ proc[w].cands # << >> /\ ~proc[w].adding

SkipDuplicate(w) ==
  /\ AtCandidate(w)
  /\ Decision(Current(w), index[w]) = "high_confidence_duplicate"
  /\ proc' = [proc EXCEPT ![w].cands = Tail(@)]
  /\ UNCHANGED <<raw, tries, index, ai, quarantine, faults>>

Published(w) ==
  Append(ai, [event |-> Current(w), decision |-> Decision(Current(w), index[w]), by |-> w])

PublishCandidate(w) ==
  /\ AtCandidate(w)
  /\ Decision(Current(w), index[w]) # "high_confidence_duplicate"
  /\ ai' = Published(w)
  /\ proc' = [proc EXCEPT ![w].adding = TRUE]
  /\ UNCHANGED <<raw, tries, index, quarantine, faults>>

\* The broker stored the event and its confirmation is lost: publish raises all the same.
PublishInDoubt(w) ==
  /\ AtCandidate(w) /\ faults < MaxFaults
  /\ Decision(Current(w), index[w]) # "high_confidence_duplicate"
  /\ ai' = Published(w)
  /\ Failed(w)
  /\ faults' = faults + 1
  /\ UNCHANGED <<index, quarantine>>

AddSignals(w) ==
  /\ proc[w].adding
  /\ index' = [index EXCEPT ![w] = Append(@, Current(w))]
  /\ proc' = [proc EXCEPT ![w].cands = Tail(@), ![w].adding = FALSE]
  /\ UNCHANGED <<raw, tries, ai, quarantine, faults>>

Ack(w) ==
  /\ proc[w] # Idle /\ proc[w].quar = << >> /\ proc[w].cands = << >>
  /\ raw' = [raw EXCEPT ![proc[w].msg] = "acked"]
  /\ proc' = [proc EXCEPT ![w] = Idle]
  /\ UNCHANGED <<tries, index, ai, quarantine, faults>>

\* The process ends: its index is gone, its message goes back to the queue.
Crash(w) ==
  /\ faults < MaxFaults
  /\ raw' = IF proc[w] = Idle THEN raw ELSE [raw EXCEPT ![proc[w].msg] = "ready"]
  /\ proc' = [proc EXCEPT ![w] = Idle]
  /\ index' = [index EXCEPT ![w] = << >>]
  /\ faults' = faults + 1
  /\ UNCHANGED <<tries, ai, quarantine>>

Next ==
  \/ \E m \in Messages : Arrive(m)
  \/ \E w \in Workers :
       \/ \E m \in Messages : Take(w, m)
       \/ PublishQuarantine(w) \/ PublishRaises(w) \/ SkipDuplicate(w)
       \/ PublishCandidate(w) \/ PublishInDoubt(w) \/ AddSignals(w) \/ Ack(w) \/ Crash(w)

Spec == Init /\ [][Next]_vars

----------------------------------------------------------------------------

InAi(l) == \E i \in DOMAIN ai : l \in ai[i].event.text

InQuarantine(l) == \E q \in quarantine : l \in q[2]

\* The recipe of m asks for this listing to be dropped: its text matches an exclude marker, it
\* is shorter than min_segment_chars, a policy of the recipe is "drop", or the recipe does not
\* keep a text its patterns do not cut.
DropAsked(m, l) ==
  LET segs == EventOf[m].segs
      own == {i \in DOMAIN segs : l \in segs[i].listings}
  IN  \E r \in ResolveRecipe(BindingOf[m]) :
         \/ "drop" \in {r.unmatched, r.below, r.empty}
         \/ r.excluded = "drop" /\ \E i \in (IF Splits(r) THEN own ELSE DOMAIN segs) : segs[i].excluded
         \/ Splits(r) /\ \E i \in own : segs[i].short
         \/ Splits(r) /\ ~r.keep /\ Len(segs) = 1

SameOrigin(m) == {n \in Messages : n = m \/ (OriginOf[m] # Unset /\ OriginOf[n] = OriginOf[m])}

\* Every listing of an acknowledged raw message is in the AI queue or in quarantine, was dropped
\* by a recipe's own rules, or waits in another copy of the same forward that is still to be
\* retried or was dead-lettered: the duplicate filter, a half-finished fan-out that is retried,
\* and a lost index never make a listing vanish (process_raw_queue_message).  This is so with one
\* worker; two, with an index each, can each acknowledge its copy as the other's duplicate.
AckedIsAccounted ==
  \A m \in Messages : raw[m] = "acked" =>
    \A l \in ListingsOf(m) :
      \/ InAi(l) \/ InQuarantine(l)
      \/ \E n \in SameOrigin(m) : DropAsked(n, l) \/ raw[n] \in {"ready", "taken", "dead"}

\* The events of one raw message have different persistence identities, unless they are
\* repetitions of the same candidate: the announcement table is unique by source message id.
IdentitiesDistinct ==
  \A i, j \in DOMAIN ai :
    LET e == ai[i].event f == ai[j].event
    IN  e.parent = f.parent /\ e.key # f.key => e.slot # f.slot

=============================================================================
