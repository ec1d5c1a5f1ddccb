---------------------------- MODULE MCDecisions ----------------------------
(***************************************************************************)
(* Decisions for TLC: in every behavior one of the procedures runs and the *)
(* others stay as they are.                                                *)
(*                                                                         *)
(* Extraction: answers on both sides of every threshold (40, 60 and 72     *)
(* percent) and of every classification branch; one answer that breaks the *)
(* schema.  Duplicates: every comparison alone, and pairs that differ in   *)
(* the signals the score thresholds separate.  Post-AI: three              *)
(* announcements, alike or not in every pairing, two workers, one failure  *)
(* and one admin action.                                                   *)
(***************************************************************************)
EXTENDS Decisions, TLC

CONSTANTS a1, a2, a3, w1, w2

VARIABLE which       \* the procedure this behaviour runs

dedupVars == <<repository, limit, stored, found, position, best, decision>>
postVars == <<input, queue, row, review, published, handled, worker, admin, faults,
              actions, interrupted, clock, since, stale, outlived, crossed>>

MCPaired ==
    [sibling: {FALSE}, url: {FALSE}, origin: {FALSE}, image: {"far"},
     district: {"same", "other"}, rooms: BOOLEAN, area: {"within"},
     price: {"within", "off"}, floor: {TRUE}, address: BOOLEAN,
     description: BOOLEAN, phone: BOOLEAN]

MCAnnouncements == {a1, a2, a3}
MCWorkers == {w1, w2}
Pairs == {S \in SUBSET MCAnnouncements : Cardinality(S) = 2}

Alike == [a \in MCAnnouncements |-> {1}]
Unlike == {f \in [MCAnnouncements -> {{1}, {1, 2}, {3}}] :
             \A a, b \in MCAnnouncements : a # b => f[a] # f[b]}

Verdicts(v, n) ==
  {l \in [Pairs -> {v, "merge", "new"}] : Cardinality({p \in Pairs : l[p] = v}) = n}

\* Of what goes to an admin there is one thing, among listings alike.
MCInputs ==
  [flagged: {{}}, likeness: Verdicts("new", 0) \cup Verdicts("new", 1),
   fields: ([MCAnnouncements -> {{1}, {1, 2}}]
              \ {[a \in MCAnnouncements |-> {1, 2}]}) \cup Unlike]
  \cup
  [flagged: {{a} : a \in MCAnnouncements}, likeness: Verdicts("new", 0) \cup Verdicts("new", 1),
   fields: {Alike}]
  \cup
  [flagged: {{}}, likeness: Verdicts("review", 1), fields: {Alike}]

ASSUME D!Constants /\ P!Constants

Symmetry == Permutations(MCAnnouncements) \cup Permutations(MCWorkers)

Classes ==
  {<<"yes", "rent">>, <<"yes", "sale">>, <<"no", "rent">>, <<"no", "null">>,
   <<"null", "null">>, <<"null", "rent">>}

Gaps == {<<TRUE, 0>>, <<TRUE, 1>>, <<FALSE, 0>>}

MCRequests ==
  {[policy |-> "listing_quality", required |-> 0], [policy |-> "listing_quality", required |-> 1],
   [policy |-> "confidence_only", required |-> 0]}

Answer(ok, class, core, gap, conf, rentalConf) ==
  [schema |-> ok, rental |-> class[1], type |-> class[2], core |-> core,
   essential |-> gap[1], missing |-> gap[2], conf |-> conf, rentalConf |-> rentalConf]

MCAnswers ==
  {Answer(FALSE, <<"null", "null">>, 0, <<FALSE, 0>>, 80, 80)} \cup
  {Answer(TRUE, class, core, gap, conf, rentalConf) :
     class \in Classes, core \in {1, 2, 5, 6}, gap \in Gaps,
     conf \in {35, 50, 65, 80}, rentalConf \in {80}} \cup
  {Answer(TRUE, <<"yes", "rent">>, 5, gap, conf, 60) : gap \in Gaps, conf \in {65, 80}}

NoExtraction ==
  /\ request = Nothing /\ stage = 0 /\ candidates = {} /\ outcome = "none"
  /\ selected = Nothing /\ answered = {}
NoComparison ==
  /\ repository = "" /\ limit = 1 /\ stored = <<>> /\ found = {} /\ position = 0 /\ best = 0
  /\ decision = "none"
NoWorkers ==
  /\ input = Nothing /\ queue = {} /\ row = [a \in Announcements |-> P!Absent]
  /\ review = <<>> /\ published = {} /\ handled = {} /\ worker = <<>>
  /\ admin = Nothing /\ faults = 0 /\ actions = 0 /\ interrupted = {} /\ crossed = FALSE
  /\ clock = 1 /\ since = <<>> /\ stale = {} /\ outlived = FALSE

MCInit ==
  \/ which = "extraction" /\ Init /\ NoComparison /\ NoWorkers
  \/ which = "dedup" /\ D!Init /\ (DOMAIN stored = {1} => limit = 1) /\ NoExtraction /\ NoWorkers
  \/ which = "postai" /\ P!Init /\ NoExtraction /\ NoComparison

MCNext ==
  \/ which = "extraction" /\ Next /\ UNCHANGED <<which, dedupVars, postVars>>
  \/ which = "dedup" /\ D!Next /\ UNCHANGED <<which, vars, postVars>>
  \/ which = "postai" /\ P!Next /\ UNCHANGED <<which, vars, dedupVars>>

MCSpec == MCInit /\ [][MCNext]_<<which, vars, dedupVars, postVars>>
=============================================================================
