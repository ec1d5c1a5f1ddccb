--------------------------- MODULE SourceParsing ---------------------------
(***************************************************************************)
(* How one raw Telegram message becomes listing candidates                 *)
(* (services/source_parsing): the router resolves a parser recipe from the *)
(* message's binding, the recipe parser splits the text into blocks and    *)
(* sorts every block into emitted, quarantined or dropped.                 *)
(*                                                                         *)
(* A text is the sequence of the blocks the split patterns would cut it    *)
(* into.  A block is abstracted to what the filters and the score see of   *)
(* it: the listings it tells of, its quality signals, the include markers  *)
(* that match, whether an exclude marker does, whether it starts with a    *)
(* number, and whether it is shorter than min_segment_chars.               *)
(***************************************************************************)
EXTENDS Naturals, Sequences, FiniteSets

Unset == "none"

ParserModes == {"active", "shadow", "disabled"}

\* Signal weights of transparent_candidate_score, in hundredths.
Weight == [text |-> 20, phone |-> 20, price |-> 20, rooms |-> 10, terms |-> 15, media |-> 5]

BaseRecipe ==
  [key |-> "generic.single_listing", family |-> "single_listing", patterns |-> FALSE,
   keep |-> TRUE, max |-> 25, include |-> FALSE, unmatched |-> "emit", excluded |-> "drop",
   empty |-> "quarantine", minimum |-> 0, below |-> "quarantine", media |-> "auto"]

BuiltInRecipes ==
  { [BaseRecipe EXCEPT !.empty = "emit"],
    [BaseRecipe EXCEPT !.key = "generic.digest_blocks", !.family = "digest_blocks",
                       !.include = TRUE, !.unmatched = "quarantine"],
    [BaseRecipe EXCEPT !.key = "generic.album_caption", !.family = "album_caption",
                       !.empty = "emit"],
    [BaseRecipe EXCEPT !.key = "generic.mixed_feed", !.family = "mixed_feed",
                       !.include = TRUE, !.unmatched = "quarantine"] }

Registered(key) == {r \in BuiltInRecipes : r.key = key}

Fallback == CHOOSE r \in BuiltInRecipes : r.key = "generic.single_listing"

\* An inline parser_config overrides the fields it names and leaves the others.
Merged(base, config) ==
  [f \in DOMAIN base |-> IF f \in DOMAIN config THEN config[f] ELSE base[f]]

----------------------------------------------------------------------------
(* The router *)

\* A binding is [key, config, mode].  The config is a record of overrides, NoConfig, or
\* BadConfig: it does not validate, or it names parser_key or parser_version.
NoConfig == [f \in {} |-> Unset]
BadConfig == [invalid |-> TRUE]

HasConfig(b) == DOMAIN b.config # {}

\* The recipe of a binding as a set: empty when resolving it raises.
ResolveRecipe(b) ==
  LET base == Registered(b.key)
      merged == { [Merged(r, b.config) EXCEPT !.key = IF b.key = Unset THEN "source" ELSE b.key] :
                  r \in IF base = {} THEN {BaseRecipe} ELSE base }
  IN  IF ~HasConfig(b) THEN (IF base # {} THEN base ELSE {Fallback})
      ELSE IF "invalid" \in DOMAIN b.config THEN {}
      ELSE {r \in merged : r.family = "custom" => base = {}}

ModeOf(b) == IF b.mode = Unset THEN "active" ELSE b.mode

KnownKey(b) == b.key = Unset \/ HasConfig(b) \/ Registered(b.key) # {}

\* Mutant: the plugin of a custom recipe is not asked for.
ValidBindingAnyPlugin(b) ==
  ModeOf(b) \in ParserModes /\ KnownKey(b) /\ ResolveRecipe(b) # {}

\* validate_source_parser_binding: what the admin API and the bootstrap accept.
ValidBinding(b) ==
  /\ ModeOf(b) \in ParserModes
  /\ KnownKey(b)
  /\ \E r \in ResolveRecipe(b) : r.family # "custom"

----------------------------------------------------------------------------
(* Blocks and their scores *)

\* A finite set of numbers as a sequence, in ascending order.
InOrder(T) ==
  [n \in 1 .. Cardinality(T) |-> CHOOSE i \in T : Cardinality({j \in T : j <= i}) = n]

WholeText(segs) ==
  [listings |-> UNION {segs[i].listings : i \in DOMAIN segs},
   signals  |-> UNION {segs[i].signals : i \in DOMAIN segs},
   markers  |-> UNION {segs[i].markers : i \in DOMAIN segs},
   excluded |-> \E i \in DOMAIN segs : segs[i].excluded,
   numbered |-> segs[1].numbered,
   short    |-> \A i \in DOMAIN segs : segs[i].short]

EmptyBlock == [listings |-> {}, signals |-> {}, markers |-> {}, excluded |-> FALSE,
               numbered |-> FALSE, short |-> FALSE]

Splits(recipe) == recipe.family = "digest_blocks" \/ recipe.patterns

\* split_listing_blocks: a pattern applies when it cuts the text in more than one part.
Chunks(segs, recipe) ==
  IF Len(segs) > 1 THEN segs
  ELSE IF ~recipe.keep THEN << >> ELSE segs

\* The chunks that are long enough.
Segments(event, recipe) ==
  LET chunks == Chunks(event.segs, recipe)
      long == InOrder({i \in DOMAIN chunks : ~chunks[i].short})
  IN  [n \in 1 .. Len(long) |-> chunks[long[n]]]

Blocks(event, recipe) ==
  LET cut == IF Splits(recipe) THEN Segments(event, recipe)
             ELSE IF event.segs = << >> THEN << >> ELSE << WholeText(event.segs) >>
  IN  IF cut = << >> /\ (event.media \/ recipe.empty = "emit") THEN << EmptyBlock >> ELSE cut

Overflow(event, recipe) == Splits(recipe) /\ Len(Segments(event, recipe)) > recipe.max

Signals(block, event) ==
  block.signals \cup (IF block = EmptyBlock THEN {} ELSE {"text"})
                \cup (IF event.media THEN {"media"} ELSE {})

Score(block, event) ==
  LET Part(s) == IF s \in Signals(block, event) THEN Weight[s] ELSE 0
      total == 5 + Part("text") + Part("phone") + Part("price") + Part("rooms") + Part("terms")
               + Part("media")
               + (IF Cardinality(block.markers) >= 2 THEN 20 ELSE Cardinality(block.markers) * 10)
  IN  IF total > 100 THEN 100 ELSE total

\* The first block of a numbered digest that is not numbered itself is its preamble.
Preamble(blocks, i, recipe) ==
  /\ recipe.key = "generic.digest_blocks" /\ i = 1 /\ Len(blocks) >= 2
  /\ ~blocks[1].numbered
  /\ \E j \in 2 .. Len(blocks) : blocks[j].numbered

FilterPolicy(block, event, recipe) ==
  IF block.excluded THEN recipe.excluded
  ELSE IF block = EmptyBlock /\ ~event.media THEN recipe.empty
  ELSE IF recipe.include /\ block.markers = {} THEN recipe.unmatched
  ELSE "emit"

\* Mutant: a block below the minimum score is dropped whatever the policy says.
PolicyDropsLowScores(blocks, i, event, recipe) ==
  LET policy == FilterPolicy(blocks[i], event, recipe)
  IN  IF Preamble(blocks, i, recipe) THEN "quarantine"
      ELSE IF policy = "emit" /\ Score(blocks[i], event) < recipe.minimum THEN "drop"
      ELSE policy

CandidatePolicy(blocks, i, event, recipe) ==
  LET policy == FilterPolicy(blocks[i], event, recipe)
  IN  IF Preamble(blocks, i, recipe) THEN "quarantine"
      ELSE IF policy = "emit" /\ Score(blocks[i], event) < recipe.minimum
      THEN recipe.below
      ELSE policy

HasMedia(event, recipe, i, count) ==
  /\ event.media
  /\ CASE recipe.media = "all" -> TRUE
       [] recipe.media = "none" -> FALSE
       [] recipe.media = "first_candidate" -> i = 1
       [] OTHER -> recipe.family # "digest_blocks" \/ count = 1

----------------------------------------------------------------------------
(* Outcomes *)

Outcome(decision, mode, cands, quarantined) ==
  [decision |-> decision, mode |-> mode, cands |-> cands, quarantined |-> quarantined]

\* slot is the fan-out index in the candidate's source_message_id, 0 when it keeps the raw one.
Candidate(blocks, i, event, recipe) ==
  [listings |-> blocks[i].listings, index |-> i,
   raw_id   |-> recipe.key = "generic.single_listing" /\ Len(blocks) = 1 /\ ~event.changed,
   slot     |-> IF Len(blocks) > 1 THEN i ELSE 0,
   media    |-> HasMedia(event, recipe, i, Len(blocks))]

\* The indexes of the blocks with this policy, in order.
WithPolicy(blocks, event, recipe, policy) ==
  InOrder({i \in 1 .. Len(blocks) : CandidatePolicy(blocks, i, event, recipe) = policy})

ParseRecipe(event, recipe, mode) ==
  LET blocks == Blocks(event, recipe)
      Picked(policy) == LET ix == WithPolicy(blocks, event, recipe, policy)
                        IN  [n \in 1 .. Len(ix) |-> Candidate(blocks, ix[n], event, recipe)]
      emitted == Picked("emit")
      quarantined == Picked("quarantine")
  IN  IF recipe.family = "buffered_thread" THEN Outcome("buffer", mode, << >>, << >>)
      ELSE IF Overflow(event, recipe) THEN Outcome("quarantine", mode, << >>, << >>)
      ELSE IF blocks = << >> THEN Outcome(recipe.empty, mode, << >>, << >>)
      ELSE Outcome(IF emitted # << >> THEN "emit"
                   ELSE IF quarantined # << >> THEN "quarantine" ELSE "drop",
                   mode, emitted, quarantined)

\* build_passthrough_outcome: the whole text as one candidate with the raw event's identity.
Passthrough(event, mode) ==
  Outcome("emit", mode,
          << [listings |-> UNION {event.segs[i].listings : i \in DOMAIN event.segs},
              index |-> 1, raw_id |-> TRUE, slot |-> 0, media |-> event.media] >>, << >>)

RoutingError(mode) == Outcome("quarantine", mode, << >>, << >>)

\* SourceParserRouter.parse
Parse(event, b) ==
  IF ModeOf(b) \notin ParserModes THEN RoutingError("active")
  ELSE IF ModeOf(b) = "disabled" THEN Passthrough(event, "disabled")
  ELSE IF \A r \in ResolveRecipe(b) : r.family = "custom" THEN RoutingError(ModeOf(b))
  ELSE ParseRecipe(event, CHOOSE r \in ResolveRecipe(b) : TRUE, ModeOf(b))

\* What the ingestion goes on with: a shadow parse emits as before it, a buffer fails open.
Effective(event, outcome) ==
  IF outcome.mode = "shadow" THEN Passthrough(event, "shadow")
  ELSE IF outcome.decision = "buffer" THEN Passthrough(event, "active")
  ELSE outcome

\* What an active outcome sends to the quarantine queue: its blocks, or the raw event.
Quarantines(event, outcome) ==
  IF outcome.mode # "active" THEN << >>
  ELSE IF outcome.quarantined # << >> THEN outcome.quarantined
  ELSE IF outcome.decision = "quarantine" THEN Passthrough(event, "active").cands ELSE << >>
=============================================================================
