---------------------------- MODULE MCIngestion ----------------------------
(* A post on its way to the AI queue, in one run: the listeners and their   *)
(* album buffers, or the pre-AI worker with its parsers and its filter.     *)
EXTENDS Ingestion, Sequences, TLC

Block(l, markers, signals) ==
  [listings |-> {l}, signals |-> signals, markers |-> markers,
   excluded |-> FALSE, numbered |-> TRUE, short |-> FALSE]

A == Block("a", {"m1"}, {"phone", "price"})
B == Block("b", {"m1", "m2"}, {"price", "rooms", "terms"})
Plain == Block("b", {}, {})
Advert == [Block("c", {"m1"}, {}) EXCEPT !.excluded = TRUE]
Title == [Block("d", {}, {}) EXCEPT !.listings = {}, !.numbered = FALSE]
Stub == [Block("e", {}, {}) EXCEPT !.short = TRUE]

Post(segs, media, changed) == [segs |-> segs, media |-> media, changed |-> changed]
Bind(key, config, mode) == [key |-> key, config |-> config, mode |-> mode]

S == INSTANCE SourceParsing

\* The digest post of channel X, forwarded to three channels with different parsers; a digest
\* with a title, an advert and a stub; a single listing; posts that meet the router's errors,
\* the buffered family, the split limit, the score minimum and the empty text.
MCPosts ==
  [fwd1  |-> [e |-> Post(<<A, B>>, TRUE, FALSE), b |-> Bind("generic.digest_blocks", S!NoConfig, S!Unset), o |-> "X"],
   fwd2  |-> [e |-> Post(<<A, B>>, TRUE, FALSE), b |-> Bind("generic.digest_blocks", S!NoConfig, "active"), o |-> "X"],
   whole |-> [e |-> Post(<<A, B>>, TRUE, FALSE), b |-> Bind("generic.digest_blocks", S!NoConfig, "shadow"), o |-> "X"],
   mixed |-> [e |-> Post(<<Title, A, Plain, Advert, Stub>>, FALSE, TRUE), b |-> Bind("generic.digest_blocks", S!NoConfig, S!Unset), o |-> S!Unset],
   alone |-> [e |-> Post(<<A>>, TRUE, TRUE), b |-> Bind(S!Unset, S!NoConfig, S!Unset), o |-> S!Unset],
   bad   |-> [e |-> Post(<<B>>, FALSE, FALSE), b |-> Bind("generic.mixed_feed", S!BadConfig, S!Unset), o |-> S!Unset],
   typo  |-> [e |-> Post(<<B>>, FALSE, FALSE), b |-> Bind(S!Unset, S!NoConfig, "activ"), o |-> S!Unset],
   plug  |-> [e |-> Post(<<B>>, FALSE, FALSE), b |-> Bind("agency", [family |-> "custom"], S!Unset), o |-> S!Unset],
   off   |-> [e |-> Post(<<B, A>>, FALSE, FALSE), b |-> Bind("agency", S!NoConfig, "disabled"), o |-> S!Unset],
   thread |-> [e |-> Post(<<A, B>>, FALSE, FALSE), b |-> Bind("agency", [family |-> "buffered_thread"], S!Unset), o |-> S!Unset],
   full  |-> [e |-> Post(<<A, B>>, FALSE, FALSE), b |-> Bind("generic.digest_blocks", [max |-> 1], S!Unset), o |-> S!Unset],
   low   |-> [e |-> Post(<<Plain, A>>, FALSE, FALSE), b |-> Bind("agency", [patterns |-> TRUE, minimum |-> 40, media |-> "first_candidate"], S!Unset), o |-> S!Unset],
   empty |-> [e |-> Post(<< >>, FALSE, FALSE), b |-> Bind("generic.mixed_feed", S!NoConfig, S!Unset), o |-> S!Unset]]

MCMessages == DOMAIN MCPosts
MCEventOf == [m \in MCMessages |-> MCPosts[m].e]
MCBindingOf == [m \in MCMessages |-> MCPosts[m].b]
MCOriginOf == [m \in MCMessages |-> MCPosts[m].o]

VARIABLE which     \* the half this behaviour runs

preVars == <<raw, tries, proc, index, ai, quarantine, preFaults>>

ASSUME P!Constants

MCInit ==
  /\ which \in {"album", "preai"}
  /\ Init /\ (which # "album" => post = Parts /\ grouped)
  /\ P!Init

MCNext ==
  \/ which = "album" /\ Next /\ UNCHANGED <<which, preVars>>
  \/ which = "preai" /\ P!Next /\ UNCHANGED <<which, vars>>

MCSpec == MCInit /\ [][MCNext]_<<which, vars, preVars>>

Symmetry == Permutations(Listeners) \cup Permutations(Parts)

=============================================================================
