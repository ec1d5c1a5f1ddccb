--------------------------- MODULE SourceBinding ---------------------------
(***************************************************************************)
(* The parser binding of one ingestion source: the patch-style merge of    *)
(* services/source_config.py and the two writers of the row, the admin     *)
(* API's POST /admin/sources/enable (SQLAlchemySourceConfigRepository) and *)
(* the deployment's bootstrap job (services/ingestion_bootstrap/main.py).  *)
(*                                                                         *)
(* A writer loads the row, merges its patch, validates the merged binding  *)
(* and commits.  Nothing locks the row, and the ORM writes only the columns*)
(* whose value differs from what was loaded.                               *)
(***************************************************************************)
EXTENDS SourceParsing

CONSTANTS Writers,      \* admin requests and the bootstrap job
          Keys,         \* parser keys a patch may carry
          Configs,      \* parser configs a patch may carry
          Versions,     \* parser versions a patch may carry
          Modes,        \* parser modes a patch may carry
          MaxWrites     \* bound: merges committed or refused

VARIABLES
  row,         \* the ingestion_sources row, or NoRow
  job,         \* the merge each writer has in flight
  givenFor,    \* history: the effective key the stored config was given for
  writes,
  overlapped   \* history: a row was committed from a stale load

bindingVars == <<row, job, givenFor, writes, overlapped>>

Absent == "absent"                     \* a field the patch leaves out
NoRow == [exists |-> FALSE, enabled |-> FALSE, key |-> Unset, profile |-> Unset,
          version |-> Unset, config |-> NoConfig, mode |-> "active"]
NoJob == [pc |-> "idle", patch |-> [key |-> Absent], loaded |-> NoRow]

Init ==
  /\ row = NoRow
  /\ job = [w \in Writers |-> NoJob]
  /\ givenFor = Unset /\ writes = 0 /\ overlapped = FALSE

\* parser_key_from_legacy_profile, SourceConfig.effective_parser_key
LegacyKey(profile) ==
  IF profile = "caption_first" THEN "generic.album_caption" ELSE "generic.single_listing"
EffectiveKey(key, profile) == IF key # Unset THEN key ELSE LegacyKey(profile)
KeyOf(r) == EffectiveKey(r.key, r.profile)

Patches ==
  [key : Keys \cup {Absent}, profile : {Absent, "default", "caption_first"},
   version : Versions \cup {Absent}, config : Configs \cup {[absent |-> TRUE]}, mode : Modes \cup {Absent}]
Given(patch, f) == patch[f] # Absent
ConfigGiven(patch) == patch.config # [absent |-> TRUE]

Pick(patch, f, old) == IF Given(patch, f) THEN patch[f] ELSE old

\* Mutant: identity is compared by the stored key alone.
MergeByStoredKey(r, patch) ==
  LET key == Pick(patch, "key", r.key)
      changed == r.exists /\ key # r.key
  IN [exists |-> TRUE, enabled |-> TRUE, key |-> key, profile |-> Pick(patch, "profile", r.profile),
      version |-> IF Given(patch, "version") THEN patch.version ELSE IF changed THEN Unset ELSE r.version,
      config |-> IF ConfigGiven(patch) THEN patch.config ELSE IF changed THEN NoConfig ELSE r.config,
      mode |-> Pick(patch, "mode", r.mode)]

\* merge_source_parser_binding: version and config do not survive a change of the effective key.
Merge(r, patch) ==
  LET key == Pick(patch, "key", r.key)
      profile == Pick(patch, "profile", r.profile)
      changed == r.exists /\ EffectiveKey(key, profile) # KeyOf(r)
  IN [exists |-> TRUE, enabled |-> TRUE, key |-> key, profile |-> profile,
      version |-> IF Given(patch, "version") THEN patch.version ELSE IF changed THEN Unset ELSE r.version,
      config |-> IF ConfigGiven(patch) THEN patch.config ELSE IF changed THEN NoConfig ELSE r.config,
      mode |-> Pick(patch, "mode", r.mode)]

Binding(r) == [key |-> KeyOf(r), config |-> r.config, mode |-> r.mode]

\* validate_source_config_parser_binding on the merged source
Accepts(r) == ValidBinding(Binding(r))

\* The API and parse_source_specs validate a patch that names a key on its own, first.
PatchAccepted(patch) ==
  Given(patch, "key") =>
    ValidBinding([key |-> patch.key, mode |-> IF Given(patch, "mode") THEN patch.mode ELSE "active",
                  config |-> IF ConfigGiven(patch) THEN patch.config ELSE NoConfig])

\* create_or_enable_source: load ...
Load(w) ==
  /\ job[w].pc = "idle" /\ writes < MaxWrites
  /\ \E patch \in Patches :
       /\ PatchAccepted(patch)
       /\ job' = [job EXCEPT ![w] = [pc |-> "merge", patch |-> patch, loaded |-> row]]
  /\ writes' = writes + 1
  /\ UNCHANGED <<row, givenFor, overlapped>>

\* ... an invalid merge raises before anything is written ...
Refuse(w) ==
  /\ job[w].pc = "merge" /\ ~Accepts(Merge(job[w].loaded, job[w].patch))
  /\ job' = [job EXCEPT ![w] = NoJob]
  /\ UNCHANGED <<row, givenFor, writes, overlapped>>

\* ... and a valid one commits the columns that differ from the loaded row.
Flush(loaded, merged) ==
  [f \in DOMAIN merged |-> IF merged[f] # loaded[f] THEN merged[f] ELSE row[f]]
Commit(w) ==
  LET loaded == job[w].loaded
      merged == Merge(loaded, job[w].patch)
  IN /\ job[w].pc = "merge" /\ Accepts(merged)
     /\ ~(loaded.exists = FALSE /\ row.exists)        \* a second insert breaks the primary key
     /\ row' = Flush(loaded, merged)
     /\ givenFor' = IF ConfigGiven(job[w].patch) THEN KeyOf(merged) ELSE givenFor
     /\ overlapped' = (overlapped \/ row # loaded)
     /\ job' = [job EXCEPT ![w] = NoJob]
     /\ UNCHANGED writes

InsertConflict(w) ==
  /\ job[w].pc = "merge" /\ ~job[w].loaded.exists /\ row.exists
  /\ Accepts(Merge(job[w].loaded, job[w].patch))
  /\ job' = [job EXCEPT ![w] = NoJob]
  /\ UNCHANGED <<row, givenFor, writes, overlapped>>

\* an operator switches the source off in the database
Disable ==
  /\ row.exists /\ row.enabled
  /\ row' = [row EXCEPT !.enabled = FALSE]
  /\ UNCHANGED <<job, givenFor, writes, overlapped>>

Next == Disable \/ \E w \in Writers : Load(w) \/ Refuse(w) \/ Commit(w) \/ InsertConflict(w)

Spec == Init /\ [][Next]_bindingVars

-----------------------------------------------------------------------------
\* "without carrying policy across identities": the stored config was given for the parser the
\* row resolves to, and key, config and mode were validated as a whole, through any sequence of
\* partial patches of key, profile and config, unless a row was committed from a stale load: two
\* writers that each change one column can store a pair nobody validated.
PolicyStaysWithParser ==
  row.exists /\ ~overlapped =>
    /\ row.config # NoConfig => givenFor = KeyOf(row)
    /\ ValidBinding(Binding(row))
=============================================================================
