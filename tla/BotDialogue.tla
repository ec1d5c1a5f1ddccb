---------------------------- MODULE BotDialogue ----------------------------
(***************************************************************************)
(* One user's dialogue with the bot (bot/controller.py): the search wizard,*)
(* the free-text search, saving and editing filters and suggesting a       *)
(* source, with the Mini App writing the same user's filters.              *)
(*                                                                         *)
(* The bot handles updates as concurrent tasks.  A handler runs to its     *)
(* first database, model or service call at once; what it does after the   *)
(* call is a step of its own (a task).  A criteria is the set of wizard    *)
(* steps that were given a value.                                          *)
(***************************************************************************)
EXTENDS Naturals, Sequences, FiniteSets

CONSTANTS
  Order,      \* the wizard's steps, the last one "done"
  Filters,    \* ids of saved filters
  MaxFilters, \* max_filters_per_user
  Slots,      \* handlers that may wait at the same time
  MaxInputs   \* bound on the user's inputs

VARIABLES
  wizard,       \* SearchWizard._states: NoWizard or [step, filled]
  nlp,          \* NlpSearchBotFlow._states: "off", "asking" or "ready"
  understood,   \* the criteria of the free-text search when it is ready
  awaiting,     \* SourceSuggestionBotFlow._awaiting_input
  pendingName,  \* SavedFilterBotController._pending_names: NoWrite or [filter, filled]
  pendingEdit,  \* SavedFilterBotController._pending_edit_filter_ids
  filters,      \* user_filters: filter -> [filled, enabled], or Free
  task,         \* what each waiting handler will do next
  shown,        \* some result page was sent, with its Save and Update buttons
  inputs,
  agreed,       \* history: what Update was pressed for, <<filter, filled>>
  overlapped    \* history: two creations were under way at the same time

dialogueVars == <<wizard, nlp, understood, awaiting, pendingName, pendingEdit, shown>>
vars == <<dialogueVars, filters, task, inputs, agreed, overlapped>>

NoWizard == [step |-> 0, filled |-> {}]
NoFilter == "none"
NoWrite == [filter |-> "off", filled |-> {}]
Free == [filled |-> {}, enabled |-> FALSE, by |-> "nobody"]
Saved(filled, by) == [filled |-> filled, enabled |-> TRUE, by |-> by]
Rewritten(r, filled, by) == [filled |-> filled, enabled |-> r.enabled, by |-> by]
Idle == [kind |-> "idle", filter |-> NoFilter, filled |-> {}]

\* Ids of filters are none of the marks for "no filter"; there are finitely many.
Constants ==
  /\ IsFiniteSet(Filters) /\ NoFilter \notin Filters /\ NoWrite.filter \notin Filters
  /\ MaxFilters \in Nat

Stored(f) == filters[f].by # "nobody"

\* What the Mini App may ask for and the wizard has no question about.
WebOnly == {"min_price"}

StoredFilters == {f \in Filters : Stored(f)}

\* The bot's process starts while the user may have filters already.
Init ==
  /\ wizard = NoWizard
  /\ nlp = "off" /\ understood = {}
  /\ awaiting = FALSE
  /\ pendingName = NoWrite /\ pendingEdit = NoFilter
  /\ \E saved \in SUBSET Filters :
       /\ Cardinality(saved) <= MaxFilters
       /\ filters = [f \in Filters |-> IF f \in saved THEN Saved({"district"}, "create") ELSE Free]
  /\ task = [s \in Slots |-> Idle]
  /\ shown = FALSE
  /\ inputs = 0
  /\ agreed = {} /\ overlapped = FALSE

Input == inputs < MaxInputs /\ inputs' = inputs + 1

\* A handler that has come to its first call waits in a free slot.
Waits(kind, f, filled) ==
  \E s \in Slots : /\ task[s] = Idle
                   /\ task' = [task EXCEPT ![s] = [kind |-> kind, filter |-> f, filled |-> filled]]

At(name) == wizard.step > 0 /\ Order[wizard.step] = name

Last == Len(Order)

OnlyWizardMoves ==
  UNCHANGED <<nlp, understood, awaiting, pendingName, pendingEdit, shown, filters, task,
              agreed, overlapped>>

-----------------------------------------------------------------------------
(* The search wizard                                                       *)

\* start and reset.
WizardStart ==
  /\ Input
  /\ wizard' = [step |-> 1, filled |-> {}]
  /\ OnlyWizardMoves

\* The wizard's own cancel button.
WizardCancel ==
  /\ Input
  /\ wizard' = NoWizard
  /\ OnlyWizardMoves

\* The back button, and the /back command while the wizard has a state.
WizardBack ==
  /\ Input
  /\ wizard.step > 0
  /\ wizard' = [wizard EXCEPT !.step = IF @ = 1 THEN 1 ELSE @ - 1]
  /\ OnlyWizardMoves

\* _clear_step_value: every step has a value to clear but the price basis.
Cleared(w) ==
  IF Order[w.step] = "basis" THEN w.filled ELSE w.filled \ {Order[w.step]}

\* Skipping the last question ends the wizard without a search; skipping after
\* that starts it again.
WizardSkip ==
  /\ Input
  /\ wizard.step > 0
  /\ wizard' = IF At("done") THEN [step |-> 1, filled |-> {}]
               ELSE [step |-> wizard.step + 1, filled |-> Cleared(wizard)]
  /\ OnlyWizardMoves

\* basis_total and basis_any.
ChooseBasis ==
  /\ Input
  /\ At("basis")
  /\ \E filled \in {wizard.filled \ {"basis"}, wizard.filled \cup {"basis"}} :
       wizard' = [step |-> wizard.step + 1, filled |-> filled]
  /\ OnlyWizardMoves

\* A button of the renovation or the audience question; the answer to the last
\* question runs the search.
ChooseValue ==
  /\ Input
  /\ At("renovation") \/ At("audience")
  /\ \E filled \in {wizard.filled \ {Order[wizard.step]},
                    wizard.filled \cup {Order[wizard.step]}} :
       /\ wizard' = [step |-> wizard.step + 1, filled |-> filled]
       /\ IF At("audience") THEN Waits("search", NoFilter, filled) ELSE UNCHANGED task
  /\ UNCHANGED <<nlp, understood, awaiting, pendingName, pendingEdit, shown, filters,
                 agreed, overlapped>>

\* The page buttons of a result.
Page ==
  /\ Input
  /\ shown /\ At("done")
  /\ Waits("search", NoFilter, wizard.filled)
  /\ UNCHANGED <<wizard, nlp, understood, awaiting, pendingName, pendingEdit, shown, filters,
                 agreed, overlapped>>

\* A search has come back, and its page is sent, or the activation record
\* raised.
SearchReturns(s) ==
  /\ task[s].kind = "search"
  /\ task' = [task EXCEPT ![s] = Idle]
  /\ shown' \in {TRUE, shown}
  /\ UNCHANGED <<wizard, nlp, understood, awaiting, pendingName, pendingEdit, filters, inputs,
                 agreed, overlapped>>

-----------------------------------------------------------------------------
(* The free-text search and the source suggestion                          *)

NlpStart ==
  /\ Input
  /\ nlp' = "asking" /\ understood' = {}
  /\ UNCHANGED <<wizard, awaiting, pendingName, pendingEdit, shown, filters, task,
                 agreed, overlapped>>

NlpCancel ==
  /\ Input
  /\ nlp' = "off" /\ understood' = {}
  /\ UNCHANGED <<wizard, awaiting, pendingName, pendingEdit, shown, filters, task,
                 agreed, overlapped>>

\* Edit in the wizard.
NlpEdit ==
  /\ Input
  /\ nlp' = "off" /\ understood' = {}
  /\ wizard' = [step |-> 1, filled |-> {}]
  /\ UNCHANGED <<awaiting, pendingName, pendingEdit, shown, filters, task, agreed, overlapped>>

\* run_criteria makes a state of the wizard of the criteria, field by field: what
\* the wizard has no question about is dropped.
Kept(filled) == filled \ WebOnly

\* The wizard is put at the end of these criteria and searches.
RunCriteria(filled) ==
  /\ wizard' = [step |-> Last, filled |-> Kept(filled)]
  /\ Waits("search", NoFilter, Kept(filled))

NlpConfirm ==
  /\ Input
  /\ nlp = "ready"
  /\ RunCriteria(understood)
  /\ nlp' = "off" /\ understood' = {}
  /\ UNCHANGED <<awaiting, pendingName, pendingEdit, shown, filters, agreed, overlapped>>

\* The extraction has come back: its criteria replace the state there is now,
\* also one the user has cancelled meanwhile; a failed one leaves it alone.
Extracted(s) ==
  /\ task[s].kind = "extract"
  /\ task' = [task EXCEPT ![s] = Idle]
  /\ \/ nlp' = "ready" /\ understood' \in SUBSET {"district"}
     \/ UNCHANGED <<nlp, understood>>
  /\ UNCHANGED <<wizard, awaiting, pendingName, pendingEdit, shown, filters, inputs,
                 agreed, overlapped>>

SourceStart ==
  /\ Input
  /\ awaiting' = TRUE
  /\ UNCHANGED <<wizard, nlp, understood, pendingName, pendingEdit, shown, filters, task,
                 agreed, overlapped>>

SourceCancel ==
  /\ Input
  /\ awaiting' = FALSE
  /\ UNCHANGED <<wizard, nlp, understood, pendingName, pendingEdit, shown, filters, task,
                 agreed, overlapped>>

\* The suggestion was stored, or its name was not a source's.
Submitted(s) ==
  /\ task[s].kind = "submit"
  /\ task' = [task EXCEPT ![s] = Idle]
  /\ awaiting' \in {FALSE, awaiting}
  /\ UNCHANGED <<wizard, nlp, understood, pendingName, pendingEdit, shown, filters, inputs,
                 agreed, overlapped>>

-----------------------------------------------------------------------------
(* Saved filters                                                           *)

\* The Save button of a result page, old ones included.
PressSave ==
  /\ Input
  /\ shown /\ wizard.step > 0
  /\ pendingName' = [filter |-> NoFilter, filled |-> wizard.filled]
  /\ UNCHANGED <<wizard, nlp, understood, awaiting, pendingEdit, shown, filters, task,
                 agreed, overlapped>>

PressUpdate ==
  /\ Input
  /\ shown /\ wizard.step > 0 /\ pendingEdit # NoFilter
  /\ pendingName' = [filter |-> pendingEdit, filled |-> wizard.filled]
  /\ agreed' = agreed \cup {<<pendingEdit, wizard.filled>>}
  /\ UNCHANGED <<wizard, nlp, understood, awaiting, pendingEdit, shown, filters, task, overlapped>>

\* filter:cancel.
CancelPending ==
  /\ Input
  /\ pendingName' = NoWrite /\ pendingEdit' = NoFilter
  /\ UNCHANGED <<wizard, nlp, understood, awaiting, shown, filters, task, agreed, overlapped>>

\* Run and Edit read the filter first.
PressRun ==
  /\ Input
  /\ \E f \in StoredFilters, kind \in {"run", "edit"} : Waits(kind, f, filters[f].filled)
  /\ UNCHANGED <<wizard, nlp, understood, awaiting, pendingName, pendingEdit, shown, filters,
                 agreed, overlapped>>

FilterRead(s) ==
  /\ task[s].kind \in {"run", "edit"}
  /\ wizard' = [step |-> Last, filled |-> Kept(task[s].filled)]
  /\ task' = [task EXCEPT ![s] = [kind |-> "search", filter |-> NoFilter, filled |-> Kept(@.filled)]]
  /\ pendingEdit' = IF task[s].kind = "edit" THEN task[s].filter ELSE pendingEdit
  /\ UNCHANGED <<nlp, understood, awaiting, pendingName, shown, filters, inputs,
                 agreed, overlapped>>

\* Mutant: the limit lets one more in.
HasRoomForOneMore == Cardinality(StoredFilters) <= MaxFilters

\* SavedFilterService.create has counted the filters and found room.
HasRoom == Cardinality(StoredFilters) < MaxFilters

CreationsUnderWay == {s \in Slots : task[s].kind = "create"}

\* It was counted; the filter is inserted, under a new id.
Created(s) ==
  /\ task[s].kind = "create"
  /\ \E f \in Filters \ StoredFilters :
       filters' = [filters EXCEPT ![f] = Saved(task[s].filled, "create")]
  /\ task' = [task EXCEPT ![s] = Idle]
  /\ UNCHANGED <<dialogueVars, inputs, agreed, overlapped>>

\* The update of a filter that is still there; of another it raises KeyError.
\* An update of the bot also ends the edit, whichever is then pending.
Updated(s) ==
  /\ task[s].kind = "update"
  /\ filters' = IF Stored(task[s].filter)
                  THEN [filters EXCEPT ![task[s].filter] = Rewritten(@, task[s].filled, "bot")]
                  ELSE filters
  /\ pendingEdit' = IF Stored(task[s].filter) THEN NoFilter ELSE pendingEdit
  /\ task' = [task EXCEPT ![s] = Idle]
  /\ UNCHANGED <<wizard, nlp, understood, awaiting, pendingName, shown, inputs,
                 agreed, overlapped>>

\* Enable and disable, by the bot's button or the Mini App.
SetEnabled ==
  /\ Input
  /\ \E f \in StoredFilters, enabled \in BOOLEAN : filters' = [filters EXCEPT ![f] = [@ EXCEPT !.enabled = enabled]]
  /\ UNCHANGED <<dialogueVars, task, agreed, overlapped>>

\* The confirmed delete button and the Mini App's delete.
Delete ==
  /\ Input
  /\ \E f \in StoredFilters : filters' = [filters EXCEPT ![f] = Free]
  /\ UNCHANGED <<dialogueVars, task, agreed, overlapped>>

\* The Mini App's criteria.
WebCriteria == {{"district"}, {"district"} \cup WebOnly}

\* The Mini App: POST /filters up to the count, PATCH /filters/{id}.
WebCreate ==
  /\ Input
  /\ HasRoom
  /\ \E filled \in WebCriteria : Waits("create", NoFilter, filled)
  /\ overlapped' = (overlapped \/ CreationsUnderWay # {})
  /\ UNCHANGED <<dialogueVars, filters, agreed>>

WebUpdate ==
  /\ Input
  /\ \E f \in StoredFilters, filled \in WebCriteria :
       filters' = [filters EXCEPT ![f] = Rewritten(@, filled, "web")]
  /\ UNCHANGED <<dialogueVars, task, agreed, overlapped>>

-----------------------------------------------------------------------------
(* Text and commands                                                       *)

\* handle_text: the flows are asked in this order.
TextToSource ==
  /\ Input
  /\ awaiting
  /\ Waits("submit", NoFilter, {})
  /\ UNCHANGED <<dialogueVars, filters, agreed, overlapped>>

\* A bug in handle_name_text: the filter is the one being edited now.
TextNamesFilterEdited ==
  /\ Input
  /\ ~awaiting /\ pendingName # NoWrite
  /\ pendingName' = NoWrite
  /\ IF pendingName.filter = NoFilter
       THEN /\ IF HasRoom THEN Waits("create", NoFilter, pendingName.filled) ELSE UNCHANGED task
            /\ overlapped' = (overlapped \/ (HasRoom /\ CreationsUnderWay # {}))
       ELSE /\ Waits("update", pendingEdit, pendingName.filled)
            /\ UNCHANGED overlapped
  /\ UNCHANGED <<wizard, nlp, understood, awaiting, pendingEdit, shown, filters, agreed>>

\* handle_name_text: the write is taken off before it is made, so a name that
\* is refused, or a full list, loses it.
TextNamesFilter ==
  /\ Input
  /\ ~awaiting /\ pendingName # NoWrite
  /\ pendingName' = NoWrite
  /\ IF pendingName.filter = NoFilter
       THEN /\ IF HasRoom THEN Waits("create", NoFilter, pendingName.filled) ELSE UNCHANGED task
            /\ overlapped' = (overlapped \/ (HasRoom /\ CreationsUnderWay # {}))
       ELSE /\ Waits("update", pendingName.filter, pendingName.filled)
            /\ UNCHANGED overlapped
  /\ UNCHANGED <<wizard, nlp, understood, awaiting, pendingEdit, shown, filters, agreed>>

TextRefusedName ==
  /\ Input
  /\ ~awaiting /\ pendingName # NoWrite
  /\ pendingName' = NoWrite
  /\ UNCHANGED <<wizard, nlp, understood, awaiting, pendingEdit, shown, filters, task,
                 agreed, overlapped>>

TextToNlp ==
  /\ Input
  /\ ~awaiting /\ pendingName = NoWrite /\ nlp = "asking"
  /\ Waits("extract", NoFilter, {})
  /\ UNCHANGED <<dialogueVars, filters, agreed, overlapped>>

\* The questions answered by text; at the others the text is refused.
TextToWizard ==
  /\ Input
  /\ ~awaiting /\ pendingName = NoWrite /\ nlp # "asking"
  /\ At("district") \/ At("rooms") \/ At("budget")
  /\ wizard' = [step |-> wizard.step + 1, filled |-> wizard.filled \cup {Order[wizard.step]}]
  /\ OnlyWizardMoves

\* /cancel ends every flow but the write of a filter.
CancelCommand ==
  /\ Input
  /\ wizard' = NoWizard
  /\ nlp' = "off" /\ understood' = {}
  /\ awaiting' = FALSE
  /\ UNCHANGED <<pendingName, pendingEdit, shown, filters, task, agreed, overlapped>>

Next ==
  \/ WizardStart \/ WizardCancel \/ WizardBack \/ WizardSkip \/ ChooseBasis \/ ChooseValue \/ Page
  \/ NlpStart \/ NlpCancel \/ NlpEdit \/ NlpConfirm \/ SourceStart \/ SourceCancel
  \/ PressSave \/ PressUpdate \/ CancelPending \/ PressRun \/ SetEnabled \/ Delete
  \/ WebCreate \/ WebUpdate
  \/ TextToSource \/ TextNamesFilter \/ TextRefusedName \/ TextToNlp \/ TextToWizard
  \/ CancelCommand
  \/ \E s \in Slots : SearchReturns(s) \/ Extracted(s) \/ Submitted(s) \/ FilterRead(s)
                      \/ Created(s) \/ Updated(s)

Spec == Init /\ [][Next]_vars

-----------------------------------------------------------------------------
(* Properties                                                              *)

\* A filter the bot has rewritten has the criteria the wizard was at when
\* Update was pressed for that filter: a name typed after another edit began,
\* after another filter was run, or after the filter was deleted never writes
\* them to another filter.
UpdateGoesWhereAsked ==
  \A f \in Filters : filters[f].by = "bot" => <<f, filters[f].filled>> \in agreed

\* The user never has more filters than the limit, by the bot and the Mini App
\* together, unless two creations were under way at once: create counts the
\* filters and inserts the new one in two steps.
FilterCapUnlessOverlap ==
  overlapped \/ Cardinality(StoredFilters) <= MaxFilters

\* The saved filters are the ones the user asked for: no more than allowed, and each
\* with what the wizard held when it was asked for.
FiltersAreAsked == UpdateGoesWhereAsked /\ FilterCapUnlessOverlap
=============================================================================
