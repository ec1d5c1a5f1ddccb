-------------------------- MODULE AdapterRegistry --------------------------
(***************************************************************************)
(* The adapter plugins of one process (adapters/registry.py): reload loads *)
(* every plugin file, keeps the plugin it had when the new file fails, and *)
(* the listener instantiates the module that sys.modules holds under the   *)
(* plugin's name (listener_refresh.py, _telegram_plugin).                  *)
(***************************************************************************)
EXTENDS Naturals

CONSTANTS Plugins,      \* plugin file names
          MaxEdits      \* bound: changes of the plugin files

VARIABLES
  disk,      \* the content of each plugin file: a version, or NoFile
  sound,     \* the versions that load and expose a matching manifest
  plugins,   \* _plugins: the version each plugin is registered with, or NoFile
  failures,  \* _failures: the plugins of the last reload that failed
  modules,   \* sys.modules: the version a later import_module returns
  edits

registryVars == <<disk, sound, plugins, failures, modules, edits>>

NoFile == 0
Versions == 1..MaxEdits

Init ==
  /\ disk = [p \in Plugins |-> NoFile] /\ sound \in SUBSET Versions
  /\ plugins = disk /\ failures = {} /\ modules = disk /\ edits = 0

Edit(p) ==
  /\ edits < MaxEdits
  /\ edits' = edits + 1 /\ disk' = [disk EXCEPT ![p] = edits + 1]
  /\ UNCHANGED <<sound, plugins, failures, modules>>
Remove(p) ==
  /\ disk[p] # NoFile
  /\ disk' = [disk EXCEPT ![p] = NoFile]
  /\ UNCHANGED <<sound, plugins, failures, modules, edits>>

\* _load_plugin puts the new module in sys.modules before it executes it.
LoadModules == [p \in Plugins |-> IF disk[p] = NoFile THEN modules[p] ELSE disk[p]]
Fails(p) == disk[p] # NoFile /\ disk[p] \notin sound

\* Mutant: a failure is reported only when nothing is kept.
KeptQuietly == {p \in Plugins : Fails(p) /\ plugins[p] = NoFile}
\* every file that failed, whether an older plugin is kept or not
FailedNow == {p \in Plugins : Fails(p)}

Registry == [p \in Plugins |-> IF Fails(p) THEN plugins[p] ELSE disk[p]]

Reload ==
  /\ plugins' = Registry
  /\ failures' = FailedNow
  /\ modules' = LoadModules
  /\ UNCHANGED <<disk, sound, edits>>

Next == Reload \/ \E p \in Plugins : Edit(p) \/ Remove(p)

Spec == Init /\ [][Next]_registryVars

-----------------------------------------------------------------------------
\* A plugin that is registered without a failure is the one that will be instantiated: the
\* version whose hash the coordinator fingerprints is the one import_module returns.  After a
\* failed reload the registry keeps the old plugin while sys.modules already holds the broken
\* file, which is why the failure has to be reported.
RegisteredIsImported ==
  \A p \in Plugins : plugins[p] # NoFile /\ p \notin failures => modules[p] = plugins[p]
=============================================================================
