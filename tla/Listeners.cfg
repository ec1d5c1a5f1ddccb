\* Two admin requests, two writers, two plugins, two sources, two accounts, two adapters on one session.
SPECIFICATION Spec
CONSTANTS
  w1 = w1
  w2 = w2
  s1 = s1
  s2 = s2
  a1 = a1
  a2 = a2
  Admins <- Two
  MaxCodes = 2
  MaxRequests = 4
  MaxAuthFaults = 1
  Writers <- Two
  Keys <- MCKeys
  Configs <- MCConfigs
  PatchVersions = {}
  PatchModes = {}
  MaxWrites = 3
  Plugins <- Two
  MaxEdits = 3
  Sources <- MCSources
  Accounts <- MCAccounts
  Bindings <- MCBindings
  InitialSources <- MCInitialSources
  MaxChanges = 2
  MaxStarts = 2
  MaxFaults = 1
INVARIANTS LoginIsUsable PolicyStaysWithParser RegisteredIsImported QuietIsApplied OneClientWithoutOverlap
SYMMETRY Symmetry
\* The bounds on requests, writes, edits and changes run out.
CHECK_DEADLOCK FALSE
