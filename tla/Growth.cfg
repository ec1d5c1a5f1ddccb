SPECIFICATION Spec
CONSTANTS
  u1 = u1
  u2 = u2
  u3 = u3
  r1 = r1
  r2 = r2
  l1 = l1
  f1 = f1
  None = None
  Users <- MCUsers
  Requests <- Calls
  Threshold = 1
  MaxAttempts = 1
  Suggesters <- TwoUsers
  Decisions <- Calls
  Keys <- ThreeKeys
  MaxSubmits = 2
  Tags <- MCTags
  Seeded <- MCSeeded
  Near <- MCNear
  Listings <- OneListing
  Filters <- OneFilter
  TagKeys <- TwoKeys
  Planned <- MCPlanned
  Callers <- Calls
  DailyPostLimit = 1
  MaxRuns = 2
  MaxPermanent = 1
  MaxStrays = 1
INVARIANTS AwardMatchesCount CycleOnlyByRace RewardedOnce RefsApproved CappedUnlessOverlap
SYMMETRY Symmetry
CHECK_DEADLOCK FALSE
