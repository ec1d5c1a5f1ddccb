\* Two models under both policies, with and without a required field; one or
\* two stored candidates; three announcements and two workers.
SPECIFICATION MCSpec
CONSTANTS
  NumModels = 2
  Requests <- MCRequests
  Answers <- MCAnswers
  MinConfidence = 72
  RentalMinConfidence = 60
  RejectBelow = 40
  JunkRejectBelow = 60
  a1 = a1
  a2 = a2
  a3 = a3
  w1 = w1
  w2 = w2
  Paired <- MCPaired
  Limits = {1, 2}
  Announcements <- MCAnnouncements
  Workers <- MCWorkers
  Fields = {1, 2, 3}
  MaxFaults = 1
  MaxActions = 1
  Inputs <- MCInputs
SYMMETRY Symmetry
INVARIANTS BestResponseReturned OnlyRentalsLeave EvidenceNeverHurts QueryGapsKnown
INVARIANTS NoRingAlone ParentCoversChild HandledIsReachable FlaggedIsReviewed VisibleIsPublished
\* A procedure that has ended stays so.
CHECK_DEADLOCK FALSE
