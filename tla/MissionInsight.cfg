SPECIFICATION InsightSpec
CONSTANTS
  Histories <- MCHistories
  Observations <- MCObservations
  Kinds <- MCKinds
  Criteria <- MCCriteria
  ContextFact = "context"
  Readers = {r1}
  Askers = {a1}
  Root = Root
  MaxObserved = 1
  MaxEdits = 1
  MaxCheckpoints = 2
  MaxForks = 1
INVARIANT ConfirmedIsEarned
PROPERTIES ConclusionsStand
CHECK_DEADLOCK FALSE
