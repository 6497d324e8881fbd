SPECIFICATION FairSpec
CONSTANTS
  Tasks <- MCTasks
  MaxLines = 3
  MaxErr = 1
  Estimates = {0, 3}
  Interval = 2
  None = None
CHECK_DEADLOCK FALSE
INVARIANTS
  ResultsHold
  HandoffIsAcknowledged
PROPERTIES
  RunsEnd
