SPECIFICATION FairSpec
CONSTANTS
  None = None
  Absent = Absent
  Adapters <- MCAdapters
  Forms <- MCForms
  Bodies <- MCBodies
  Runtimes <- MCRuntimes
  Spare <- MCSpare
  Edits <- MCEdits
  MaxRevisions = 3
  MaxRuns = 2
INVARIANTS
  ArtifactsHold
  FormsAreServed
PROPERTIES
  ReceiptIsCurrent
  RunEnds
CHECK_DEADLOCK FALSE
