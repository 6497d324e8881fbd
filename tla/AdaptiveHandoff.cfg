SPECIFICATION Spec
CONSTANTS
  c1 = c1
  None = None
  Controllers = {c1}
  Plan <- MCPlan
  Effects = {e1}
  e1 = e1
  CapsuleSize = 2
  Wished = {2}
  MaxAttempts = 4
  MaxOverrides = 2
  MaxEdits = 2
PROPERTIES
  HandoffCarriesFrontier
  DecisionIsRight
  GoesForward
CHECK_DEADLOCK FALSE
