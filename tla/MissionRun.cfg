SPECIFICATION Spec
CONSTANTS
  Controllers = {c1, c2}
  None = None
  Stages = 2
  HandOff = {1}
  MaxAttempts = 2
INVARIANTS
  OneAtATime
  FinishedIsDisclosed
PROPERTIES
  VerifiedIsQuiet
SYMMETRY Symmetry
