SPECIFICATION Spec
CONSTANTS
  Controllers = {k1, k2, k3}
  None = None
  Lost = Lost
  MaxAttempts = 3
INVARIANTS
  SendsAreRecorded
  ClaimsAreTrue
  AppliedAtMostOnce
PROPERTIES
  OutcomeIsFinal
SYMMETRY Symmetry
