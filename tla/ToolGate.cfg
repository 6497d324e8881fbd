SPECIFICATION Spec
CONSTANTS
  Gates = {g1, g2}
INVARIANTS
  ReleasesHold
  DecidedIsReleased
PROPERTIES
  DecisionsStand
SYMMETRY Symmetry
CHECK_DEADLOCK FALSE
