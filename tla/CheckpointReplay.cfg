CONSTANTS
  Root = root
  Child = child
  None = none
  p1 = p1
  p2 = p2
  c1 = c1
  m1 = m1
  Playbacks <- MCPlaybacks
  Cached <- MCCached
  Counterfactuals <- MCCounterfactuals
  Exact <- MCExact
  Vague <- MCVague
  MaxOthers = 2
  MaxActive = 1
  MaxFaults = 1
SPECIFICATION Spec
CHECK_DEADLOCK FALSE
SYMMETRY Same
INVARIANTS
  FrontierIsWhole
  AtMostOneResample
  ReplaysAreTrue
