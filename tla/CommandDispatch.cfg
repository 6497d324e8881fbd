SPECIFICATION FairSpec
CONSTANTS
  Apps = {a1, a2}
  Directs = {d1}
  Commands = {c1}
  None = None
  Lost = Lost
INVARIANTS
  LedgerHolds
PROPERTIES
  SettledIsFinal
  AcceptedIsSettled
