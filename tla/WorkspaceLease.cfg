SPECIFICATION LeaseSpec
CONSTANTS
  Owners = {o1, o2}
  NoOwner = NoOwner
  Ttl = 2
  MaxClock = 4
  MaxToken = 3
  MaxLog = 3
INVARIANTS
  LeaseTypeOK
  LogIsFenced
  RecordedInOrder
PROPERTIES
  NoEarlyTakeover
  ImplementsFencedLog
SYMMETRY Symmetry
