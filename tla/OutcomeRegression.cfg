SPECIFICATION RegressionSpec
CONSTANTS
  r1 = r1
  p1 = p1
  c1 = c1
  k1 = k1
  Reruns <- MCReruns
  Plain <- MCPlain
  Criteria <- MCCriteria
  Clients <- MCClients
  LookAfter <- MCLookAfter
  Trials = 2
  Required = 2
  Root = Root
  Shared = Shared
  Old = Old
  None = None
  MaxFaults = 2
INVARIANTS EvidenceLeads ReceiptsHold RerunIsWhole PassedIsEveryTrial RecordsStand
CHECK_DEADLOCK FALSE
