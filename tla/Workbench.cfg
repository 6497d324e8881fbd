SPECIFICATION FairBenchSpec
CONSTANTS
  m1 = m1
  m2 = m2
  Missions = {m1, m2}
  Planned = {m2}
  Openings <- MCOpenings
  Nothing = Nothing
  Outcomes = {"running", "waiting"}
  MaxEntries = 2
  MaxClicks = 1
  MaxFaults = 1
PROPERTIES
  StatusNeverGoesBack
  SelectedIsShown
CHECK_DEADLOCK FALSE
