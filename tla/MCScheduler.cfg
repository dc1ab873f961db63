CONSTANTS
  Day = 3
  Days = 3
  Longest = 2
  Schedules = {s1}
  Sessions = {n1, n2}
  Editors = {e1, e2}
  Cadences <- OneOfEach
  None = None
SPECIFICATION FairSpec
INVARIANTS
  NeverOverlap
  PlanFitsCadence
  FirstFall
PROPERTIES
  DueUntilRun
  KeepsRunning
