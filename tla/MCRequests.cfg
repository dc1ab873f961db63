SPECIFICATION Spec
CONSTANTS
  Ctx = 4000
  Sizes = {200, 700}
  Hits <- MCHits
  ModePrompt = 400
  MaxHistory = 7
  MaxRounds = 2
  Urls = {u1, u2, u3}
  MaxSources = 2
  MaxQueries = 2
  PerQuery = 2
  MaxRepair = 2
  Providers = {p1, p2}
  Endpoints = {e1, e2}
  Disabled = Disabled
  Models = {m1}
  Refreshes = {r1, r2}
  MaxCommits = 2
  NoProvider = NoProvider
INVARIANTS
  PreparedInFull
  ReportIsHonest
  RegistryIsCurrent
CHECK_DEADLOCK FALSE
