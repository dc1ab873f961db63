SPECIFICATION Spec
CONSTANTS
  Ctx = 4000
  Sizes = {200, 700}
  Hits <- MCHits
  ModePrompt = 400
  MaxHistory = 7
  MaxRounds = 2
  Urls = {u1, u2, u3}
  MaxSources = 3
  MaxQueries = 2
  PerQuery = 2
  MaxRepair = 2
  Providers = {p1}
  Endpoints = {e1}
  Disabled = Disabled
  Models = {m1}
  Refreshes = {r1}
  MaxCommits = 0
  NoProvider = NoProvider
INVARIANTS
  TemplateAccepts
CHECK_DEADLOCK FALSE
