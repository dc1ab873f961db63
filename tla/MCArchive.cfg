CONSTANTS
  Names = {n1, n2}
  Contents = {c1, c2}
  Notes = {k1}
  ProjectIds = {p1, p2}
  Docs = {d1}
  Sessions = {s1, tg}
  None = None
  Chats = {tg}
  MaxTurns = 4
  Window = 2
  Skills = {sk}
  MaxEditions = 2
  MaxTracked = 1
  Budgets <- Scenarios
SPECIFICATION Spec
INVARIANTS
  InOrderOnce
  OnlyRivalsRetitle
  ReferencesExist
  WindowAlternates
  MirrorsMatch
CHECK_DEADLOCK FALSE
