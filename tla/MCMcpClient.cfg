CONSTANTS
  Callers = {c1, c2}
  Stoppers = {s1, s2}
  MaxRequests = 3
  MaxUnread = 2
  Nobody = Nobody
SPECIFICATION ClientFairSpec
INVARIANTS
  OwnAnswer
PROPERTIES
  DeathWakesCallers
