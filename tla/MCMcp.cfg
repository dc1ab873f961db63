CONSTANTS
  Servers = {s1}
  Commands = {x, y}
  Off = Off
  Resyncs = {r1, r2}
  Main = Main
  Calls = {k1}
  Objects = {o1, o2}
  None = None
SPECIFICATION FairSpec
VIEW Reachable
INVARIANTS
  ServersAreOwned
  ConnectedAsConfigured
PROPERTIES
  LifecycleEnds
