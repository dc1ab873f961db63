CONSTANTS
  Chats = {c1}
  Imports = {i1}
  Job = job
  Reaper = reaper_task
  Nobody = nobody
  Slots = {s1}
  KeepAlive = 2
  MaxRestarts = 1
SPECIFICATION FairSpec
INVARIANTS
  ReadyIsWatched
PROPERTIES
  EnsureLoadedReturns
  IdleLoadoutReleased
