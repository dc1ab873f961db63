CONSTANTS
  Chats = {c1}
  Imports = {i1}
  Job = job
  Reaper = reaper_task
  Nobody = nobody
  Slots = {s1, s2}
  KeepAlive = 1
  MaxRestarts = 0
SPECIFICATION Spec
INVARIANTS
  NeverUnloadMidGeneration
  VramAccounted
PROPERTIES
  AbstractSpec
