CONSTANTS
  Jobs = {j1, j2}
  Clients = {c}
  NoJob = NoJob
  Steps = 1
  Keys = {k1, k2}
  Values = {Unset, v}
  Unset = Unset
  NotStaged = NotStaged
  MaxChats = 2
SPECIFICATION AppFairSpec
INVARIANTS
  OneJobAtATime
  ReportsMatchRows
  NothingAfterTheEnd
  NoForgottenApply
PROPERTIES
  NeverMidRun
  PreviewKept
  FollowedToTheEnd
