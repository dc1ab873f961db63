CONSTANTS
  Chats = {plain, rich1, rich2}
  Rich = {rich1, rich2}
  Internal = {step, sched}
  MaxQueue = 2
SPECIFICATION FairSpec
INVARIANTS
  CountsWaiters
PROPERTIES
  NoOvertaking
  WaitersAreServed
