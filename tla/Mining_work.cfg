SPECIFICATION Spec
CONSTANTS
  Cycle = 3
  BlockTime = 2
  Early = 0
  Unchecked = 0
  Window = 2
  Width = 8
  Digits = 4
  Start <- MCStart
  Net <- MCNet
  Announced <- MCAnnounced
  Request = {r1}
  MinTime = 6
  MaxTime = 7
  MaxOwn = 1
CHECK_DEADLOCK FALSE
INVARIANTS TypeOK OnlyStaleMisleads PendingOnHead
PROPERTIES OwnWorkCounts WorkFollowsHead
