SPECIFICATION FairSpec
CONSTANTS
  DocIds = {d1, d2}
  Clients = {c1, c2}
  Day = 2
  Threshold = 1
  TTL = 1
  Dates = {2, 3}
  Jump = 1
  JumpIn = 2
  MaxFill = 1
  MaxChanges = 1
INVARIANTS
  CountsMatchStatuses
  StalenessBounded
PROPERTY OverviewCatchesUp
