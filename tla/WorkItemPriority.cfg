SPECIFICATION Spec
CONSTANTS
  ItemIds = {i1}
  Requests = {r1, r2}
  RequestedStatuses = {"ACTIVE", "COMPLETED"}
INVARIANT StoredPriorityIsKnown
CHECK_DEADLOCK FALSE
