SPECIFICATION Spec
CONSTANTS
  DocIds = {d1}
  ItemIds = {i1}
  Requests = {r1, r2}
INVARIANT NoLinksOfDeletedItems
CHECK_DEADLOCK FALSE
