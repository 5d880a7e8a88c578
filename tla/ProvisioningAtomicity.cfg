SPECIFICATION Spec
CONSTANTS
  Emails = {e1}
  Requests = {r1, r2}
INVARIANT NoPartialWorkspace
CHECK_DEADLOCK FALSE
