SPECIFICATION Spec
CONSTANTS
  Users = {u1, u2}
  Workspaces = {w1}
  DocIds = {d1}
  Requests = {r1, r2}
  RequestedRoles = {"OWNER", "MEMBER"}
INVARIANT AlwaysAnOwner
CHECK_DEADLOCK FALSE
