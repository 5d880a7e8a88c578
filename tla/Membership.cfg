SPECIFICATION Spec
CONSTANTS
  Users = {u1, u2}
  Workspaces = {w1}
  DocIds = {d1, d2}
  Requests = {r1, r2, r3}
  RequestedRoles = {"OWNER", "MEMBER", "GUEST"}
SYMMETRY Symmetry
INVARIANTS
  TypeOK
  OneMembershipPerUser
  AuditTruthful
PROPERTIES
  LastOwnerLostOnlyWhenOvertaken
  RemovalIsFinal
  ChangesAreAuthorised
CHECK_DEADLOCK FALSE
