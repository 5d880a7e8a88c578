SPECIFICATION Spec
CONSTANTS
  ItemIds = {i1, i2}
  Requests = {r1, r2, r3}
  RequestedStatuses = {"DRAFT", "ACTIVE", "COMPLETED", "ARCHIVED"}
SYMMETRY Symmetry
INVARIANTS
  TypeOK
  StatusAnswersAreTrue
  NoLostUpdate
  AuditTruthful
PROPERTIES
  StatusMachine
  UnreadableStaysSo
CHECK_DEADLOCK FALSE
