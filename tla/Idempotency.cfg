SPECIFICATION FairSpec
CONSTANTS
  Users = {u1, u2}
  Paths = {"members", "work-items"}
  Indexed = {"members"}
  Bodies = {"b"}
  Requests = {r1, r2, r3}
INVARIANTS
  NoEffectOnceRecorded
  AnswersAreOwn
PROPERTY EveryRequestAnswered
CHECK_DEADLOCK FALSE
