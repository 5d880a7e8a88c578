SPECIFICATION Spec
CONSTANTS
  TypeIds = {t1, t2}
  Keys = {"a", "A", "b c"}
  Malformed = {"b c"}
  CaseVariants = {{"a", "A"}}
  Requests = {r1, r2}
SYMMETRY Symmetry
INVARIANTS
  OrphanFieldsCameLate
  KeysClashOnlyUnchecked
  TrackedTypesHaveExpiryFields
  AnswersAreWhole
PROPERTIES
  TypesComeAndGoWhole
  UntrackedForGood
CHECK_DEADLOCK FALSE
