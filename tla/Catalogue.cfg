SPECIFICATION Spec
CONSTANTS
  EntityIds = {e1, e2, f1}
  Foreign = {f1}
  Names = {n1}
  Spellings = {lower, upper}
  Roles = {"SELF", "CUSTOMER", "EMPLOYEE"}
  Restrictions = {"any", "CUSTOMER"}
  Requests = {r1, r2}
SYMMETRY Symmetry
INVARIANT TypeOK
PROPERTIES
  SelfDuplicatedOnlyWhenOvertaken
  ParentsFit
  NamesDuplicatedOnlyUnchecked
  TypesInUseLostOnlyWhenOvertaken
  ItemsFitEntities
CHECK_DEADLOCK FALSE
