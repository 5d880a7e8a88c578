SPECIFICATION Spec
CONSTANTS
  Emails = {e1, e2}
  Requests = {r1, r2, r3, r4}
SYMMETRY Symmetry
INVARIANTS
  OneUserPerEmail
  SuccessIsComplete
PROPERTY StrandedForever
CHECK_DEADLOCK FALSE
