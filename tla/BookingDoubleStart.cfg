SPECIFICATION Spec
CONSTANTS
  Request = {p1, p2}
  Provider = {a}
  Nobody = Nobody
  Ops <- StartOps
  Benefits = {}
  MaxAttempts = 1
  MaxWaits = 1
SYMMETRY Symmetry
INVARIANTS StartedOnce
CHECK_DEADLOCK FALSE
