SPECIFICATION Spec
CONSTANTS
  Request = {p1, p2}
  Provider = {a, b}
  Nobody = Nobody
  Ops <- PromiseOps
  Benefits = {"ENTITLEMENT", "COINS"}
  MaxAttempts = 1
  MaxWaits = 1
SYMMETRY Symmetry
INVARIANT SpentOnlyWhenAccepted
PROPERTIES KeepsPromise
CHECK_DEADLOCK FALSE
