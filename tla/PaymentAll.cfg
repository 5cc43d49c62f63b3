SPECIFICATION Spec
CONSTANTS
  Proc = {p1, p2}
  MaxOrders = 2
SYMMETRY Symmetry
INVARIANTS TypeOK KindFitsConfirmation PaidOutOnce DueIsSettled
CHECK_DEADLOCK FALSE
