SPECIFICATION Spec
CONSTANTS
  Request = {p1, p2}
  Booking = {b1, b2, b3}
  NoBooking = NoBooking
  Total = 2
  Ops <- AllOps
SYMMETRY Symmetry
INVARIANTS TypeOK NeverOversold ExhaustedWhenSpent ConsumedIsCounted
CHECK_DEADLOCK FALSE
