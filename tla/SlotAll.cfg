SPECIFICATION Spec
CONSTANTS
  Request = {p1, p2}
  Reservation = {r1, r2}
  NoReservation = NoReservation
  Slot = {10, 11, 12}
  Duration = 2
  HoldTicks = 1
  MaxTime = 1
  RedisEnabled = FALSE
SYMMETRY Symmetry
INVARIANTS TypeOK SingleConsumer NoOverlappingHolds NoDoubleBooking
CHECK_DEADLOCK FALSE
