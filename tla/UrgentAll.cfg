SPECIFICATION Spec
CONSTANTS
  Request = {p1, p2}
  Provider = {a, b}
  Nobody = Nobody
  Ops <- AllOps
  MaxRounds = 2
SYMMETRY Symmetry
INVARIANTS TypeOK OneWinner HolderWon
PROPERTY WonStays
CHECK_DEADLOCK FALSE
