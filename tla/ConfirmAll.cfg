SPECIFICATION Spec
CONSTANTS
  Proc = {p1, p2}
  Provider = {a, b, c}
  Nobody = Nobody
  MaxMoves = 1
SYMMETRY Symmetry
INVARIANTS TypeOK WordCounts DoneOnce
PROPERTY ReplacedAfterMiss
CHECK_DEADLOCK FALSE
