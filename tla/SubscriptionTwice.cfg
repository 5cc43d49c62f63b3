SPECIFICATION Spec
CONSTANTS
  Proc = {p1}
  Sub = {s1, s2}
  NoSub = NoSub
  MaxPeriods = 1
SYMMETRY Symmetry
INVARIANT OnePlanOnce
CHECK_DEADLOCK FALSE
