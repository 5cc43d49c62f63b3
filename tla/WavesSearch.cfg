SPECIFICATION FairSpec
CONSTANTS
  Proc = {p1, p2}
  Provider = {a, b}
  BatchSize = 1
  MaxSessions = 3
  MaxRestarts = 1
INVARIANTS TypeOK AdvanceAlone
PROPERTY NeverStalled
CHECK_DEADLOCK FALSE
