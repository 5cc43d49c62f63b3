SPECIFICATION FairSpec
CONSTANTS
  Request = {p1, p2}
  Provider = {a, b}
  Nobody = Nobody
  Ops <- AnswerOps
  Benefits = {}
  MaxAttempts = 1
  MaxWaits = 1
INVARIANTS TypeOK ServedOnlyWhenAgreed AnsweredOnce
PROPERTIES NeverPendingAgain OverdueIsReported
CHECK_DEADLOCK FALSE
