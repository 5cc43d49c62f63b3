SPECIFICATION FairSpec
CONSTANTS
  Proc = {p1, p2}
  Sub = {s1}
  NoSub = NoSub
  MaxPeriods = 2
INVARIANTS TypeOK PaidGrants BenefitsFollow
PROPERTY PaidIsServed
CHECK_DEADLOCK FALSE
