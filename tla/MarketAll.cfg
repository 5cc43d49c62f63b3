SPECIFICATION MarketSpec
CONSTANTS
  Proc = {h1, h2}
  Order = {o1, o2}
  NoOrder = NoOrder
  Variant = {v, w}
  Carts <- SomeCarts
  First = v
  Second = w
  Key = {k}
  NoKey = NoKey
  InitialStock = 1
  MaxFails = 1
  MaxRestocks = 1
INVARIANTS MarketTypeOK CountersMatch HeldIsOnShelf SoldIsConfirmed
SYMMETRY Symmetry
CHECK_DEADLOCK FALSE
