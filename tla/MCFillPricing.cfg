SPECIFICATION Spec
CONSTANTS
  Tick = 4
  Lot = 2
  Nothing = Nothing
  Orders <- SmallOrders
  Snapshots <- SmallSnapshots
  Setups <- SmallSetups
  BarsPerMonth = 2
  MaxBars = 3
INVARIANTS
  FillsAreSound
  PricedFromTheMarket
  SplitCostsAsOne
  TrailsFromBehind
CHECK_DEADLOCK FALSE
