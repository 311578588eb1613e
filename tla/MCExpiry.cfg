SPECIFICATION Spec
CONSTANTS
  Contracts <- SmallContracts
  Underlyings = {"MSFT"}
  Prices = {8, 11, 14, Nothing}
  Policies <- SmallPolicies
  Sizes <- SmallSizes
  LastDay = 3
  MaxBars = 3
  MaxOpened = 2
  Nothing = Nothing
INVARIANTS
  SettlesInFull
  SettlesAtLastPrice
  ClosedInTime
CHECK_DEADLOCK FALSE
